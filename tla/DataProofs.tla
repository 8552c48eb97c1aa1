------------------------------ MODULE DataProofs ------------------------------
(***************************************************************************)
(* Proofs about the data that the programs keep and exchange: the cookie   *)
(* of a client, the ban score, the registry of commands, the notifications *)
(* and the decoders of transactions with their free list of script         *)
(* buffers.  They hold for every clock, interval and charge, as long as    *)
(* the charges together fit the number of the score, for every set of      *)
(* types and methods, and for every number of decoders and every stream.   *)
(* Which transaction a decoder returns is the subject of DecodeProofs.     *)
(***************************************************************************)
EXTENDS MsgTx, Notifications, Cookie, BanScore, FiniteSetTheorems, SequenceTheorems,
        WellFoundedInduction, TLAPS

-------------------------------------------------------------------------------
(* The cookie.                                                             *)

\* The moments in the state, in the order in which they came.
Clocks ==
  /\ now \in Nat /\ since \in Nat /\ asked \in Nat /\ readAt \in Nat
  /\ file.there \in BOOLEAN /\ file.mod \in Nat
  /\ cookieLastCheckTime \in Nat /\ cookieLastModTime \in Nat
  /\ since <= now /\ asked <= now /\ readAt <= now /\ file.mod <= now
  /\ cookieLastCheckTime <= now /\ cookieLastModTime <= now
  /\ asked > 0 => asked < cookieLastCheckTime + Interval
  /\ file.there => file.mod = since

\* What retrieveCookie has kept.
Kept == Answer(cookieLastErr, cookieLast)

\* A reading that began after the last change of the file is still good,
\* whatever was changed and failed before it.
ReadingGood == file.there /\ since < readAt => Kept = file.text \/ failed

\* A modification time is kept before the file is read, and nobody looks at
\* it before the reading has ended.
ModTimeRead == cpc # "read" => cookieLastModTime <= readAt

\* The file that is about to be read is there, or was removed after the look.
Opening == cpc = "read" /\ since < cookieLastCheckTime => file.there

\* A call returns what is kept.
Returned == cpc = "idle" /\ asked > 0 => answer = Kept

\* What is kept is what the file says since before the last look.
KeptCurrent ==
  cpc = "idle" /\ since < cookieLastCheckTime
    => Kept = Truth \/ (file.there /\ readAt = file.mod) \/ failed

CookieInv ==
  /\ Clocks
  /\ ReadingGood
  /\ ModTimeRead
  /\ Opening
  /\ Returned
  /\ KeptCurrent

LEMMA CookieInvInit == CookieInit => CookieInv
<1> SUFFICES ASSUME CookieInit PROVE CookieInv
  OBVIOUS
<1>1. ~file.there /\ file.there \in BOOLEAN /\ file.mod = 0
  BY DEF CookieInit
<1>2. /\ now = 1 /\ cpc = "idle" /\ cookieLastCheckTime = 0
      /\ cookieLastModTime = 0 /\ asked = 0 /\ since = 0 /\ readAt = 0
  BY DEF CookieInit
<1>3. Clocks
  BY <1>1, <1>2 DEF Clocks
<1> QED
  BY <1>1, <1>2, <1>3
  DEF CookieInv, ReadingGood, ModTimeRead, Opening, Returned, KeptCurrent

\* The clock.
LEMMA PassTimeStep == ASSUME CookieInv, PassTime PROVE CookieInv'
<1>1. Clocks'
  BY DEF PassTime, cached, CookieInv, Clocks
<1>2. UNCHANGED <<file, cpc, cached, asked, answer, since, readAt, failed>>
  BY DEF PassTime
<1>3. UNCHANGED <<Kept, Truth>>
  BY <1>2 DEF cached, Kept, Answer, Truth
<1> QED
  BY <1>1, <1>2, <1>3
  DEF CookieInv, cached, ReadingGood, ModTimeRead, Opening, Returned, KeptCurrent

\* The server writes or removes the file: nothing that was read is newer.
LEMMA ServerStep ==
  ASSUME CookieInv,
         RemoveCookie \/ \E text \in Cookies \cup {"malformed"} : WriteCookie(text)
  PROVE  CookieInv'
<1>1. /\ since' = now /\ failed' = FALSE
      /\ UNCHANGED <<now, cpc, cached, asked, answer, readAt>>
  BY DEF RemoveCookie, WriteCookie
<1>2. /\ file'.there \in BOOLEAN /\ file'.mod \in Nat /\ file'.mod <= now
      /\ file'.there => file'.mod = now
  <2>1. CASE RemoveCookie
    BY <2>1 DEF RemoveCookie, CookieInv, Clocks
  <2>2. CASE \E text \in Cookies \cup {"malformed"} : WriteCookie(text)
    BY <2>2 DEF WriteCookie, CookieInv, Clocks
  <2> QED
    BY <2>1, <2>2
<1>3. Clocks'
  BY <1>1, <1>2 DEF CookieInv, Clocks, cached
<1>4. ~(since' < readAt') /\ ~(since' < cookieLastCheckTime')
  BY <1>1 DEF CookieInv, Clocks, cached
<1>5. ModTimeRead' /\ Returned'
  BY <1>1 DEF CookieInv, ModTimeRead, Returned, Kept, Answer, cached
<1> QED
  BY <1>3, <1>4, <1>5 DEF CookieInv, ReadingGood, Opening, KeptCurrent

LEMMA UseCacheStep == ASSUME CookieInv, UseCache PROVE CookieInv'
<1>1. Clocks'
  BY DEF UseCache, cached, CookieInv, Clocks
<1>2. UNCHANGED <<file, cpc, cached, since, readAt, failed>> /\ answer' = Kept
  BY DEF UseCache, Kept
<1>3. UNCHANGED <<Kept, Truth>>
  BY <1>2 DEF cached, Kept, Answer, Truth
<1> QED
  BY <1>1, <1>2, <1>3
  DEF CookieInv, cached, ReadingGood, ModTimeRead, Opening, Returned, KeptCurrent

LEMMA LookStep == ASSUME CookieInv, Look PROVE CookieInv'
<1>1. Clocks'
  BY CookieAssumption DEF Look, CookieInv, Clocks
<1>2. /\ UNCHANGED <<file, cookieLastModTime, since, readAt, failed>>
      /\ cpc = "idle" /\ cpc' = "stat"
  BY DEF Look
<1>3. UNCHANGED Kept
  BY DEF Look, Kept, Answer
<1> QED
  BY <1>1, <1>2, <1>3
  DEF CookieInv, ReadingGood, ModTimeRead, Opening, Returned, KeptCurrent

LEMMA StatErrorStep == ASSUME CookieInv, StatError PROVE CookieInv'
BY CookieAssumption
DEF StatError, cached, CookieInv, Clocks, Kept, Answer, ReadingGood, ModTimeRead,
    Opening, Returned, KeptCurrent, Truth

\* The file has the modification time that is kept: it was read at that time,
\* or later, and then what was read is still good.
LEMMA StatStep == ASSUME CookieInv, Stat PROVE CookieInv'
<1>1. Clocks'
  BY DEF Stat, CookieInv, Clocks
<1>2. UNCHANGED <<file, cookieLastCheckTime, since, readAt, failed>>
  BY DEF Stat
<1>3. UNCHANGED <<Kept, Truth>>
  BY DEF Stat, Kept, Answer, Truth
<1>4. ReadingGood'
  BY <1>2, <1>3 DEF CookieInv, ReadingGood
<1>5. CASE file.mod # cookieLastModTime
  BY <1>1, <1>4, <1>5 DEF Stat, CookieInv, ModTimeRead, Opening, Returned, KeptCurrent
<1>6. CASE file.mod = cookieLastModTime
  <2>1. cpc' = "idle" /\ UNCHANGED cookieLastModTime /\ answer' = Kept /\ file.there
    BY <1>6 DEF Stat, Kept
  <2>2. cookieLastModTime <= readAt
    BY DEF CookieInv, ModTimeRead, Stat
  <2>3. Kept = Truth \/ readAt = file.mod \/ failed
    BY <1>6, <2>1, <2>2 DEF CookieInv, Clocks, ReadingGood, Truth
  <2> QED
    BY <1>1, <1>2, <1>3, <1>4, <2>1, <2>2, <2>3
    DEF CookieInv, ModTimeRead, Opening, Returned, KeptCurrent
<1> QED
  BY <1>5, <1>6

LEMMA ReadStep == ASSUME CookieInv, ReadError \/ readCookieFile PROVE CookieInv'
<1>1. /\ cpc = "read" /\ cpc' = "idle" /\ readAt' = now
      /\ UNCHANGED <<now, file, cookieLastCheckTime, cookieLastModTime, asked, since>>
  BY DEF ReadError, readCookieFile, Remember
<1>2. Clocks'
  BY <1>1 DEF CookieInv, Clocks
<1>3. answer' = Kept'
  BY DEF ReadError, readCookieFile, Remember, Kept, Answer
<1>4. file.there => Kept' = file.text \/ failed'
  BY DEF ReadError, readCookieFile, Remember, Kept, Answer
<1>5. ReadingGood'
  BY <1>1, <1>4 DEF ReadingGood
<1>6. since < cookieLastCheckTime => file.there
  BY <1>1 DEF CookieInv, Opening
<1> QED
  BY <1>1, <1>2, <1>3, <1>4, <1>5, <1>6
  DEF CookieInv, Clocks, ModTimeRead, Opening, Returned, KeptCurrent, Truth

LEMMA CookieInvStep == ASSUME CookieInv, [CookieNext]_cookieVars PROVE CookieInv'
<1>1. CASE UNCHANGED cookieVars
  BY <1>1
  DEF cookieVars, CookieInv, Clocks, Kept, Answer, ReadingGood, ModTimeRead,
      Opening, Returned, KeptCurrent, Truth
<1>2. CASE CookieNext
  BY <1>2, PassTimeStep, ServerStep, UseCacheStep, LookStep, StatErrorStep, StatStep,
     ReadStep
  DEF CookieNext
<1> QED
  BY <1>1, <1>2

(***************************************************************************)
(* For every Interval and for servers that write and remove the file at    *)
(* any moment, also between the Stat and the reading of retrieveCookie: an *)
(* answer is what the file has said for Interval, but for the two          *)
(* exceptions that CookieCurrent names.                                    *)
(***************************************************************************)
THEOREM CookieCurrentCorrect == CookieSpec => []CookieCurrent
<1>1. CookieInv => CookieCurrent
  BY CookieAssumption
  DEF CookieInv, Clocks, Returned, KeptCurrent, CookieCurrent
<1> QED
  BY <1>1, CookieInvInit, CookieInvStep, PTL DEF CookieSpec

-------------------------------------------------------------------------------
(* The ban score.                                                          *)

Top  == MaxGranted * One
Ages == 0 .. MaxTime + Lifetime
Age  == clock - lastUnix

\* What the proofs use of the multiplication by One.
LEMMA Units ==
  ASSUME NEW a \in Nat, NEW b \in Nat
  PROVE  /\ a * One \in Nat
         /\ (a + b) * One = a * One + b * One
         /\ a <= b => a * One <= b * One
<1>1. One \in Nat
  BY BanAssumption
<1>2. a * One \in Nat /\ (a + b) * One = a * One + b * One
  BY <1>1
<1>3. ASSUME a <= b PROVE a * One <= b * One
  <2>1. PICK c \in Nat : b = a + c
    <3>1. b - a \in Nat /\ b = a + (b - a)
      BY <1>3
    <3> QED
      BY <3>1
  <2>2. b * One = a * One + c * One /\ c * One \in Nat /\ a * One \in Nat
    BY <1>1, <2>1
  <2> QED
    BY <2>2
<1> QED
  BY <1>2, <1>3

LEMMA Decays ==
  ASSUME NEW x \in 0 .. Top, NEW t \in Ages
  PROVE  /\ Decay(x, t) \in 0 .. x
         /\ Decay(x, 0) = x
BY DecayAssumption DEF Top, Ages

LEMMA DecayTwice ==
  ASSUME NEW x \in 0 .. Top, NEW t \in Nat, NEW u \in Nat, t + u <= MaxTime + Lifetime
  PROVE  Decay(Decay(x, t), u) = Decay(x, t + u)
<1>1. t \in 0 .. MaxTime + Lifetime /\ u \in 0 .. MaxTime + Lifetime - t
  BY BanAssumption
<1> QED
  BY <1>1, DecayAssumption DEF Top

LEMMA DecayContracts ==
  ASSUME NEW x \in 0 .. Top, NEW y \in 0 .. x, NEW t \in Ages
  PROVE  /\ Decay(y, t) <= Decay(x, t)
         /\ Decay(x, t) - Decay(y, t) <= x - y
         /\ Decay(y, t) + Decay(x - y, t) <= Decay(x, t)
BY DecayAssumption DEF Top, Ages

\* What decays for longer decays to no more.
LEMMA DecayAntitone ==
  ASSUME NEW x \in 0 .. Top, NEW t \in Ages, t >= Lifetime
  PROVE  Decay(x, t) <= Decay(x, Lifetime)
<1>1. Lifetime \in Ages /\ Lifetime \in Nat /\ t - Lifetime \in Nat /\ t - Lifetime \in Ages
      /\ Lifetime + (t - Lifetime) = t /\ t <= MaxTime + Lifetime
  BY BanAssumption DEF Ages
<1>2. Top \in Nat
  BY BanAssumption, Units DEF Top
<1>3. Decay(Decay(x, Lifetime), t - Lifetime) = Decay(x, t)
  BY <1>1, DecayTwice
<1>4. Decay(x, Lifetime) \in 0 .. Top
  BY <1>1, <1>2, Decays
<1>5. Decay(Decay(x, Lifetime), t - Lifetime) \in 0 .. Decay(x, Lifetime)
  BY <1>1, <1>4, Decays
<1> QED
  BY <1>3, <1>5

\* The scores are at most what was charged, whatever the clock does.
Charged ==
  /\ clock \in 0 .. MaxTime /\ lastUnix \in 0 .. MaxTime
  /\ granted \in 0 .. MaxGranted
  /\ persistent \in 0 .. Width - 1
  /\ transient \in 0 .. granted * One
  /\ ideal \in 0 .. granted * One
  /\ steady \in BOOLEAN

\* The stored score as of now is at most one above the ideal one, because no
\* more than one is left undecayed.
NotAbove == Decay(transient, Age) <= ideal + One

\* It is below the ideal one by no more than what charges, b, have decayed to
\* that are not in the stored score any more: a score that is forgotten joins
\* them, and was older than Lifetime.
NotBelow ==
  \E b \in 0 .. granted * One - transient :
    ideal <= Decay(transient, Age) + Decay(b, Lifetime)

BanInv ==
  /\ Charged
  /\ steady => lastUnix <= clock /\ NotAbove /\ NotBelow

\* What is in range in a state of BanInv.
LEMMA Ranges ==
  ASSUME Charged
  PROVE  /\ Top \in Nat /\ granted * One \in 0 .. Top
         /\ transient \in 0 .. Top /\ ideal \in 0 .. Top
         /\ lastUnix <= clock => Age \in Ages /\ Age \in 0 .. MaxTime
         /\ One \in Nat /\ One > 0
<1>1. Top \in Nat /\ granted * One \in 0 .. Top
  BY BanAssumption, Units DEF Charged, Top
<1>2. transient \in 0 .. Top /\ ideal \in 0 .. Top
  BY <1>1 DEF Charged
<1>3. lastUnix <= clock => Age \in Ages /\ Age \in 0 .. MaxTime
  BY BanAssumption DEF Charged, Age, Ages
<1> QED
  BY <1>1, <1>2, <1>3, BanAssumption

LEMMA DecayNothing == \A t \in Ages : Decay(0, t) = 0
<1>1. 0 \in 0 .. Top
  BY BanAssumption, Units DEF Top
<1>2. \A t \in Ages : Decay(0, t) \in 0 .. 0
  BY <1>1, Decays
<1> QED
  BY <1>2

LEMMA BanInvInit == BanInit => BanInv
<1> SUFFICES ASSUME BanInit PROVE BanInv
  OBVIOUS
<1>1. One \in Nat /\ 0 * One = 0
  BY BanAssumption
<1>2. Charged
  BY <1>1, BanAssumption DEF BanInit, Charged
<1>3. Age \in Ages /\ Lifetime \in Ages
  BY BanAssumption DEF BanInit, Age, Ages
<1>4. transient = 0 /\ ideal = 0 /\ granted * One = 0 /\ lastUnix <= clock
  BY <1>1, <1>2 DEF BanInit, Charged
<1>5. NotAbove
  BY <1>1, <1>3, <1>4, DecayNothing DEF NotAbove
<1>6. NotBelow
  BY <1>3, <1>4, DecayNothing DEF NotBelow
<1> QED
  BY <1>2, <1>4, <1>5, <1>6 DEF BanInv

LEMMA ResetStep == ASSUME BanInv, Reset PROVE BanInv'
<1>1. One \in Nat /\ 0 * One = 0
  BY BanAssumption
<1>2. Charged'
  BY <1>1, BanAssumption DEF Reset, BanInv, Charged
<1>3. Age' \in Ages /\ Lifetime \in Ages
  BY BanAssumption DEF Reset, BanInv, Charged, Age, Ages
<1>4. transient' = 0 /\ ideal' = 0 /\ granted' * One = 0 /\ lastUnix' <= clock'
  BY <1>1, <1>2 DEF Reset, Charged
<1>5. NotAbove'
  BY <1>1, <1>3, <1>4, DecayNothing DEF NotAbove
<1>6. NotBelow'
  BY <1>3, <1>4, DecayNothing DEF NotBelow
<1> QED
  BY <1>2, <1>4, <1>5, <1>6 DEF BanInv

\* Both scores lose the same share, and what they differ by does not grow.
LEMMA TickStep == ASSUME BanInv, Tick PROVE BanInv'
<1>1. /\ UNCHANGED <<lastUnix, transient, persistent, granted, steady>>
      /\ clock' = clock + 1 /\ clock < MaxTime /\ ideal' = Decay(ideal, 1)
  BY DEF Tick
<1>2. /\ Top \in Nat /\ transient \in 0 .. Top /\ ideal \in 0 .. Top
      /\ One \in Nat /\ granted * One \in 0 .. Top
  BY Ranges DEF BanInv
<1>3. 1 \in Ages /\ Lifetime \in Ages
  BY <1>1, BanAssumption DEF BanInv, Charged, Ages
<1>4. ideal' \in 0 .. ideal
  BY <1>1, <1>2, <1>3, Decays
<1>5. Charged'
  BY <1>1, <1>2, <1>4, BanAssumption DEF BanInv, Charged
<1>6. ASSUME steady
      PROVE  lastUnix' <= clock' /\ NotAbove' /\ NotBelow'
  <2>1. lastUnix <= clock /\ NotAbove /\ NotBelow
    BY <1>6 DEF BanInv
  <2>2. Age \in Nat /\ Age \in Ages /\ Age' = Age + 1 /\ Age + 1 <= MaxTime + Lifetime
        /\ lastUnix' <= clock'
    BY <1>1, <2>1, BanAssumption DEF BanInv, Charged, Age, Ages
  <2> DEFINE stored == Decay(transient, Age)
  <2>3. stored \in 0 .. Top
    BY <1>2, <2>2, Decays
  <2>4. Decay(transient', Age') = Decay(stored, 1)
    BY <1>1, <1>2, <2>2, DecayTwice
  <2>5. Decay(stored, 1) \in 0 .. stored
    BY <1>3, <2>3, Decays
  <2>6. NotAbove'
    <3>1. stored <= ideal + One
      BY <2>1 DEF NotAbove
    <3>2. CASE stored <= ideal
      <4>1. Decay(stored, 1) <= Decay(ideal, 1)
        BY <1>2, <1>3, <2>3, <3>2, DecayContracts
      <4> QED
        BY <1>1, <1>2, <1>4, <2>4, <2>5, <2>3, <4>1 DEF NotAbove
    <3>3. CASE ideal <= stored
      <4>1. Decay(stored, 1) - Decay(ideal, 1) <= stored - ideal
        BY <1>2, <1>3, <2>3, <3>3, DecayContracts
      <4> QED
        BY <1>1, <1>2, <1>4, <2>3, <2>4, <2>5, <3>1, <4>1 DEF NotAbove
    <3> QED
      BY <1>2, <2>3, <3>2, <3>3
  <2>7. NotBelow'
    <3>1. PICK b \in 0 .. granted * One - transient : ideal <= stored + Decay(b, Lifetime)
      BY <2>1 DEF NotBelow
    <3>2. b \in 0 .. Top
      BY <1>2
    <3>3. Decay(b, Lifetime) \in Nat
      BY <1>2, <1>3, <3>2, Decays
    <3>4. ideal' <= Decay(stored, 1) + Decay(b, Lifetime)
      <4>1. CASE ideal <= stored
        <5>1. Decay(ideal, 1) <= Decay(stored, 1)
          BY <1>2, <1>3, <2>3, <4>1, DecayContracts
        <5> QED
          BY <1>1, <1>2, <1>4, <2>3, <2>5, <3>3, <5>1
      <4>2. CASE stored <= ideal
        <5>1. Decay(ideal, 1) - Decay(stored, 1) <= ideal - stored
          BY <1>2, <1>3, <2>3, <4>2, DecayContracts
        <5> QED
          BY <1>1, <1>2, <1>4, <2>3, <2>5, <3>1, <3>3, <5>1
      <4> QED
        BY <1>2, <2>3, <4>1, <4>2
    <3> QED
      BY <1>1, <2>4, <3>4 DEF NotBelow
  <2> QED
    BY <2>2, <2>6, <2>7
<1> QED
  BY <1>1, <1>5, <1>6 DEF BanInv

\* Nothing is claimed of a clock that has been set back.
LEMMA SetBackStep == ASSUME BanInv, SetBack PROVE BanInv'
<1>1. /\ UNCHANGED <<lastUnix, transient, persistent, granted, ideal>>
      /\ steady' = FALSE /\ clock' \in Start .. clock - 1
  BY DEF SetBack
<1>2. clock' \in 0 .. MaxTime
  BY <1>1, BanAssumption DEF BanInv, Charged
<1> QED
  BY <1>1, <1>2 DEF BanInv, Charged

\* Increased adds the charge to what is kept of the stored score: all of it
\* as it decayed, or undecayed if it is at most one, or nothing if it is
\* older than Lifetime.
LEMMA IncreaseStep ==
  ASSUME BanInv, NEW p \in Persistent, NEW charge \in Charges, Increase(p, charge)
  PROVE  BanInv'
<1> DEFINE c == charge * One
           g == granted * One
           stored == Decay(transient, Age)
<1>1. /\ charge \in Nat /\ p \in Nat /\ Width \in Nat /\ Width > 0
      /\ MaxGranted \in Nat /\ MaxTime \in Nat /\ Lifetime \in Nat
  BY BanAssumption
<1>2. /\ Top \in Nat /\ transient \in 0 .. Top /\ ideal \in 0 .. Top
      /\ One \in Nat /\ One > 0 /\ g \in 0 .. Top
      /\ lastUnix <= clock => Age \in Ages /\ Age \in 0 .. MaxTime
  BY Ranges DEF BanInv
<1>3. /\ clock \in 0 .. MaxTime /\ lastUnix \in 0 .. MaxTime
      /\ granted \in Nat /\ persistent \in 0 .. Width - 1
      /\ transient \in 0 .. g /\ ideal \in 0 .. g /\ steady \in BOOLEAN
  BY BanAssumption DEF BanInv, Charged
<1>4. /\ granted' = granted + charge /\ granted + charge <= MaxGranted
      /\ clock' = clock /\ steady' = steady /\ ideal' = ideal + c
      /\ persistent' = (persistent + p) % Width
  BY DEF Increase
<1>5. c \in Nat /\ granted' * One = g + c
  BY <1>1, <1>3, <1>4, Units
<1>6. persistent' \in 0 .. Width - 1
  BY <1>1, <1>3, <1>4
<1>7. Lifetime \in Ages
  BY <1>1 DEF Ages
<1>8. ASSUME lastUnix <= clock
      PROVE  stored \in 0 .. transient
  BY <1>2, <1>8, Decays
<1>9. CASE charge = 0
  <2>1. c = 0 /\ UNCHANGED <<transient, lastUnix>> /\ granted' = granted
    BY <1>1, <1>2, <1>3, <1>4, <1>9 DEF Increase
  <2>2. ideal' = ideal
    BY <1>3, <1>4, <1>2, <2>1
  <2> QED
    BY <1>3, <1>4, <1>6, <2>1, <2>2 DEF BanInv, Charged, NotAbove, NotBelow, Age
<1>10. CASE charge > 0
  <2>1. Increased(charge)
    BY <1>1, <1>10 DEF Increase
  <2>2. lastUnix' = clock
    BY <2>1 DEF Increased
  <2>3. PICK kept \in 0 .. transient :
          /\ transient' = kept + c
          /\ lastUnix <= clock =>
               \/ Age <= Lifetime /\ kept = stored
               \/ Age <= Lifetime /\ kept = transient /\ transient <= One
               \/ Lifetime < Age /\ kept = 0
    <3>1. Age \in Int
      BY <1>3 DEF Age
    <3>2. CASE Lifetime < Age
      <4>1. transient' = 0 + c /\ 0 \in 0 .. transient
        BY <1>2, <1>5, <2>1, <3>2 DEF Increased, Age
      <4> QED
        BY <3>2, <4>1
    <3>3. CASE ~(Lifetime < Age) /\ transient > One /\ Age > 0
      <4>1. lastUnix <= clock /\ Age <= Lifetime
        BY <1>1, <1>3, <3>1, <3>3 DEF Age
      <4>2. transient' = stored + c
        BY <2>1, <3>3 DEF Increased, Age
      <4> QED
        BY <1>8, <4>1, <4>2
    <3>4. CASE ~(Lifetime < Age) /\ ~(transient > One /\ Age > 0)
      <4>1. transient' = transient + c /\ transient \in 0 .. transient
        BY <1>2, <2>1, <3>4 DEF Increased, Age
      <4>2. Age <= Lifetime
        BY <1>1, <3>1, <3>4
      <4>3. ASSUME lastUnix <= clock, ~(transient <= One)
            PROVE  transient = stored
        <5>1. Age = 0
          BY <1>2, <3>1, <3>4, <4>3
        <5> QED
          BY <1>2, <4>3, <5>1, Decays
      <4> QED
        BY <4>1, <4>2, <4>3
    <3> QED
      BY <3>2, <3>3, <3>4
  <2>4. transient' \in 0 .. g + c /\ transient' \in 0 .. Top /\ granted' \in 0 .. MaxGranted
    <3>1. granted' \in 0 .. MaxGranted
      BY <1>1, <1>3, <1>4
    <3>2. g + c <= Top
      BY <1>1, <1>4, <1>5, <3>1, Units DEF Top
    <3> QED
      BY <1>2, <1>3, <1>5, <2>3, <3>1, <3>2
  <2>5. ideal' \in 0 .. g + c
    BY <1>2, <1>3, <1>4, <1>5
  <2>6. Charged'
    BY <1>3, <1>4, <1>5, <1>6, <2>2, <2>4, <2>5 DEF Charged
  <2>7. ASSUME steady
        PROVE  lastUnix' <= clock' /\ NotAbove' /\ NotBelow'
    <3>1. lastUnix <= clock /\ NotAbove /\ NotBelow
      BY <2>7 DEF BanInv
    <3>2. Age' = 0 /\ lastUnix' <= clock'
      BY <1>3, <1>4, <2>2 DEF Age
    <3>3. Decay(transient', Age') = kept + c
      BY <1>7, <2>3, <2>4, <3>2, Decays
    <3>4. stored \in 0 .. transient /\ stored <= ideal + One
      BY <1>8, <3>1 DEF NotAbove
    <3>5. NotAbove'
      <4>1. kept <= ideal + One
        BY <1>2, <1>3, <2>3, <3>1, <3>4
      <4> QED
        BY <1>2, <1>3, <1>4, <1>5, <3>3, <4>1 DEF NotAbove
    <3>6. NotBelow'
      <4>1. PICK b \in 0 .. g - transient : ideal <= stored + Decay(b, Lifetime)
        BY <3>1 DEF NotBelow
      <4>2. b \in 0 .. Top /\ Decay(b, Lifetime) \in Nat
        <5>1. b \in 0 .. Top
          BY <1>2, <1>3
        <5> QED
          BY <1>2, <1>7, <5>1, Decays
      <4>3. CASE kept >= stored
        <5>1. ideal' <= (kept + c) + Decay(b, Lifetime)
          BY <1>2, <1>3, <1>4, <1>5, <2>3, <3>4, <4>1, <4>2, <4>3
        <5>2. b \in 0 .. granted' * One - transient'
          BY <1>2, <1>3, <1>5, <2>3
        <5> QED
          BY <3>3, <5>1, <5>2 DEF NotBelow
      <4>4. CASE Lifetime < Age /\ kept = 0
        <5>1. b + transient \in 0 .. Top /\ b \in 0 .. b + transient
              /\ (b + transient) - b = transient
          BY <1>2, <1>3
        <5>2. stored <= Decay(transient, Lifetime)
          BY <1>1, <1>2, <3>1, <4>4, DecayAntitone DEF Ages
        <5>3. Decay(b, Lifetime) + Decay(transient, Lifetime) <= Decay(b + transient, Lifetime)
          BY <1>7, <5>1, DecayContracts
        <5>4. Decay(transient, Lifetime) \in Nat /\ Decay(b + transient, Lifetime) \in Nat
          BY <1>2, <1>7, <5>1, Decays
        <5>5. ideal' <= (kept + c) + Decay(b + transient, Lifetime)
          BY <1>2, <1>3, <1>4, <1>5, <3>4, <4>1, <4>2, <4>4, <5>2, <5>3, <5>4
        <5>6. b + transient \in 0 .. granted' * One - transient'
          BY <1>2, <1>3, <1>5, <2>3, <4>4
        <5> QED
          BY <3>3, <5>5, <5>6 DEF NotBelow
      <4> QED
        BY <1>2, <1>3, <2>3, <3>1, <3>4, <4>3, <4>4
    <3> QED
      BY <3>2, <3>5, <3>6
  <2> QED
    BY <1>4, <2>6, <2>7 DEF BanInv
<1> QED
  BY <1>1, <1>9, <1>10

LEMMA BanInvStep == ASSUME BanInv, [BanNext]_banVars PROVE BanInv'
<1>1. CASE UNCHANGED banVars
  BY <1>1 DEF banVars, BanInv, Charged, NotAbove, NotBelow, Age
<1>2. CASE BanNext
  BY <1>2, TickStep, SetBackStep, IncreaseStep, ResetStep DEF BanNext
<1> QED
  BY <1>1, <1>2

\* The uint32 sum of a score within the range of a uint32, and the difference
\* to the persistent part again.
LEMMA Wrapped ==
  ASSUME NEW w \in Nat, NEW a \in 0 .. w - 1, NEW q \in 0 .. w - 1
  PROVE  (((a + q) % w) - a) % w = q
<1>1. CASE a + q < w
  <2>1. (a + q) % w = a + q
    BY <1>1
  <2> QED
    BY <2>1
<1>2. CASE a + q >= w
  <2>1. (a + q) % w = a + q - w
    BY <1>2
  <2>2. (q - w) % w = q
    OBVIOUS
  <2> QED
    BY <2>1, <2>2
<1> QED
  BY <1>1, <1>2

\* Rounding down to whole scores.
LEMMA Rounded ==
  ASSUME NEW n \in Nat, NEW x \in 0 .. n * One
  PROVE  /\ x \div One \in 0 .. n
         /\ (x \div One) * One <= x
         /\ x < (x \div One + 1) * One
BY BanAssumption

(***************************************************************************)
(* Whatever the clock does, set back included: the transient score is at   *)
(* most the sum of the charges since the last Reset.                       *)
(***************************************************************************)
THEOREM NeverOverchargedCorrect == BanSpec => []NeverOvercharged
<1>1. BanInv => NeverOvercharged
  <2> SUFFICES ASSUME BanInv PROVE NeverOvercharged
    OBVIOUS
  <2>1. granted * One \in Nat
    BY Ranges DEF BanInv
  <2> QED
    BY <2>1 DEF BanInv, Charged, NeverOvercharged
<1> QED
  BY <1>1, BanInvInit, BanInvStep, PTL DEF BanSpec

(***************************************************************************)
(* For every Lifetime, every sequence of charges whose sum a uint32 holds  *)
(* and every decay that DecayAssumption describes: while the clock is not  *)
(* set back, the score that Int returns is the one that decays all the     *)
(* time, up to one and to what Lifetime forgets.                           *)
(***************************************************************************)
THEOREM ScoreTracksIdealCorrect == BanSpec => []ScoreTracksIdeal
<1>1. BanInv => ScoreTracksIdeal
  <2> SUFFICES ASSUME BanInv, steady
               PROVE  LET got == (Score - persistent) % Width
                      IN  /\ got * One <= ideal + One
                          /\ ideal < (got + 1) * One + Decay(granted * One, Lifetime)
    BY DEF ScoreTracksIdeal
  <2> DEFINE stored == Decay(transient, Age)
             g == granted * One
             lost == Decay(g, Lifetime)
  <2>1. /\ Top \in Nat /\ transient \in 0 .. Top /\ ideal \in 0 .. Top
        /\ One \in Nat /\ One > 0 /\ g \in 0 .. Top
        /\ lastUnix <= clock /\ Age \in Ages /\ Age \in 0 .. MaxTime
        /\ transient \in 0 .. g /\ ideal \in 0 .. g
        /\ NotAbove /\ NotBelow
    BY Ranges DEF BanInv, Charged
  <2>2. /\ granted \in Nat /\ granted < Width /\ Width \in Nat /\ Width > 0
        /\ persistent \in 0 .. Width - 1
    BY BanAssumption DEF BanInv, Charged
  <2>3. Lifetime \in Nat /\ Lifetime \in Ages
    BY BanAssumption DEF Ages
  <2>4. stored \in 0 .. transient /\ lost \in Nat
    BY <2>1, <2>3, Decays
  <2>5. PICK b \in 0 .. g - transient : ideal <= stored + Decay(b, Lifetime)
    BY <2>1 DEF NotBelow
  <2>6. b \in 0 .. g /\ b \in 0 .. Top
    BY <2>1
  <2>7. Decay(b, Lifetime) \in Nat /\ Decay(b, Lifetime) <= lost
    BY <2>1, <2>3, <2>4, <2>6, Decays, DecayContracts
  <2>8. stored <= ideal + One
    BY <2>1 DEF NotAbove
  <2>9. CASE transient < One \/ Lifetime < Age
    <3>1. Score = persistent
      BY <2>9 DEF Score, Age
    <3>2. (Score - persistent) % Width = 0
      BY <2>2, <3>1
    <3>3. ideal < One + lost
      <4>1. CASE transient < One
        BY <2>1, <2>4, <2>5, <2>7, <4>1
      <4>2. CASE Lifetime < Age
        <5>1. b + transient \in 0 .. g /\ b + transient \in 0 .. Top
              /\ b \in 0 .. b + transient /\ (b + transient) - b = transient
          BY <2>1
        <5>2. stored <= Decay(transient, Lifetime)
          BY <2>1, <2>3, <4>2, DecayAntitone
        <5>3. Decay(b, Lifetime) + Decay(transient, Lifetime) <= Decay(b + transient, Lifetime)
          BY <2>3, <5>1, DecayContracts
        <5>4. Decay(b + transient, Lifetime) <= lost
          BY <2>1, <2>3, <5>1, DecayContracts
        <5>5. Decay(transient, Lifetime) \in Nat /\ Decay(b + transient, Lifetime) \in Nat
          BY <2>1, <2>3, <5>1, Decays
        <5> QED
          BY <2>1, <2>4, <2>5, <2>7, <5>2, <5>3, <5>4, <5>5
      <4> QED
        BY <2>9, <4>1, <4>2
    <3> QED
      BY <2>1, <2>4, <3>2, <3>3
  <2>10. CASE ~(transient < One \/ Lifetime < Age)
    <3> DEFINE q == stored \div One
    <3>1. stored \in 0 .. granted * One
      BY <2>1, <2>4
    <3>2. q \in 0 .. granted /\ q * One <= stored /\ stored < (q + 1) * One
      BY <2>2, <3>1, Rounded
    <3>3. Score = (persistent + q) % Width
      BY <2>1, <2>10 DEF Score, Age
    <3>4. (Score - persistent) % Width = q
      BY <2>2, <3>2, <3>3, Wrapped
    <3>5. q * One \in Nat /\ (q + 1) * One \in Nat
      BY <2>1, <2>2, <3>2
    <3> HIDE DEF q
    <3>6. q * One <= ideal + One /\ ideal < (q + 1) * One + lost
      BY <2>1, <2>4, <2>5, <2>7, <2>8, <3>2, <3>5
    <3> QED
      BY <3>4, <3>6
  <2> QED
    BY <2>9, <2>10
<1> QED
  BY <1>1, BanInvInit, BanInvStep, PTL DEF BanSpec

-------------------------------------------------------------------------------
(* The registry of commands and its codec.                                 *)

\* The maps agree: a method has one type and its information, and the method
\* a type is marshalled for is registered with that type.
RegistryInv ==
  /\ DOMAIN methodToInfo = DOMAIN methodToConcreteType
  /\ \A m \in DOMAIN methodToConcreteType :
       /\ methodToConcreteType[m] \in Types
       /\ \E flags \in Flags :
            methodToInfo[m] = Info(Fields[methodToConcreteType[m]], flags)
  /\ \A t \in DOMAIN concreteTypeToMethod :
       /\ concreteTypeToMethod[t] \in DOMAIN methodToConcreteType
       /\ methodToConcreteType[concreteTypeToMethod[t]] = t

\* Registering another method disturbs none of them.
LEMMA RegistryStep ==
  ASSUME RegistryInv, [RegNext]_regVars
  PROVE  RegistryInv'
<1>1. CASE UNCHANGED regVars
  BY <1>1 DEF regVars, RegistryInv
<1>2. ASSUME NEW m \in Methods, NEW t \in Types, NEW flags \in Flags,
             RegisterCmd(m, t, flags)
      PROVE  RegistryInv'
  <2>1. /\ methodToConcreteType' = Assign(methodToConcreteType, m, t)
        /\ methodToInfo' = Assign(methodToInfo, m, Info(Fields[t], flags))
        /\ concreteTypeToMethod' = Assign(concreteTypeToMethod, t, m)
        /\ m \notin DOMAIN methodToConcreteType
    BY <1>2 DEF RegisterCmd
  <2>2. DOMAIN methodToInfo' = DOMAIN methodToConcreteType'
    BY <2>1 DEF RegistryInv, Assign
  <2>3. ASSUME NEW n \in DOMAIN methodToConcreteType'
        PROVE  /\ methodToConcreteType'[n] \in Types
               /\ \E f \in Flags :
                    methodToInfo'[n] = Info(Fields[methodToConcreteType'[n]], f)
    <3>1. CASE n = m
      BY <2>1, <3>1 DEF Assign
    <3>2. CASE n # m
      BY <2>1, <2>3, <3>2 DEF RegistryInv, Assign
    <3> QED
      BY <3>1, <3>2
  <2>4. ASSUME NEW u \in DOMAIN concreteTypeToMethod'
        PROVE  /\ concreteTypeToMethod'[u] \in DOMAIN methodToConcreteType'
               /\ methodToConcreteType'[concreteTypeToMethod'[u]] = u
    <3>1. CASE u = t
      BY <2>1, <3>1 DEF Assign
    <3>2. CASE u # t
      BY <2>1, <2>4, <3>2 DEF RegistryInv, Assign
    <3> QED
      BY <3>1, <3>2
  <2> QED
    BY <2>2, <2>3, <2>4 DEF RegistryInv
<1> QED
  BY <1>1, <1>2 DEF RegNext

\* makeParams keeps every required parameter, and adds none.
LEMMA ParamsAccepted ==
  ASSUME NEW fields \in Seq(Field), NEW cmd, NEW flags
  PROVE  checkNumParams(Cardinality(DOMAIN makeParams(fields, cmd)),
                        Info(fields, flags))
<1> DEFINE D == DOMAIN makeParams(fields, cmd)
           Opt == OptFields(fields)
           Req == DOMAIN fields \ Opt
<1>1. /\ IsFiniteSet(DOMAIN fields)
      /\ Cardinality(DOMAIN fields) = Len(fields)
      /\ Len(fields) \in Nat
  <2>1. DOMAIN fields = 1..Len(fields) /\ Len(fields) \in Nat
    OBVIOUS
  <2>2. IsFiniteSet(1..Len(fields)) /\ Cardinality(1..Len(fields)) = Len(fields)
    BY <2>1, FS_Interval
  <2> QED
    BY <2>1, <2>2
<1>2. Req \subseteq D /\ D \subseteq DOMAIN fields /\ Opt \subseteq DOMAIN fields
  BY DEF makeParams, OptFields
<1>3. /\ IsFiniteSet(D) /\ IsFiniteSet(Opt) /\ IsFiniteSet(Req)
      /\ Cardinality(D) \in Nat /\ Cardinality(Opt) \in Nat
      /\ Cardinality(Req) <= Cardinality(D)
      /\ Cardinality(D) <= Len(fields)
  BY <1>1, <1>2, FS_Subset, FS_CardinalityType
<1>4. Cardinality(Req) = Len(fields) - Cardinality(Opt)
  <2>1. Cardinality(Req) = Cardinality(DOMAIN fields)
                             - Cardinality(DOMAIN fields \cap Opt)
    BY <1>1, FS_Difference
  <2>2. DOMAIN fields \cap Opt = Opt
    BY <1>2
  <2> QED
    BY <1>1, <2>1, <2>2
<1> QED
  BY <1>3, <1>4 DEF checkNumParams, Info

\* What UnmarshalCmd makes of the parameters of makeParams.
LEMMA ParamsReceived ==
  ASSUME NEW type \in Types, NEW cmd \in CommandsOf(type), NEW flags
  PROVE  populateDefaults(makeParams(Fields[type], cmd),
                          Info(Fields[type], flags), Fields[type])
           = Received(type, cmd)
<1> DEFINE fields == Fields[type]
           D == DOMAIN makeParams(fields, cmd)
<1>1. fields \in Seq(Field) /\ DOMAIN fields = 1..Len(fields)
  BY CommandsAssumption
<1>2. \A i \in DOMAIN fields : cmd[i] = "nil" => fields[i].ptr
  BY DEF CommandsOf
<1>3. ASSUME NEW i \in DOMAIN fields
      PROVE  (IF i \in D
              THEN IF makeParams(fields, cmd)[i] = "nil" THEN Zero(fields[i])
                   ELSE makeParams(fields, cmd)[i]
              ELSE IF i \in Info(fields, flags).defaults THEN "default"
              ELSE Zero(fields[i]))
             = Received(type, cmd)[i]
  <2>1. CASE i \in D
    <3>1. makeParams(fields, cmd)[i] = cmd[i]
      BY <2>1 DEF makeParams
    <3>2. ~\A j \in DOMAIN fields : j >= i => cmd[j] = "nil"
      BY <1>2, <2>1 DEF makeParams
    <3>3. Received(type, cmd)[i] = cmd[i]
      BY <3>2 DEF Received
    <3> QED
      BY <1>2, <2>1, <3>1, <3>3 DEF Zero
  <2>2. CASE i \notin D
    <3>1. \A j \in DOMAIN fields : j >= i => fields[j].ptr /\ cmd[j] = "nil"
      BY <2>2 DEF makeParams
    <3>2. i >= i
      BY <1>1
    <3>3. fields[i].ptr /\ cmd[i] = "nil"
      BY <3>1, <3>2
    <3> QED
      BY <2>2, <3>1, <3>3 DEF Received, Info, Zero
  <2> QED
    BY <2>1, <2>2
<1> QED
  BY <1>1, <1>3 DEF populateDefaults, Received, Info

(***************************************************************************)
(* For every set of struct types, whatever is registered and in whatever   *)
(* order: a command of a registered type that is marshalled is accepted    *)
(* and unmarshalled as a command of that type, with the same values and    *)
(* the defaults of the trailing parameters that were omitted.              *)
(***************************************************************************)
THEOREM RoundTripCorrect == RegSpec => []CommandRoundTrip
<1>1. RegInit => RegistryInv
  BY DEF RegInit, RegistryInv
<1>2. RegistryInv /\ [RegNext]_regVars => RegistryInv'
  BY RegistryStep
<1>3. RegistryInv => CommandRoundTrip
  <2>1. SUFFICES ASSUME RegistryInv,
                        NEW type \in DOMAIN concreteTypeToMethod,
                        NEW cmd \in CommandsOf(type)
                 PROVE  UnmarshalCmd(MarshalCmd(type, cmd).method,
                                     MarshalCmd(type, cmd).params)
                        = [err |-> "", type |-> type, cmd |-> Received(type, cmd)]
    BY DEF CommandRoundTrip
  <2> DEFINE m == concreteTypeToMethod[type]
             params == makeParams(Fields[type], cmd)
  <2>2. /\ MarshalCmd(type, cmd).method = concreteTypeToMethod[type]
        /\ MarshalCmd(type, cmd).params = makeParams(Fields[type], cmd)
    BY <2>1 DEF MarshalCmd
  <2>3. /\ m \in DOMAIN methodToConcreteType
        /\ methodToConcreteType[m] = type
        /\ type \in Types
    BY <2>1 DEF RegistryInv
  <2>4. PICK flags \in Flags : methodToInfo[m] = Info(Fields[type], flags)
    BY <2>1, <2>3 DEF RegistryInv
  <2>5. Fields[type] \in Seq(Field)
    BY <2>3, CommandsAssumption
  <2>6. checkNumParams(Cardinality(DOMAIN params), methodToInfo[m])
    BY <2>4, <2>5, ParamsAccepted
  <2>7. \A i \in DOMAIN params : params[i] # "mismatch"
    BY DEF makeParams, CommandsOf
  <2>8. populateDefaults(params, methodToInfo[m], Fields[type])
          = Received(type, cmd)
    BY <2>3, <2>4, ParamsReceived
  <2>9. UnmarshalCmd(m, params)
          = [err |-> "", type |-> type, cmd |-> Received(type, cmd)]
    BY <2>3, <2>6, <2>7, <2>8 DEF UnmarshalCmd
  <2> QED
    BY <2>2, <2>9
<1> QED
  BY <1>1, <1>2, <1>3, PTL DEF RegSpec
-------------------------------------------------------------------------------
(* The notifications.                                                      *)

Tables == {"blockconnected", "blockdisconnected", "filteredblockconnected",
           "filteredblockdisconnected", "recvtx", "redeemingtx", "rescanfinished",
           "rescanprogress", "txaccepted", "txacceptedverbose", "relevanttxaccepted",
           "accountbalance", "btcdconnected"}

\* The notification has n fields and its parser wants as many, but for a last one
\* that is optional; the parser accepts what the fields mean.
Row(m, n) ==
  /\ DOMAIN Notifications[m] = 1 .. n
  /\ DOMAIN Callbacks[m][2].wants = 1 .. n
  /\ Callbacks[m][2].max \in {0, n}
  /\ Callbacks[m][2].min = IF Notifications[m][n] = "BlockDetails" THEN n - 1 ELSE n
  /\ \A i \in 1 .. n - 1 : Notifications[m][i] # "BlockDetails"
  /\ \A i \in 1 .. n : \A v \in Meaning[m][i] : Accepts(Callbacks[m][2].wants[i], v)

LEMMA Domains ==
  /\ DOMAIN Notifications = Tables \cup {"walletlockstate", "newtx"}
  /\ DOMAIN Callbacks = Tables \cup {"walletlockstate"}
  /\ DOMAIN Meaning = Tables
<1>1. DOMAIN Notifications = Tables \cup {"walletlockstate", "newtx"}
  BY DEF Notifications, Joined, BlockNtfns, TxNtfns, WalletNtfns, Tables
<1>2. DOMAIN Callbacks = Tables \cup {"walletlockstate"}
  BY DEF Callbacks, Joined, BlockCallbacks, TxCallbacks, WalletCallbacks, Tables
<1>3. DOMAIN Meaning = Tables
  BY DEF Meaning, Tables
<1> QED
  BY <1>1, <1>2, <1>3

\* The parsers accept what is meant.
LEMMA Accepted ==
  /\ Accepts("hash", "hash") /\ Accepts("hex", "tx") /\ Accepts("tx", "tx")
  /\ Accepts("header", "header") /\ Accepts("txs", "txs") /\ Accepts("object", "object")
  /\ Accepts("details", "details") /\ Accepts("details", "nil")
  /\ Accepts("int32", "int32") /\ Accepts("int64", "int32") /\ Accepts("int64", "int64")
  /\ Accepts("amount", "int32") /\ Accepts("amount", "float64")
  /\ Accepts("bool", "true") /\ Accepts("bool", "false")
  /\ \A v \in ValuesOf("string") : Accepts("string", v)
BY DEF Accepts, ValuesOf

LEMMA Rows ==
  ASSUME NEW m \in Tables
  PROVE  \E n \in 1 .. 3 : Row(m, n)
<1> USE DEF Joined, BlockNtfns, TxNtfns, WalletNtfns, BlockCallbacks, TxCallbacks,
            WalletCallbacks, Parser
<1>0. /\ \A i \in 1 .. 1 : i = 1
      /\ \A i \in 1 .. 2 : i = 1 \/ i = 2
      /\ \A i \in 1 .. 3 : i = 1 \/ i = 2 \/ i = 3
  OBVIOUS
<1>1. CASE m = "blockconnected"
  <2>1. /\ Notifications[m] = <<"string", "int32", "int64">>
        /\ Callbacks[m][2] = parseChainNtfnParams
        /\ Meaning[m] = <<{"hash"}, {"int32"}, {"int32", "int64"}>>
    BY <1>1 DEF Notifications, Callbacks, Meaning
  <2>2. Row(m, 3)
    BY <1>0, <2>1, Accepted DEF Row, parseChainNtfnParams
  <2> QED
    BY <2>2
<1>2. CASE m = "blockdisconnected"
  <2>1. /\ Notifications[m] = <<"string", "int32", "int64">>
        /\ Callbacks[m][2] = parseChainNtfnParams
        /\ Meaning[m] = <<{"hash"}, {"int32"}, {"int32", "int64"}>>
    BY <1>2 DEF Notifications, Callbacks, Meaning
  <2>2. Row(m, 3)
    BY <1>0, <2>1, Accepted DEF Row, parseChainNtfnParams
  <2> QED
    BY <2>2
<1>3. CASE m = "filteredblockconnected"
  <2>1. /\ Notifications[m] = <<"int32", "string", "[]string">>
        /\ Callbacks[m][2] = parseFilteredBlockConnectedParams
        /\ Meaning[m] = <<{"int32"}, {"header"}, {"txs"}>>
    BY <1>3 DEF Notifications, Callbacks, Meaning
  <2>2. Row(m, 3)
    BY <1>0, <2>1, Accepted DEF Row, parseFilteredBlockConnectedParams
  <2> QED
    BY <2>2
<1>4. CASE m = "filteredblockdisconnected"
  <2>1. /\ Notifications[m] = <<"int32", "string">>
        /\ Callbacks[m][2] = parseFilteredBlockDisconnectedParams
        /\ Meaning[m] = <<{"int32"}, {"header"}>>
    BY <1>4 DEF Notifications, Callbacks, Meaning
  <2>2. Row(m, 2)
    BY <1>0, <2>1, Accepted DEF Row, parseFilteredBlockDisconnectedParams
  <2> QED
    BY <2>2
<1>5. CASE m = "recvtx"
  <2>1. /\ Notifications[m] = <<"string", "BlockDetails">>
        /\ Callbacks[m][2] = parseChainTxNtfnParams
        /\ Meaning[m] = <<{"tx"}, {"nil", "details"}>>
    BY <1>5 DEF Notifications, Callbacks, Meaning
  <2>2. Row(m, 2)
    BY <1>0, <2>1, Accepted DEF Row, parseChainTxNtfnParams
  <2> QED
    BY <2>2
<1>6. CASE m = "redeemingtx"
  <2>1. /\ Notifications[m] = <<"string", "BlockDetails">>
        /\ Callbacks[m][2] = parseChainTxNtfnParams
        /\ Meaning[m] = <<{"tx"}, {"nil", "details"}>>
    BY <1>6 DEF Notifications, Callbacks, Meaning
  <2>2. Row(m, 2)
    BY <1>0, <2>1, Accepted DEF Row, parseChainTxNtfnParams
  <2> QED
    BY <2>2
<1>7. CASE m = "rescanfinished"
  <2>1. /\ Notifications[m] = <<"string", "int32", "int64">>
        /\ Callbacks[m][2] = parseRescanProgressParams
        /\ Meaning[m] = <<{"hash"}, {"int32"}, {"int32", "int64"}>>
    BY <1>7 DEF Notifications, Callbacks, Meaning
  <2>2. Row(m, 3)
    BY <1>0, <2>1, Accepted DEF Row, parseRescanProgressParams
  <2> QED
    BY <2>2
<1>8. CASE m = "rescanprogress"
  <2>1. /\ Notifications[m] = <<"string", "int32", "int64">>
        /\ Callbacks[m][2] = parseRescanProgressParams
        /\ Meaning[m] = <<{"hash"}, {"int32"}, {"int32", "int64"}>>
    BY <1>8 DEF Notifications, Callbacks, Meaning
  <2>2. Row(m, 3)
    BY <1>0, <2>1, Accepted DEF Row, parseRescanProgressParams
  <2> QED
    BY <2>2
<1>9. CASE m = "txaccepted"
  <2>1. /\ Notifications[m] = <<"string", "float64">>
        /\ Callbacks[m][2] = parseTxAcceptedNtfnParams
        /\ Meaning[m] = <<{"hash"}, {"int32", "float64"}>>
    BY <1>9 DEF Notifications, Callbacks, Meaning
  <2>2. Row(m, 2)
    BY <1>0, <2>1, Accepted DEF Row, parseTxAcceptedNtfnParams
  <2> QED
    BY <2>2
<1>10. CASE m = "txacceptedverbose"
  <2>1. /\ Notifications[m] = <<"object">>
        /\ Callbacks[m][2] = parseTxAcceptedVerboseNtfnParams
        /\ Meaning[m] = <<{"object"}>>
    BY <1>10 DEF Notifications, Callbacks, Meaning
  <2>2. Row(m, 1)
    BY <1>0, <2>1, Accepted DEF Row, parseTxAcceptedVerboseNtfnParams
  <2> QED
    BY <2>2
<1>11. CASE m = "relevanttxaccepted"
  <2>1. /\ Notifications[m] = <<"string">>
        /\ Callbacks[m][2] = parseRelevantTxAcceptedParams
        /\ Meaning[m] = <<{"tx"}>>
    BY <1>11 DEF Notifications, Callbacks, Meaning
  <2>2. Row(m, 1)
    BY <1>0, <2>1, Accepted DEF Row, parseRelevantTxAcceptedParams
  <2> QED
    BY <2>2
<1>12. CASE m = "accountbalance"
  <2>1. /\ Notifications[m] = <<"string", "float64", "bool">>
        /\ Callbacks[m][2] = parseAccountBalanceNtfnParams
        /\ Meaning[m] = <<ValuesOf("string"), {"int32", "float64"}, {"true", "false"}>>
    BY <1>12 DEF Notifications, Callbacks, Meaning
  <2>2. Row(m, 3)
    BY <1>0, <2>1, Accepted DEF Row, parseAccountBalanceNtfnParams
  <2> QED
    BY <2>2
<1>13. CASE m = "btcdconnected"
  <2>1. /\ Notifications[m] = <<"bool">>
        /\ Callbacks[m][2] = parseBtcdConnectedNtfnParams
        /\ Meaning[m] = <<{"true", "false"}>>
    BY <1>13 DEF Notifications, Callbacks, Meaning
  <2>2. Row(m, 1)
    BY <1>0, <2>1, Accepted DEF Row, parseBtcdConnectedNtfnParams
  <2> QED
    BY <2>2
<1> QED
  BY <1>1, <1>2, <1>3, <1>4, <1>5, <1>6, <1>7, <1>8, <1>9, <1>10, <1>11, <1>12, <1>13 DEF Tables

LEMMA OtherRows ==
  /\ Notifications["walletlockstate"] = <<"bool">>
  /\ Callbacks["walletlockstate"][2] = parseWalletLockStateNtfnParams
  /\ Notifications["newtx"] = <<"string", "object">>
BY DEF Notifications, Callbacks, Joined, BlockNtfns, TxNtfns, WalletNtfns, BlockCallbacks,
       TxCallbacks, WalletCallbacks

LEMMA CallbackNames ==
  ASSUME NEW m \in DOMAIN Callbacks
  PROVE  Callbacks[m][1] # "nil"
BY DEF Callbacks, Joined, BlockCallbacks, TxCallbacks, WalletCallbacks

\* The number of the first n positions.
LEMMA Positions ==
  ASSUME NEW n \in Nat
  PROVE  Cardinality(1 .. n) = n
BY FS_Interval

LEMMA Positions1 == Cardinality(1 .. 1) = 1 /\ Cardinality(1 .. 1 - 1) = 0
<1>1. 1 .. 1 - 1 = 1 .. 0
  OBVIOUS
<1>2. Cardinality(1 .. 0) = 0 /\ Cardinality(1 .. 1) = 1
  BY Positions
<1> QED
  BY <1>1, <1>2

\* Only the last field may be nil.
Shape(m, n) ==
  DOMAIN Notifications[m] = 1 .. n /\ \A i \in 1 .. n - 1 : Notifications[m][i] # "BlockDetails"

\* The parameters are the fields, or those before the last one, which is nil.
Marshalled(m, n, ntfn, params) ==
  /\ DOMAIN ntfn = 1 .. n
  /\ \/ params = ntfn
     \/ /\ Notifications[m][n] = "BlockDetails" /\ ntfn[n] = "nil"
        /\ DOMAIN params = 1 .. n - 1
        /\ \A i \in 1 .. n - 1 : params[i] = ntfn[i]

LEMMA Parameters ==
  ASSUME NEW m, NEW n \in 1 .. 3, Shape(m, n), NEW ntfn \in Instances(m),
         NEW params, params = makeParams(NtfnFields(m), ntfn)
  PROVE  Marshalled(m, n, ntfn, params)
<1> DEFINE fields == NtfnFields(m)
           Kept1 == {i \in 1 .. n : \E j \in 1 .. n : j >= i /\ ~(fields[j].ptr /\ ntfn[j] = "nil")}
<1>1. DOMAIN ntfn = 1 .. n /\ ntfn = [i \in 1 .. n |-> ntfn[i]]
  BY DEF Shape, Instances
<1>2. /\ DOMAIN fields = 1 .. n
      /\ \A i \in 1 .. n : fields[i].ptr <=> Notifications[m][i] = "BlockDetails"
  BY DEF Shape, NtfnFields
<1>3. params = [i \in Kept1 |-> ntfn[i]]
  BY <1>2 DEF makeParams
<1>4. CASE Notifications[m][n] = "BlockDetails" /\ ntfn[n] = "nil"
  <2>1. Kept1 = 1 .. n - 1
    BY <1>2, <1>4 DEF Shape
  <2> HIDE DEF Kept1, fields
  <2>2. DOMAIN params = 1 .. n - 1 /\ \A i \in 1 .. n - 1 : params[i] = ntfn[i]
    BY <1>3, <2>1
  <2> QED
    BY <1>1, <1>4, <2>2 DEF Marshalled
<1>5. CASE ~(Notifications[m][n] = "BlockDetails" /\ ntfn[n] = "nil")
  <2>1. Kept1 = 1 .. n
    <3>1. n \in 1 .. n /\ ~(fields[n].ptr /\ ntfn[n] = "nil") /\ \A i \in 1 .. n : n >= i
      BY <1>2, <1>5
    <3> QED
      BY <3>1
  <2> HIDE DEF Kept1, fields
  <2>2. params = ntfn
    BY <1>1, <1>3, <2>1, Zenon
  <2> QED
    BY <1>1, <2>2 DEF Marshalled
<1> QED
  BY <1>4, <1>5

\* What handleNotification makes of a notification as it was sent.
LEMMA Delivered ==
  ASSUME NEW m \in DOMAIN Notifications, NEW ntfn \in Instances(m),
         NEW params, params = makeParams(NtfnFields(m), ntfn)
  PROVE  /\ m # "walletlockstate" /\ Meaningful(m, ntfn) =>
              handleNotification(m, params) = {<<h, ntfn>> : h \in handlers \cap Due(m)}
         /\ \A call \in handleNotification(m, params) : call[1] \in handlers \cap Due(m)
<1>1. CASE m \in Tables
  <2>1. PICK n \in 1 .. 3 : Row(m, n)
    BY <1>1, Rows
  <2> DEFINE p == Callbacks[m][2]
  <2>2. /\ DOMAIN Notifications[m] = 1 .. n /\ DOMAIN p.wants = 1 .. n
        /\ \A i \in 1 .. n - 1 : Notifications[m][i] # "BlockDetails"
        /\ p.max \in {0, n}
        /\ p.min = IF Notifications[m][n] = "BlockDetails" THEN n - 1 ELSE n
        /\ \A i \in 1 .. n : \A v \in Meaning[m][i] : Accepts(p.wants[i], v)
    BY <2>1 DEF Row
  <2>3. /\ DOMAIN ntfn = 1 .. n
        /\ \/ params = ntfn
           \/ /\ Notifications[m][n] = "BlockDetails" /\ ntfn[n] = "nil"
              /\ DOMAIN params = 1 .. n - 1
              /\ \A i \in 1 .. n - 1 : params[i] = ntfn[i]
    <3>1. Shape(m, n)
      BY <2>2 DEF Shape
    <3>2. Marshalled(m, n, ntfn, params)
      BY <3>1, Parameters, Zenon
    <3> QED
      BY <3>2 DEF Marshalled
  <2>4. m \in DOMAIN Callbacks /\ m \in DOMAIN Meaning /\ m # "walletlockstate"
    BY <1>1, Domains DEF Tables
  <2>5. Due(m) = {Callbacks[m][1]}
    BY <2>4 DEF Due
  <2>6. handleNotification(m, params) =
          IF Callbacks[m][1] \in handlers /\ Parses(p, params)
          THEN {<<Callbacks[m][1], Arguments(p, params)>>} ELSE {}
    BY <2>4 DEF handleNotification
  <2>7. Arguments(p, params) = ntfn
    <3>1. ntfn = [i \in 1 .. n |-> ntfn[i]]
      BY <2>3 DEF Instances
    <3>2. \A i \in 1 .. n : (IF i \in DOMAIN params THEN params[i] ELSE "nil") = ntfn[i]
      BY <2>3
    <3> QED
      BY <2>2, <3>1, <3>2 DEF Arguments
  <2>8. ASSUME Meaningful(m, ntfn)
        PROVE  Parses(p, params)
    <3>1. \A i \in 1 .. n : Accepts(p.wants[i], ntfn[i])
      BY <2>2, <2>3, <2>4, <2>8 DEF Meaningful
    <3>2. Cardinality(DOMAIN params) \in {n, p.min} /\ Cardinality(DOMAIN params) <= n
      BY <2>2, <2>3, Positions
    <3>3. Cardinality(DOMAIN params) >= p.min
      BY <2>2, <3>2
    <3> QED
      BY <2>2, <2>3, <3>1, <3>2, <3>3 DEF Parses
  <2> HIDE DEF p
  <2> QED
    BY <2>5, <2>6, <2>7, <2>8
<1>2. CASE m = "walletlockstate"
  <2>1. DOMAIN Notifications[m] = 1 .. 1 /\ \A i \in 1 .. 1 - 1 : Notifications[m][i] # "BlockDetails"
    BY <1>2, OtherRows
  <2>2. /\ DOMAIN ntfn = 1 .. 1
        /\ params = ntfn \/ DOMAIN params = 1 .. 1 - 1
    BY <2>1, Parameters DEF Shape, Marshalled
  <2>3. Cardinality(DOMAIN params) \in {0, 1}
    BY <2>2, Positions1
  <2>4. ~Parses(Callbacks[m][2], params)
    BY <1>2, <2>3, OtherRows DEF Parses, parseWalletLockStateNtfnParams, Parser
  <2>5. handleNotification(m, params) = {}
    BY <1>2, <2>4, Domains DEF handleNotification
  <2> QED
    BY <1>2, <2>5
<1>3. CASE m = "newtx"
  <2>1. DOMAIN Notifications[m] = 1 .. 2 /\ \A i \in 1 .. 2 : Notifications[m][i] # "BlockDetails"
    BY <1>3, OtherRows
  <2>2. params = ntfn
    BY <2>1, Parameters DEF Shape, Marshalled
  <2>3. m \notin DOMAIN Callbacks /\ m # "walletlockstate"
    BY <1>3, Domains DEF Tables
  <2>4. Due(m) = {"OnUnknownNotification"}
    BY <2>3 DEF Due
  <2> QED
    BY <2>2, <2>3, <2>4 DEF handleNotification
<1> QED
  BY <1>1, <1>2, <1>3, Domains

\* And of one that was cut.
LEMMA Cut ==
  ASSUME NEW m \in DOMAIN Callbacks, NEW ntfn \in Instances(m),
         NEW k \in 0 .. Cardinality(DOMAIN makeParams(NtfnFields(m), ntfn)) - 1,
         NEW params, DOMAIN params = 1 .. k
  PROVE  \A call \in handleNotification(m, params) :
           /\ call[1] = Callbacks[m][1]
           /\ \A i \in DOMAIN Notifications[m] \ DOMAIN params :
                Notifications[m][i] = "BlockDetails"
<1> DEFINE whole == makeParams(NtfnFields(m), ntfn)
<1>1. handleNotification(m, params) # {} => Parses(Callbacks[m][2], params)
  BY DEF handleNotification
<1>2. \A call \in handleNotification(m, params) : call[1] = Callbacks[m][1]
  BY DEF handleNotification
<1>3. ASSUME m \in Tables, Parses(Callbacks[m][2], params),
             NEW i \in DOMAIN Notifications[m] \ DOMAIN params
      PROVE  Notifications[m][i] = "BlockDetails"
  <2>1. PICK n \in 1 .. 3 : Row(m, n)
    BY <1>3, Rows
  <2>2. /\ DOMAIN Notifications[m] = 1 .. n
        /\ \A j \in 1 .. n - 1 : Notifications[m][j] # "BlockDetails"
        /\ Callbacks[m][2].min = IF Notifications[m][n] = "BlockDetails" THEN n - 1 ELSE n
    BY <2>1 DEF Row
  <2>3. (whole = ntfn /\ DOMAIN ntfn = 1 .. n) \/ DOMAIN whole = 1 .. n - 1
    <3>1. Shape(m, n)
      BY <2>2 DEF Shape
    <3>2. Marshalled(m, n, ntfn, whole)
      BY <3>1, Parameters, Zenon
    <3> QED
      BY <3>2 DEF Marshalled
  <2>4. k \in Nat /\ Cardinality(DOMAIN params) = k
    <3>1. Cardinality(DOMAIN whole) \in Nat
      BY <2>3, Positions
    <3> QED
      BY <3>1, Positions
  <2>5. k >= Callbacks[m][2].min
    BY <1>3, <2>4 DEF Parses
  <2> QED
    BY <1>3, <2>2, <2>4, <2>5
<1>4. ASSUME m = "walletlockstate", Parses(Callbacks[m][2], params)
      PROVE  FALSE
  <2>1. DOMAIN Notifications[m] = 1 .. 1 /\ \A i \in 1 .. 1 - 1 : Notifications[m][i] # "BlockDetails"
    BY <1>4, OtherRows
  <2>2. (whole = ntfn /\ DOMAIN ntfn = 1 .. 1) \/ DOMAIN whole = 1 .. 1 - 1
    BY <2>1, Parameters DEF Shape, Marshalled
  <2>3. Cardinality(DOMAIN whole) \in {0, 1}
    BY <2>2, Positions1
  <2>4. Cardinality(DOMAIN params) = k /\ k < 2
    BY <2>3, Positions
  <2> QED
    BY <1>4, <2>4, OtherRows DEF Parses, parseWalletLockStateNtfnParams, Parser
<1> QED
  BY <1>1, <1>2, <1>3, <1>4, Domains

LEMMA NoKind == MessageKind(NoMessage) = "malformed"
<1>1. NoMessage.id = "negative"
  BY DEF NoMessage
<1> QED
  BY <1>1 DEF MessageKind

\* The message is the notification that was sent, or another one of which parts
\* are missing, or none.
Sent ==
  \/ sent = <<>> /\ MessageKind(message) # "notification"
  \/ \E m \in DOMAIN Notifications : \E ntfn \in Instances(m) :
       /\ MessageKind(message) = "notification" /\ message.method = m
       /\ \/ /\ sent = <<m, ntfn>>
             /\ message.params = makeParams(NtfnFields(m), ntfn)
          \/ /\ sent = <<>>
             /\ \E k \in 0 .. Cardinality(DOMAIN makeParams(NtfnFields(m), ntfn)) - 1 :
                  DOMAIN message.params = 1 .. k

NtfnInv ==
  /\ Sent
  /\ message = NoMessage => sent = <<>> /\ calls = {}
  /\ handled =>
       calls = IF MessageKind(message) = "notification"
               THEN handleNotification(message.method, message.params) ELSE {}

LEMMA NtfnInvStep == NtfnInv /\ [NtfnNext]_ntfnVars => NtfnInv'
<1> SUFFICES ASSUME NtfnInv, [NtfnNext]_ntfnVars PROVE NtfnInv'
  OBVIOUS
<1>1. CASE UNCHANGED ntfnVars
  BY <1>1 DEF ntfnVars, NtfnInv, Sent, handleNotification
<1>2. CASE handleMessage
  <2>1. UNCHANGED <<handlers, message, sent>> /\ handled'
    BY <1>2 DEF handleMessage
  <2>2. calls' = IF MessageKind(message) = "notification"
                 THEN handleNotification(message.method, message.params) ELSE {}
    BY <1>2 DEF handleMessage
  <2>3. message = NoMessage => calls' = {}
    BY <2>2, NoKind
  <2> QED
    BY <2>1, <2>2, <2>3 DEF NtfnInv, Sent, handleNotification
<1>3. ASSUME NEW m \in DOMAIN Notifications, NEW client \in Clients, NEW ntfn \in Instances(m),
             message = NoMessage, Notify(client, m, ntfn)
      PROVE  NtfnInv'
  <2>1. /\ sent' = <<m, ntfn>> /\ ~handled'
        /\ message' = [id |-> "nil", method |-> m, null |-> FALSE,
                       params |-> makeParams(NtfnFields(m), ntfn)]
    BY <1>3 DEF Notify, NtfnMessage
  <2>2. m # ""
    BY Domains DEF Tables
  <2>3. MessageKind(message') = "notification" /\ message' # NoMessage
    BY <2>1, <2>2 DEF MessageKind, NoMessage
  <2> QED
    BY <2>1, <2>3 DEF NtfnInv, Sent, MessageKind
<1>4. ASSUME NEW m \in DOMAIN Notifications, NEW client \in Clients, NEW ntfn \in Instances(m),
             message = NoMessage, Garble(client, m, ntfn)
      PROVE  NtfnInv'
  <2> DEFINE msg == NtfnMessage(m, ntfn)
             whole == makeParams(NtfnFields(m), ntfn)
  <2>1. /\ sent' = sent /\ calls' = calls /\ ~handled'
        /\ \/ message' = [msg EXCEPT !.id = "fraction"]
           \/ message' = [msg EXCEPT !.method = ""]
           \/ message' = [msg EXCEPT !.null = TRUE, !.params = <<>>]
           \/ \E k \in 0 .. Cardinality(DOMAIN msg.params) - 1 :
                message' = [msg EXCEPT !.params = [i \in 1 .. k |-> @[i]]]
    <3>1. sent' = sent /\ calls' = calls /\ ~handled'
      BY <1>4 DEF Garble
    <3>2. message' \in
            {[msg EXCEPT !.id = "fraction"], [msg EXCEPT !.method = ""],
             [msg EXCEPT !.null = TRUE, !.params = <<>>]}
            \cup {[msg EXCEPT !.params = [i \in 1 .. k |-> @[i]]] :
                    k \in 0 .. Cardinality(DOMAIN msg.params) - 1}
      BY <1>4, Zenon DEF Garble
    <3> QED
      BY <3>1, <3>2
  <2>2. msg = [id |-> "nil", method |-> m, null |-> FALSE, params |-> whole]
    BY DEF NtfnMessage
  <2>3. sent = <<>> /\ calls = {}
    BY <1>4 DEF NtfnInv
  <2> HIDE DEF msg, whole
  <2>4. CASE MessageKind(message') # "notification"
    BY <2>1, <2>3, <2>4 DEF NtfnInv, Sent, MessageKind
  <2>5. CASE MessageKind(message') = "notification"
    <3>1. \E k \in 0 .. Cardinality(DOMAIN whole) - 1 :
            message' = [msg EXCEPT !.params = [i \in 1 .. k |-> @[i]]]
      BY <2>1, <2>2, <2>5 DEF MessageKind
    <3>2. message'.method = m
      BY <2>2, <3>1
    <3>3. \E k \in 0 .. Cardinality(DOMAIN whole) - 1 : DOMAIN message'.params = 1 .. k
      BY <2>2, <3>1
    <3> QED
      BY <2>1, <2>3, <2>5, <3>2, <3>3 DEF NtfnInv, Sent, MessageKind, whole
  <2> QED
    BY <2>4, <2>5
<1> QED
  BY <1>1, <1>2, <1>3, <1>4 DEF NtfnNext

(***************************************************************************)
(* Whatever handlers a client is made with: handleNotification calls the   *)
(* callback of the notification that acbcjson has marshalled, if it is     *)
(* set, with the values of its fields, and no other one; for a             *)
(* walletlockstate it calls no other one.                                  *)
(***************************************************************************)
THEOREM NtfnDeliveredCorrect == NtfnSpec => []NtfnDelivered
<1>1. NtfnInit => NtfnInv
  BY NoKind DEF NtfnInit, NtfnInv, Sent
<1>2. NtfnInv => NtfnDelivered
  <2> SUFFICES ASSUME NtfnInv, handled PROVE NtfnDelivered
    BY DEF NtfnDelivered, Arrived
  <2>1. CASE MessageKind(message) # "notification"
    <3>1. calls = {} /\ sent = <<>>
      BY <2>1 DEF NtfnInv, Sent
    <3> QED
      BY <3>1 DEF NtfnDelivered, Arrived
  <2>2. CASE MessageKind(message) = "notification"
    <3>1. calls = handleNotification(message.method, message.params)
      BY <2>2 DEF NtfnInv
    <3>0. PICK m \in DOMAIN Notifications : \E ntfn \in Instances(m) :
            /\ message.method = m
            /\ \/ /\ sent = <<m, ntfn>>
                  /\ message.params = makeParams(NtfnFields(m), ntfn)
               \/ /\ sent = <<>>
                  /\ \E k \in 0 .. Cardinality(DOMAIN makeParams(NtfnFields(m), ntfn)) - 1 :
                       DOMAIN message.params = 1 .. k
      BY <2>2 DEF NtfnInv, Sent
    <3>2. PICK ntfn \in Instances(m) :
            /\ message.method = m
            /\ \/ /\ sent = <<m, ntfn>>
                  /\ message.params = makeParams(NtfnFields(m), ntfn)
               \/ /\ sent = <<>>
                  /\ \E k \in 0 .. Cardinality(DOMAIN makeParams(NtfnFields(m), ntfn)) - 1 :
                       DOMAIN message.params = 1 .. k
      BY <3>0
    <3>3. ASSUME \A cmd \in Requests \ {"loadtxfilter"} : RequestAsync(cmd, FALSE) = "nil"
          PROVE  calls = {}
      <4>1. RequestAsync("rescan", FALSE) = "nil"
        BY <3>3 DEF Requests
      <4>2. handlers = {"nil"}
        BY <4>1 DEF RequestAsync, NoHandlers
      <4> QED
        BY <3>1, <4>2, CallbackNames DEF handleNotification
    <3>4. ASSUME sent # <<>>
          PROVE  /\ sent[1] # "walletlockstate" /\ Meaningful(sent[1], sent[2]) => CalledBack
                 /\ \A call \in calls : call[1] \in handlers \cap Due(sent[1])
      <4>1. sent[1] = m /\ sent[2] = ntfn /\ message.params = makeParams(NtfnFields(m), ntfn)
        BY <3>2, <3>4
      <4>2. /\ m # "walletlockstate" /\ Meaningful(m, ntfn) =>
                 calls = {<<h, ntfn>> : h \in handlers \cap Due(m)}
            /\ \A call \in calls : call[1] \in handlers \cap Due(m)
        BY <3>1, <3>2, <4>1, Delivered
      <4> QED
        BY <4>1, <4>2 DEF CalledBack
    <3>5. ASSUME sent = <<>>, message.method \in DOMAIN Callbacks
          PROVE  \A call \in calls :
                   /\ call[1] = Callbacks[message.method][1]
                   /\ \A i \in DOMAIN Notifications[message.method] \ DOMAIN message.params :
                        Notifications[message.method][i] = "BlockDetails"
      BY <3>1, <3>2, <3>5, Cut
    <3> QED
      BY <3>3, <3>4, <3>5 DEF NtfnDelivered, Arrived
  <2> QED
    BY <2>1, <2>2
<1> QED
  BY <1>1, <1>2, NtfnInvStep, PTL DEF NtfnSpec

-------------------------------------------------------------------------------
(* Induction and recursion on the natural numbers.  The induction theorems *)
(* of the library take a predicate as a parameter; here it is the set of   *)
(* the numbers that have the property, and a step of a recursion is a      *)
(* function.                                                               *)

\* A set of natural numbers has a least element.
LEMMA Least ==
  ASSUME NEW S, S \subseteq Nat, S # {}
  PROVE  \E m \in S : \A k \in S : m <= k
<1>1. PICK R : IsWellFoundedOn(R, Nat) /\ \A k, m \in Nat : k < m => <<k, m>> \in R
  <2>1. \A k, m \in Nat : k < m => <<k, m>> \in OpToRel(<, Nat)
    BY DEF OpToRel
  <2> QED
    BY <2>1, NatLessThanWellFounded, Zenon
<1>2. PICK m \in S : \A k \in S : ~ (<<k, m>> \in R)
  <2>1. \E m \in S : \A k \in S : ~ (<<k, m>> \in R)
    <3>1. IsWellFoundedOn(R, Nat)
      BY <1>1
    <3> HIDE <1>1
    <3> QED
      BY <3>1, WFMin
  <2> QED
    BY <2>1
<1>3. \A k \in S : ~ (k < m)
  BY <1>1, <1>2, Zenon
<1> QED
  BY <1>3

\* Induction, for the set of the numbers that have the property.
LEMMA NatInd ==
  ASSUME NEW S, 0 \in S, \A n \in Nat : n \in S => n + 1 \in S
  PROVE  Nat \subseteq S
<1> DEFINE T == Nat \ S
<1>1. ASSUME T # {} PROVE FALSE
  <2>1. PICK m \in T : \A k \in T : m <= k
    BY <1>1, Least
  <2>2. m # 0 /\ m - 1 \in Nat /\ m - 1 \notin T
    BY <2>1
  <2> QED
    BY <2>2
<1> QED
  BY <1>1

\* f is defined by recursion from e with the steps g.
Iterates(f, V, e, g) ==
  f \in [Nat -> V] /\ f[0] = e /\ \A n \in Nat : f[n + 1] = g[n][f[n]]

\* There is such a function, whatever the steps.
LEMMA Recursion ==
  ASSUME NEW V, NEW e \in V, NEW g \in [Nat -> [V -> V]]
  PROVE  \E f : Iterates(f, V, e, g)
<1> DEFINE Good(n, h) ==
             /\ h \in [0 .. n -> V] /\ h[0] = e
             /\ \A i \in Nat : i < n => h[i + 1] = g[i][h[i]]
           S == {n \in Nat : \E h : Good(n, h)}
           H(n) == CHOOSE h : Good(n, h)
           f == [n \in Nat |-> H(n)[n]]
<1>1. 0 \in S
  <2>1. Good(0, [i \in 0 .. 0 |-> e])
    OBVIOUS
  <2> QED
    BY <2>1
<1>2. ASSUME NEW n \in Nat, n \in S PROVE n + 1 \in S
  <2>1. PICK h : Good(n, h)
    BY <1>2
  <2> DEFINE k == [i \in 0 .. n + 1 |-> IF i = n + 1 THEN g[n][h[n]] ELSE h[i]]
  <2>2. h[n] \in V /\ g[n][h[n]] \in V
    BY <2>1
  <2>3. k \in [0 .. n + 1 -> V] /\ k[0] = e
    BY <2>1, <2>2
  <2>4. \A i \in Nat : i < n + 1 => k[i + 1] = g[i][k[i]]
    BY <2>1
  <2>5. Good(n + 1, k)
    BY <2>3, <2>4
  <2> HIDE DEF Good, k
  <2> QED
    BY <2>5
<1>3. Nat \subseteq S
  <2> HIDE DEF S
  <2> QED
    BY <1>1, <1>2, NatInd
<1>4. ASSUME NEW n \in Nat PROVE Good(n, H(n))
  <2>1. \E h : Good(n, h)
    BY <1>3
  <2> HIDE DEF Good
  <2> QED
    BY <2>1
<1>5. ASSUME NEW n \in Nat, NEW m \in Nat, NEW h, NEW k, Good(n, h), Good(m, k)
      PROVE  \A i \in Nat : i <= n /\ i <= m => h[i] = k[i]
  <2> DEFINE A == {i \in Nat : i <= n /\ i <= m => h[i] = k[i]}
  <2>1. 0 \in A
    BY <1>5
  <2>2. ASSUME NEW i \in Nat, i \in A PROVE i + 1 \in A
    BY <1>5, <2>2
  <2>3. Nat \subseteq A
    <3> HIDE DEF A
    <3> QED
      BY <2>1, <2>2, NatInd
  <2> QED
    BY <2>3
<1>6. ASSUME NEW n \in Nat
      PROVE  f[n] \in V /\ f[n + 1] = g[n][f[n]]
  <2>1. Good(n, H(n)) /\ Good(n + 1, H(n + 1))
    <3> HIDE DEF Good, H
    <3>1. n + 1 \in Nat
      OBVIOUS
    <3> QED
      BY <1>4, <3>1
  <2>2. H(n)[n] = H(n + 1)[n]
    <3> HIDE DEF Good, H
    <3>1. \A i \in Nat : i <= n /\ i <= n + 1 => H(n)[i] = H(n + 1)[i]
      BY <1>5, <2>1
    <3> QED
      BY <3>1
  <2>3. H(n)[n] \in V /\ H(n + 1)[n + 1] = g[n][H(n + 1)[n]]
    <3> HIDE DEF H
    <3> QED
      BY <2>1
  <2>4. f[n] = H(n)[n] /\ f[n + 1] = H(n + 1)[n + 1]
    <3> HIDE DEF H
    <3> QED
      OBVIOUS
  <2> HIDE DEF f, H
  <2> QED
    BY <2>2, <2>3, <2>4
<1>7. f[0] = e
  <2>1. Good(0, H(0))
    BY <1>4
  <2> HIDE DEF H
  <2>2. f[0] = H(0)[0]
    OBVIOUS
  <2> QED
    BY <2>1, <2>2
<1>8. f \in [Nat -> V]
  BY <1>6
<1> HIDE DEF f
<1>9. Iterates(f, V, e, g)
  BY <1>6, <1>7, <1>8 DEF Iterates
<1> QED
  BY <1>9

-------------------------------------------------------------------------------
(* The powers of Base.                                                     *)

\* Power is the power.
LEMMA Powers ==
  /\ Power(0) = 1
  /\ \A n \in Nat : Power(n) \in Nat \ {0} /\ Power(n + 1) = Base * Power(n)
<1> DEFINE g == [n \in Nat |-> [v \in Nat |-> Base * v]]
<1>1. Base \in Nat /\ Base > 0
  BY WireAssumption
<1>2. PICK f \in [Nat -> Nat] : f[0] = 1 /\ \A n \in Nat : f[n + 1] = g[n][f[n]]
  <2>1. g \in [Nat -> [Nat -> Nat]]
    BY <1>1
  <2>2. 1 \in Nat
    OBVIOUS
  <2> HIDE DEF g
  <2>3. \E f : Iterates(f, Nat, 1, g)
    BY <2>1, <2>2, Recursion, Zenon
  <2> QED
    BY <2>3 DEF Iterates
<1>3. \A n \in Nat : f[n + 1] = Base * f[n]
  BY <1>2
<1> HIDE DEF g
<1>4. ASSUME NEW n \in Nat PROVE Power(n) = f[n]
  <2> DEFINE IsPower(p) == p = [i \in 0 .. n |-> IF i = 0 THEN 1 ELSE Base * p[i - 1]]
             p == CHOOSE p : IsPower(p)
             A == {i \in Nat : i <= n => p[i] = f[i]}
  <2>1. Power(n) = p[n]
    BY DEF Power
  <2>2. IsPower(p)
    <3> DEFINE q == [i \in 0 .. n |-> f[i]]
    <3>1. \A i \in 0 .. n : q[i] = IF i = 0 THEN 1 ELSE Base * q[i - 1]
      <4> SUFFICES ASSUME NEW i \in 0 .. n PROVE q[i] = IF i = 0 THEN 1 ELSE Base * q[i - 1]
        OBVIOUS
      <4>1. CASE i = 0
        BY <4>1, <1>2
      <4>2. CASE i # 0
        <5>1. i - 1 \in Nat /\ i - 1 \in 0 .. n /\ (i - 1) + 1 = i
          BY <4>2
        <5>2. f[i] = Base * f[i - 1]
          BY <5>1, <1>3
        <5> QED
          BY <4>2, <5>1, <5>2
      <4> QED
        BY <4>1, <4>2
    <3>2. IsPower(q)
      BY <3>1
    <3> QED
      BY <3>2, Zenon
  <2> HIDE DEF p
  <2>3. 0 \in A
    BY <1>2, <2>2
  <2>4. ASSUME NEW i \in Nat, i \in A PROVE i + 1 \in A
    <3>1. CASE i + 1 <= n
      <4>1. p[i + 1] = Base * p[i]
        <5>1. i + 1 \in 0 .. n /\ i + 1 # 0 /\ (i + 1) - 1 = i
          BY <3>1
        <5> HIDE DEF A
        <5> QED
          BY <2>2, <5>1
      <4> QED
        BY <1>3, <2>4, <3>1, <4>1
    <3> QED
      BY <3>1
  <2>5. n \in A
    <3> HIDE DEF A
    <3> QED
      BY <2>3, <2>4, NatInd
  <2> QED
    BY <2>1, <2>5
<1>5. \A n \in Nat : f[n] # 0
  <2> DEFINE A == {i \in Nat : f[i] # 0}
  <2>1. 0 \in A
    BY <1>2
  <2>2. ASSUME NEW i \in Nat, i \in A PROVE i + 1 \in A
    <3>1. Base \in Nat \ {0} /\ f[i] \in Nat \ {0} /\ f[i + 1] = Base * f[i]
      BY <1>1, <1>3, <2>2
    <3>2. \A a, b \in Nat \ {0} : a * b # 0
      OBVIOUS
    <3>3. f[i + 1] # 0
      BY <3>1, <3>2
    <3> QED
      BY <3>3
  <2>3. Nat \subseteq A
    <3> HIDE DEF A
    <3> QED
      BY <2>1, <2>2, NatInd
  <2> QED
    BY <2>3
<1> QED
  BY <1>2, <1>3, <1>4, <1>5

\* The powers that bound the encodings.
LEMMA PowerValues ==
  /\ Power(0) = 1 /\ Power(1) = Base /\ Power(2) = Base * Base
  /\ Power(4) \in Nat /\ Power(8) \in Nat /\ Power(4) % 2 = 0 /\ Power(8) % 2 = 0
  /\ Base < Power(2) /\ Power(2) < Power(4) /\ Power(4) + 2 < Power(8)
<1>1. Base \in Nat /\ Base >= 6 /\ Base % 2 = 0
  BY WireAssumption
<1>2. /\ Power(1) = Base * Power(0) /\ Power(2) = Base * Power(1) /\ Power(3) = Base * Power(2)
      /\ Power(4) = Base * Power(3) /\ Power(5) = Base * Power(4) /\ Power(6) = Base * Power(5)
      /\ Power(7) = Base * Power(6) /\ Power(8) = Base * Power(7)
  <2>1. \A n \in Nat : Power(n + 1) = Base * Power(n)
    BY Powers
  <2>2. /\ Power(0 + 1) = Base * Power(0) /\ Power(1 + 1) = Base * Power(1)
        /\ Power(2 + 1) = Base * Power(2) /\ Power(3 + 1) = Base * Power(3)
        /\ Power(4 + 1) = Base * Power(4) /\ Power(5 + 1) = Base * Power(5)
        /\ Power(6 + 1) = Base * Power(6) /\ Power(7 + 1) = Base * Power(7)
    BY <2>1
  <2> QED
    BY <2>2
<1>3. \A x \in Nat \ {0} : Base * x >= 6 * x /\ Base * x \in Nat
  BY <1>1
<1>4. \A x \in Nat : (Base * x) % 2 = 0
  <2> SUFFICES ASSUME NEW x \in Nat PROVE (Base * x) % 2 = 0
    OBVIOUS
  <2>1. PICK h \in Nat : Base = 2 * h
    <3>1. Base = 2 * (Base \div 2)
      BY <1>1
    <3> QED
      BY <1>1, <3>1
  <2>2. Base * x = 2 * (h * x) /\ h * x \in Nat
    BY <2>1
  <2> QED
    BY <2>2
<1>5. \A n \in 0 .. 8 : Power(n) \in Nat \ {0}
  BY Powers
<1>6. /\ Power(0) = 1 /\ Power(1) = Base /\ Power(2) = Base * Base
  <2>1. Power(0) = 1
    BY Powers
  <2>2. Power(1) = Base * 1
    BY <1>2, <2>1
  <2> QED
    BY <1>1, <1>2, <2>1, <2>2
<1>7. /\ Power(1) \in Nat \ {0} /\ Power(2) \in Nat \ {0} /\ Power(3) \in Nat \ {0}
      /\ Power(4) \in Nat \ {0} /\ Power(5) \in Nat \ {0} /\ Power(6) \in Nat \ {0}
      /\ Power(7) \in Nat \ {0} /\ Power(8) \in Nat \ {0}
  BY <1>5
<1>8. Power(4) % 2 = 0 /\ Power(8) % 2 = 0
  BY <1>2, <1>4, <1>7
<1>9. /\ Power(2) >= 6 * Power(1) /\ Power(3) >= 6 * Power(2) /\ Power(4) >= 6 * Power(3)
      /\ Power(5) >= 6 * Power(4) /\ Power(6) >= 6 * Power(5) /\ Power(7) >= 6 * Power(6)
      /\ Power(8) >= 6 * Power(7)
  BY <1>2, <1>3, <1>7
<1> QED
  BY <1>6, <1>7, <1>8, <1>9

-------------------------------------------------------------------------------
(* Sequences.                                                              *)

\* Concatenation is associative.
LEMMA Associative ==
  ASSUME NEW X, NEW a \in Seq(X), NEW b \in Seq(X), NEW c \in Seq(X)
  PROVE  (a \o b) \o c = a \o (b \o c)
BY ConcatAssociative

\* Two streams are equal if their heads, of one length, and their tails are.
LEMMA Cancel ==
  ASSUME NEW X, NEW a \in Seq(X), NEW b \in Seq(X), NEW x \in Seq(X), NEW y \in Seq(X),
         Len(a) = Len(b), a \o x = b \o y
  PROVE  a = b /\ x = y
<1>1. /\ \A i \in 1 .. Len(a) : (a \o x)[i] = a[i] /\ (b \o y)[i] = b[i]
      /\ \A i \in 1 .. Len(x) : (a \o x)[Len(a) + i] = x[i]
      /\ \A i \in 1 .. Len(y) : (b \o y)[Len(b) + i] = y[i]
      /\ Len(a \o x) = Len(a) + Len(x) /\ Len(b \o y) = Len(b) + Len(y)
  <2>1. ASSUME NEW p \in Seq(X), NEW q \in Seq(X)
        PROVE  /\ \A i \in 1 .. Len(p) : (p \o q)[i] = p[i]
               /\ \A i \in 1 .. Len(q) : (p \o q)[Len(p) + i] = q[i]
               /\ Len(p \o q) = Len(p) + Len(q)
    OBVIOUS
  <2>2. /\ \A i \in 1 .. Len(a) : (a \o x)[i] = a[i]
        /\ \A i \in 1 .. Len(x) : (a \o x)[Len(a) + i] = x[i]
        /\ Len(a \o x) = Len(a) + Len(x)
    BY <2>1
  <2>3. /\ \A i \in 1 .. Len(b) : (b \o y)[i] = b[i]
        /\ \A i \in 1 .. Len(y) : (b \o y)[Len(b) + i] = y[i]
        /\ Len(b \o y) = Len(b) + Len(y)
    BY <2>1
  <2> QED
    BY <2>2, <2>3
<1>2. a = b
  <2>1. \A i \in 1 .. Len(a) : a[i] = b[i]
    BY <1>1
  <2> QED
    BY <2>1, SeqEqual
<1>3. Len(x) = Len(y)
  <2>1. Len(a \o x) = Len(a) + Len(x) /\ Len(a \o x) = Len(a) + Len(y)
    BY <1>1
  <2>2. Len(a) \in Nat /\ Len(x) \in Nat /\ Len(y) \in Nat
    OBVIOUS
  <2> QED
    BY <2>1, <2>2
<1>4. \A i \in 1 .. Len(x) : x[i] = y[i]
  <2> SUFFICES ASSUME NEW i \in 1 .. Len(x) PROVE x[i] = y[i]
    OBVIOUS
  <2>1. (a \o x)[Len(a) + i] = x[i]
    BY <1>1
  <2>2. (b \o y)[Len(b) + i] = y[i]
    BY <1>1, <1>3
  <2> QED
    BY <2>1, <2>2
<1> QED
  BY <1>2, <1>3, <1>4, SeqEqual

\* A sequence cut after n elements is its two parts.
LEMMA Parts ==
  ASSUME NEW X, NEW s \in Seq(X), NEW n \in 0 .. Len(s)
  PROVE  /\ SubSeq(s, 1, n) \in Seq(X) /\ Len(SubSeq(s, 1, n)) = n
         /\ SubSeq(s, n + 1, Len(s)) \in Seq(X) /\ Len(SubSeq(s, n + 1, Len(s))) = Len(s) - n
         /\ SubSeq(s, 1, n) \o SubSeq(s, n + 1, Len(s)) = s
<1>1. /\ SubSeq(s, 1, n) \in Seq(X) /\ Len(SubSeq(s, 1, n)) = n
      /\ SubSeq(s, n + 1, Len(s)) \in Seq(X) /\ Len(SubSeq(s, n + 1, Len(s))) = Len(s) - n
  OBVIOUS
<1>2. SubSeq(s, 1, n) \o SubSeq(s, n + 1, Len(s)) = s
  <2>1. SubSeq(s, 1, n) \o SubSeq(s, n + 1, Len(s)) = SubSeq(s, 1, Len(s))
    <3>1. /\ 1 \in 1 .. Len(s) + 1 /\ n \in 1 - 1 .. Len(s) /\ Len(s) \in n .. Len(s)
      OBVIOUS
    <3> QED
      BY <3>1, ConcatAdjacentSubSeq
  <2> QED
    BY <2>1, SubSeqFull
<1> QED
  BY <1>1, <1>2

\* The parts of a concatenation.
LEMMA PartsOf ==
  ASSUME NEW X, NEW a \in Seq(X), NEW b \in Seq(X)
  PROVE  /\ a \o b \in Seq(X) /\ Len(a \o b) = Len(a) + Len(b)
         /\ SubSeq(a \o b, 1, Len(a)) = a
         /\ SubSeq(a \o b, Len(a) + 1, Len(a \o b)) = b
<1>1. a \o b \in Seq(X) /\ Len(a \o b) = Len(a) + Len(b)
  OBVIOUS
<1> DEFINE s == a \o b
           p == SubSeq(s, 1, Len(a))
           q == SubSeq(s, Len(a) + 1, Len(s))
<1>2. /\ p \in Seq(X) /\ Len(p) = Len(a) /\ q \in Seq(X) /\ p \o q = s
  <2>1. Len(a) \in 0 .. Len(s) /\ s \in Seq(X)
    BY <1>1
  <2> HIDE DEF s
  <2> QED
    BY <2>1, Parts, ZenonT(60)
<1>3. p \o q = a \o b
  BY <1>2
<1> HIDE DEF p, q
<1>4. p = a /\ q = b
  BY <1>2, <1>3, Cancel
<1> QED
  BY <1>1, <1>4 DEF p, q

-------------------------------------------------------------------------------
(* FlattenSeq.                                                             *)

\* f[n] is the concatenation of the first n elements of s.
Concatenates(f, X, s) ==
  /\ f \in [Nat -> Seq(X)] /\ f[0] = <<>>
  /\ \A n \in Nat : n < Len(s) => f[n + 1] = f[n] \o s[n + 1]

\* FlattenSeq computes what the recursion does.
LEMMA FlattenBy ==
  ASSUME NEW X, NEW s \in Seq(Seq(X)), NEW f, Concatenates(f, X, s)
  PROVE  FlattenSeq(s) = f[Len(s)]
<1> DEFINE IsFlat(p) == p = [i \in 1 .. Len(s) |-> IF i = 1 THEN s[i] ELSE p[i - 1] \o s[i]]
           p == CHOOSE p : IsFlat(p)
           A == {i \in Nat : i + 1 <= Len(s) => p[i + 1] = f[i + 1]}
<1> HIDE DEF p, IsFlat, A
<1>0. Len(s) \in Nat
  OBVIOUS
<1>1. CASE Len(s) = 0
  <2>1. s = <<>>
    BY <1>1
  <2> QED
    BY <1>1, <2>1 DEF FlattenSeq, Concatenates
<1>2. CASE Len(s) # 0
  <2>1. FlattenSeq(s) = p[Len(s)]
    BY <1>2 DEF FlattenSeq, p, IsFlat
  <2>2. f[1] = s[1]
    <3>1. s[1] \in Seq(X)
      BY <1>2
    <3>2. 0 < Len(s) /\ 0 \in Nat /\ 0 + 1 = 1
      BY <1>2
    <3>3. f[1] = <<>> \o s[1]
      BY <3>2 DEF Concatenates
    <3> QED
      BY <3>1, <3>3
  <2>3. IsFlat(p)
    <3> DEFINE q == [i \in 1 .. Len(s) |-> f[i]]
    <3>1. ASSUME NEW i \in 1 .. Len(s)
          PROVE  q[i] = IF i = 1 THEN s[i] ELSE q[i - 1] \o s[i]
      <4>1. CASE i = 1
        BY <4>1, <2>2
      <4>2. CASE i # 1
        <5>1. i - 1 \in Nat /\ i - 1 \in 1 .. Len(s) /\ (i - 1) + 1 = i /\ i - 1 < Len(s)
          BY <1>0, <4>2
        <5>2. f[i] = f[i - 1] \o s[i]
          BY <5>1 DEF Concatenates
        <5> QED
          BY <4>2, <5>1, <5>2
      <4> QED
        BY <4>1, <4>2
    <3>2. IsFlat(q)
      BY <3>1 DEF IsFlat
    <3> QED
      BY <3>2, Zenon DEF p
  <2>4. 0 \in A
    <3>1. p[1] = s[1]
      <4>1. 1 \in 1 .. Len(s)
        BY <1>0, <1>2
      <4> QED
        BY <2>3, <4>1 DEF IsFlat
    <3>2. 0 \in Nat /\ 0 + 1 = 1
      OBVIOUS
    <3> QED
      BY <2>2, <3>1, <3>2 DEF A
  <2>5. ASSUME NEW i \in Nat, i \in A PROVE i + 1 \in A
    <3>1. CASE (i + 1) + 1 <= Len(s)
      <4>1. (i + 1) + 1 \in 1 .. Len(s) /\ (i + 1) + 1 # 1 /\ ((i + 1) + 1) - 1 = i + 1
        BY <3>1
      <4>2. p[(i + 1) + 1] = p[i + 1] \o s[(i + 1) + 1]
        BY <2>3, <4>1 DEF IsFlat
      <4>3. p[i + 1] = f[i + 1]
        BY <2>5, <3>1 DEF A
      <4>4. f[(i + 1) + 1] = f[i + 1] \o s[(i + 1) + 1]
        <5>1. i + 1 \in Nat /\ i + 1 < Len(s)
          BY <3>1
        <5> QED
          BY <5>1 DEF Concatenates
      <4>5. p[(i + 1) + 1] = f[(i + 1) + 1]
        BY <4>2, <4>3, <4>4
      <4> QED
        BY <4>5 DEF A
    <3>2. CASE ~ ((i + 1) + 1 <= Len(s))
      BY <3>2 DEF A
    <3> QED
      BY <3>1, <3>2
  <2>6. Nat \subseteq A
    BY <2>4, <2>5, NatInd
  <2>7. Len(s) - 1 \in A /\ (Len(s) - 1) + 1 = Len(s)
    <3>1. Len(s) - 1 \in Nat /\ (Len(s) - 1) + 1 = Len(s)
      BY <1>2
    <3> QED
      BY <2>6, <3>1
  <2> QED
    BY <1>2, <2>1, <2>7 DEF A
<1> QED
  BY <1>1, <1>2

\* Every sequence of sequences has such an f.
LEMMA FlattenRec ==
  ASSUME NEW X, NEW s \in Seq(Seq(X))
  PROVE  \E f : Concatenates(f, X, s) /\ FlattenSeq(s) = f[Len(s)]
<1> DEFINE g == [n \in Nat |-> [v \in Seq(X) |-> IF n < Len(s) THEN v \o s[n + 1] ELSE v]]
<1>1. g \in [Nat -> [Seq(X) -> Seq(X)]]
  <2>1. ASSUME NEW n \in Nat, NEW v \in Seq(X), n < Len(s) PROVE v \o s[n + 1] \in Seq(X)
    <3>1. s[n + 1] \in Seq(X)
      BY <2>1
    <3> QED
      BY <3>1
  <2> QED
    BY <2>1
<1>2. PICK f : Iterates(f, Seq(X), <<>>, g)
  <2>1. <<>> \in Seq(X)
    OBVIOUS
  <2> HIDE DEF g
  <2> QED
    BY <1>1, <2>1, Recursion, Zenon
<1>3. /\ f \in [Nat -> Seq(X)] /\ f[0] = <<>>
      /\ \A n \in Nat : n < Len(s) => f[n + 1] = f[n] \o s[n + 1]
  <2>1. f \in [Nat -> Seq(X)] /\ f[0] = <<>> /\ \A n \in Nat : f[n + 1] = g[n][f[n]]
    BY <1>2 DEF Iterates
  <2> QED
    BY <2>1
<1>4. FlattenSeq(s) = f[Len(s)]
  BY <1>3, FlattenBy DEF Concatenates
<1> QED
  BY <1>3, <1>4 DEF Concatenates

\* Concatenating one element after the other.
LEMMA Flattened ==
  ASSUME NEW X, NEW s \in Seq(Seq(X))
  PROVE  /\ FlattenSeq(s) \in Seq(X)
         /\ \A x \in Seq(X) : FlattenSeq(Append(s, x)) = FlattenSeq(s) \o x
         /\ s = <<>> => FlattenSeq(s) = <<>>
<1>1. PICK f : Concatenates(f, X, s) /\ FlattenSeq(s) = f[Len(s)]
  BY FlattenRec
<1>2. Len(s) \in Nat /\ f \in [Nat -> Seq(X)] /\ f[0] = <<>>
  BY <1>1 DEF Concatenates
<1>3. ASSUME NEW x \in Seq(X)
      PROVE  FlattenSeq(Append(s, x)) = FlattenSeq(s) \o x
  <2> DEFINE t == Append(s, x)
             h == [n \in Nat |-> IF n <= Len(s) THEN f[n] ELSE f[Len(s)] \o x]
  <2>0. Len(s) \in Nat
    OBVIOUS
  <2>1. /\ t \in Seq(Seq(X)) /\ Len(t) = Len(s) + 1
        /\ \A i \in 1 .. Len(s) : t[i] = s[i]
        /\ t[Len(s) + 1] = x
    OBVIOUS
  <2> HIDE DEF t
  <2>a. \A n \in Nat : n <= Len(s) => h[n] = f[n]
    OBVIOUS
  <2>2. h \in [Nat -> Seq(X)] /\ h[0] = <<>>
    BY <1>2
  <2>b. h[Len(s) + 1] = f[Len(s)] \o x
    BY <2>0
  <2> HIDE DEF t, h
  <2>3. ASSUME NEW n \in Nat, n < Len(t) PROVE h[n + 1] = h[n] \o t[n + 1]
    <3>1. CASE n < Len(s)
      <4>1. n + 1 \in 1 .. Len(s) /\ n + 1 \in Nat /\ n <= Len(s) /\ n + 1 <= Len(s)
        BY <2>0, <3>1
      <4>2. h[n + 1] = f[n + 1] /\ h[n] = f[n] /\ t[n + 1] = s[n + 1]
        BY <2>1, <2>a, <4>1
      <4>3. f[n + 1] = f[n] \o s[n + 1]
        BY <1>1, <3>1 DEF Concatenates
      <4> QED
        BY <4>2, <4>3
    <3>2. CASE n = Len(s)
      <4>1. h[n] = f[n] /\ h[n + 1] = f[n] \o x /\ t[n + 1] = x
        BY <2>0, <2>1, <2>a, <2>b, <3>2
      <4> QED
        BY <4>1
    <3>3. n < Len(s) \/ n = Len(s)
      <4>1. n < Len(s) + 1
        BY <2>1, <2>3
      <4> QED
        BY <2>0, <4>1
    <3> QED
      BY <3>1, <3>2, <3>3
  <2>4. h[Len(t)] = f[Len(s)] \o x
    BY <2>1, <2>b
  <2>5. FlattenSeq(t) = h[Len(t)]
    BY <2>1, <2>2, <2>3, FlattenBy DEF Concatenates
  <2> QED
    BY <1>1, <2>4, <2>5 DEF t
<1> QED
  BY <1>1, <1>2, <1>3

-------------------------------------------------------------------------------
(* Integers of n bytes: Put and Value are inverse to each other.           *)

\* Quotient and remainder are unique.
LEMMA Division ==
  ASSUME NEW p \in Nat \ {0}, NEW q \in Nat, NEW r \in Nat, r < p
  PROVE  (p * q + r) % p = r /\ (p * q + r) \div p = q
<1> DEFINE w == p * q + r
           q1 == w \div p
           r1 == w % p
<1>1. w \in Nat /\ p * q \in Nat
  OBVIOUS
<1>2. q1 \in Nat /\ r1 \in Nat /\ r1 < p /\ w = p * q1 + r1
  <2> HIDE DEF w
  <2> QED
    BY <1>1
<1> HIDE DEF q1, r1
<1>3. CASE q1 < q
  <2>1. PICK k \in Nat : q = q1 + 1 + k
    <3>1. q - q1 - 1 \in Nat /\ q = q1 + 1 + (q - q1 - 1)
      BY <1>2, <1>3
    <3> QED
      BY <3>1
  <2>2. p * q = p * q1 + p + p * k /\ p * k \in Nat /\ p * q1 \in Nat
    BY <2>1, <1>2
  <2> QED
    BY <2>2, <1>2
<1>4. CASE q1 > q
  <2>1. PICK k \in Nat : q1 = q + 1 + k
    <3>1. q1 - q - 1 \in Nat /\ q1 = q + 1 + (q1 - q - 1)
      BY <1>2, <1>4
    <3> QED
      BY <3>1
  <2>2. p * q1 = p * q + p + p * k /\ p * k \in Nat /\ p * q \in Nat
    BY <2>1, <1>2
  <2> QED
    BY <2>2, <1>2
<1>5. q1 = q
  BY <1>2, <1>3, <1>4
<1>6. r1 = r
  <2>1. p * q1 = p * q
    BY <1>5
  <2> QED
    BY <1>1, <1>2, <2>1
<1> QED
  BY <1>5, <1>6 DEF q1, r1

\* v[n] is the value of the first n bytes of s.
Weighs(v, s) ==
  /\ v \in [Nat -> Nat] /\ v[0] = 0
  /\ \A n \in Nat : n < Len(s) => v[n + 1] = v[n] + Power(n) * s[n + 1]

\* Every sequence of bytes has such a v.
LEMMA WeighRec ==
  ASSUME NEW s \in Seq(Byte)
  PROVE  \E v : Weighs(v, s)
<1> DEFINE g == [n \in Nat |-> [x \in Nat |-> IF n < Len(s) THEN x + Power(n) * s[n + 1] ELSE x]]
<1>1. g \in [Nat -> [Nat -> Nat]]
  <2>1. ASSUME NEW n \in Nat, NEW x \in Nat, n < Len(s) PROVE x + Power(n) * s[n + 1] \in Nat
    <3>1. s[n + 1] \in Byte
      BY <2>1
    <3>2. s[n + 1] \in Nat
      BY <3>1, WireAssumption DEF Byte
    <3>3. Power(n) \in Nat
      BY Powers
    <3>4. Power(n) * s[n + 1] \in Nat
      BY <3>2, <3>3
    <3> QED
      BY <3>4
  <2> QED
    BY <2>1
<1>2. PICK f : Iterates(f, Nat, 0, g)
  <2>1. 0 \in Nat
    OBVIOUS
  <2> HIDE DEF g
  <2> QED
    BY <1>1, <2>1, Recursion, Zenon
<1>3. f \in [Nat -> Nat] /\ f[0] = 0 /\ \A n \in Nat : f[n + 1] = g[n][f[n]]
  BY <1>2 DEF Iterates
<1>4. Weighs(f, s)
  BY <1>3 DEF Weighs
<1> QED
  BY <1>4

\* Value computes it.
LEMMA Weighed ==
  ASSUME NEW s \in Seq(Byte), NEW f, Weighs(f, s)
  PROVE  Value(s) = f[Len(s)]
<1> DEFINE IsValue(p) == p = [i \in 0 .. Len(s) |-> IF i = 0 THEN 0 ELSE p[i - 1] + Power(i - 1) * s[i]]
           p == CHOOSE p : IsValue(p)
           A == {i \in Nat : i <= Len(s) => p[i] = f[i]}
<1> HIDE DEF p, IsValue, A
<1>0. Len(s) \in Nat
  OBVIOUS
<1>1. Value(s) = p[Len(s)]
  BY DEF Value, p, IsValue
<1>2. IsValue(p)
  <2> DEFINE q == [i \in 0 .. Len(s) |-> f[i]]
  <2>1. ASSUME NEW i \in 0 .. Len(s)
        PROVE  q[i] = IF i = 0 THEN 0 ELSE q[i - 1] + Power(i - 1) * s[i]
    <3>1. CASE i = 0
      BY <3>1 DEF Weighs
    <3>2. CASE i # 0
      <4>1. i - 1 \in Nat /\ i - 1 \in 0 .. Len(s) /\ (i - 1) + 1 = i /\ i - 1 < Len(s)
        BY <1>0, <3>2
      <4>2. f[i] = f[i - 1] + Power(i - 1) * s[i]
        BY <4>1 DEF Weighs
      <4> QED
        BY <3>2, <4>1, <4>2
    <3> QED
      BY <3>1, <3>2
  <2>2. IsValue(q)
    BY <2>1 DEF IsValue
  <2> QED
    BY <2>2, Zenon DEF p
<1>3. 0 \in A
  <2>1. p[0] = 0
    <3>1. 0 \in 0 .. Len(s)
      BY <1>0
    <3> QED
      BY <3>1, <1>2 DEF IsValue
  <2> QED
    BY <2>1 DEF A, Weighs
<1>4. ASSUME NEW i \in Nat, i \in A PROVE i + 1 \in A
  <2>1. CASE i + 1 <= Len(s)
    <3>1. i + 1 \in 0 .. Len(s) /\ i + 1 # 0 /\ (i + 1) - 1 = i /\ i < Len(s) /\ i <= Len(s)
      BY <1>0, <2>1
    <3>2. p[i + 1] = p[i] + Power(i) * s[i + 1]
      BY <1>2, <3>1 DEF IsValue
    <3>3. p[i] = f[i]
      BY <1>4, <3>1 DEF A
    <3>4. f[i + 1] = f[i] + Power(i) * s[i + 1]
      BY <3>1 DEF Weighs
    <3>5. p[i + 1] = f[i + 1]
      BY <3>2, <3>3, <3>4
    <3> QED
      BY <3>5 DEF A
  <2>2. CASE ~ (i + 1 <= Len(s))
    BY <2>2 DEF A
  <2> QED
    BY <2>1, <2>2
<1>5. Nat \subseteq A
  BY <1>3, <1>4, NatInd
<1>6. p[Len(s)] = f[Len(s)]
  BY <1>0, <1>5 DEF A
<1> QED
  BY <1>1, <1>6

\* n bytes are worth less than Power(n).
LEMMA Weights ==
  ASSUME NEW s \in Seq(Byte), NEW v, Weighs(v, s), NEW n \in Nat, n <= Len(s)
  PROVE  v[n] \in Nat /\ v[n] < Power(n)
<1> DEFINE A == {i \in Nat : i <= Len(s) => v[i] < Power(i)}
<1>0. Len(s) \in Nat /\ v \in [Nat -> Nat]
  BY DEF Weighs
<1>1. 0 \in A
  BY Powers DEF Weighs
<1>2. ASSUME NEW i \in Nat, i \in A PROVE i + 1 \in A
  <2>1. CASE i + 1 <= Len(s)
    <3>1. i < Len(s) /\ i + 1 \in 1 .. Len(s)
      BY <1>0, <2>1
    <3>2. v[i + 1] = v[i] + Power(i) * s[i + 1] /\ v[i] < Power(i)
      BY <1>2, <3>1 DEF Weighs
    <3>3. s[i + 1] \in Nat /\ s[i + 1] <= Base - 1 /\ Base \in Nat
      <4>1. s[i + 1] \in Byte
        BY <3>1
      <4> QED
        BY <4>1, WireAssumption DEF Byte
    <3>4. Power(i) \in Nat /\ Power(i + 1) = Base * Power(i)
      BY Powers
    <3>5. Power(i) * s[i + 1] <= Power(i) * (Base - 1)
      BY <3>3, <3>4, SMTT(30)
    <3>6. Power(i) * (Base - 1) = Base * Power(i) - Power(i)
      BY <3>3, <3>4
    <3>7. v[i + 1] < Power(i + 1)
      <4>1. v[i] \in Nat
        BY <1>0
      <4>2. Power(i) * s[i + 1] \in Nat /\ Base * Power(i) \in Nat
        BY <3>3, <3>4, SMTT(30)
      <4> QED
        BY <3>2, <3>4, <3>5, <3>6, <4>1, <4>2
    <3> QED
      BY <3>7
  <2> QED
    BY <2>1
<1>3. Nat \subseteq A
  <2> HIDE DEF A
  <2> QED
    BY <1>1, <1>2, NatInd
<1> QED
  BY <1>0, <1>3

\* Products and sums of natural numbers are natural numbers.
LEMMA Products ==
  /\ \A a, b \in Nat : a * b \in Nat /\ a + b \in Nat
  /\ \A p, x, b, t \in Nat : p * (x + b * t) \in Nat
  /\ \A p, b, q, d \in Nat : p * (b * q) * d \in Nat
<1>1. \A a, b \in Nat : a * b \in Nat /\ a + b \in Nat
  OBVIOUS
<1>2. \A p, x, b, t \in Nat : p * (x + b * t) \in Nat
  BY <1>1
<1>3. \A p, b, q, d \in Nat : p * (b * q) * d \in Nat
  BY <1>1
<1> QED
  BY <1>1, <1>2, <1>3

\* A digit is carried to a higher place.
LEMMA Carry ==
  ASSUME NEW p \in Nat, NEW x \in Nat, NEW b \in Nat, NEW t \in Nat, NEW q \in Nat, NEW d \in Nat
  PROVE  p * (x + b * t) + p * (b * q) * d = p * (x + b * (t + q * d))
<1> DEFINE y == x + b * t
           z == b * (q * d)
<1>1. \A i, j, k \in Nat : (i * j) * k = i * (j * k) /\ i * (j + k) = i * j + i * k
  OBVIOUS
<1>2. q * d \in Nat /\ b * t \in Nat /\ b * q \in Nat /\ y \in Nat /\ z \in Nat
  BY Products
<1>3. p * (b * q) * d = p * z
  <2>1. (p * (b * q)) * d = p * ((b * q) * d)
    BY <1>1, <1>2
  <2>2. (b * q) * d = z
    BY <1>1
  <2> QED
    BY <2>1, <2>2
<1>4. b * (t + q * d) = b * t + z
  BY <1>1, <1>2
<1>5. x + (b * t + z) = y + z
  BY <1>2
<1>6. p * (y + z) = p * y + p * z
  <2> HIDE DEF y, z
  <2> QED
    BY <1>1, <1>2
<1> HIDE DEF z
<1> QED
  BY <1>3, <1>4, <1>5, <1>6 DEF y

\* Byte i of s is found in the value of s.
LEMMA Digit ==
  ASSUME NEW s \in Seq(Byte), NEW v, Weighs(v, s), NEW i \in 1 .. Len(s)
  PROVE  \E t \in Nat : v[Len(s)] = v[i - 1] + Power(i - 1) * (s[i] + Base * t)
<1> DEFINE P == Power(i - 1)
           Tail2(k) == \E t \in Nat : v[i + k] = v[i - 1] + P * (s[i] + Base * t)
           Factor(k) == \E q \in Nat : Power(i + k) = P * (Base * q)
           A == {k \in Nat : Factor(k) /\ (i + k <= Len(s) => Tail2(k))}
<1>0. /\ Len(s) \in Nat /\ v \in [Nat -> Nat] /\ i \in Nat /\ i - 1 \in Nat /\ (i - 1) + 1 = i
      /\ i - 1 < Len(s)
  <2> HIDE DEF P, Tail2, Factor, A
  <2>1. Len(s) \in Nat
    OBVIOUS
  <2>2. v \in [Nat -> Nat]
    BY DEF Weighs
  <2>3. i \in Nat /\ i - 1 \in Nat /\ (i - 1) + 1 = i /\ i - 1 < Len(s)
    BY <2>1
  <2> QED
    BY <2>1, <2>2, <2>3
<1>1. P \in Nat /\ Base \in Nat /\ s[i] \in Nat /\ v[i - 1] \in Nat
  <2>1. P \in Nat
    BY <1>0, Powers
  <2>2. Base \in Nat
    BY WireAssumption
  <2>3. s[i] \in Byte
    OBVIOUS
  <2>4. s[i] \in Nat
    BY <2>2, <2>3 DEF Byte
  <2>5. v[i - 1] \in Nat
    BY <1>0
  <2> QED
    BY <2>1, <2>2, <2>4, <2>5
<1>2. Power(i) = Base * P
  <2>1. Power((i - 1) + 1) = Base * Power(i - 1)
    BY <1>0, Powers
  <2> QED
    BY <1>0, <2>1
<1>3. v[i] = v[i - 1] + P * s[i]
  <2>1. v[(i - 1) + 1] = v[i - 1] + Power(i - 1) * s[(i - 1) + 1]
    BY <1>0 DEF Weighs
  <2> QED
    BY <1>0, <2>1
<1> HIDE DEF P
<1>4. 0 \in A
  <2>1. i + 0 = i
    BY <1>0
  <2>2. P * (Base * 1) = Base * P /\ P * (s[i] + Base * 0) = P * s[i]
    BY <1>1
  <2>3. Factor(0)
    BY <1>2, <2>1, <2>2
  <2>4. Tail2(0)
    BY <1>3, <2>1, <2>2
  <2> QED
    BY <2>3, <2>4
<1>5. ASSUME NEW k \in Nat, k \in A PROVE k + 1 \in A
  <2>1. PICK q \in Nat : Power(i + k) = P * (Base * q)
    BY <1>5
  <2>2. i + k \in Nat /\ (i + k) + 1 = i + (k + 1)
    BY <1>0
  <2>3. Power(i + (k + 1)) = Base * (P * (Base * q))
    <3>1. Power((i + k) + 1) = Base * Power(i + k)
      BY <2>2, Powers
    <3> QED
      BY <2>1, <2>2, <3>1
  <2>4. Base * (P * (Base * q)) = P * (Base * (Base * q)) /\ Base * q \in Nat
    BY <1>1
  <2>5. Factor(k + 1)
    BY <2>3, <2>4
  <2>6. ASSUME i + (k + 1) <= Len(s) PROVE Tail2(k + 1)
    <3>1. i + k < Len(s) /\ i + k <= Len(s) /\ (i + k) + 1 \in 1 .. Len(s)
      <4>1. (i + k) + 1 <= Len(s) /\ i + k \in Nat /\ Len(s) \in Nat
        BY <1>0, <2>2, <2>6
      <4> QED
        BY <4>1
    <3>2. PICK t \in Nat : v[i + k] = v[i - 1] + P * (s[i] + Base * t)
      BY <1>5, <3>1
    <3> DEFINE d == s[(i + k) + 1]
    <3>3. d \in Nat
      <4>1. d \in Byte
        BY <3>1
      <4> QED
        BY <1>1, <4>1 DEF Byte
    <3>4. v[(i + k) + 1] = v[i + k] + Power(i + k) * d
      BY <2>2, <3>1 DEF Weighs
    <3> HIDE DEF d
    <3>5. q * d \in Nat /\ t + q * d \in Nat
      BY <3>3
    <3>6. v[i - 1] + P * (s[i] + Base * t) + P * (Base * q) * d = v[i - 1] + P * (s[i] + Base * (t + q * d))
      <4>1. P * (s[i] + Base * t) + P * (Base * q) * d = P * (s[i] + Base * (t + q * d))
        BY <1>1, <3>3, Carry
      <4>2. P * (s[i] + Base * t) \in Nat /\ P * (Base * q) * d \in Nat
        BY <1>1, <3>3, Products
      <4> QED
        BY <1>1, <4>1, <4>2
    <3>7. v[i + (k + 1)] = v[i - 1] + P * (s[i] + Base * (t + q * d))
      BY <2>1, <2>2, <3>2, <3>4, <3>6
    <3> QED
      BY <3>5, <3>7
  <2> HIDE DEF Factor, Tail2
  <2> QED
    BY <2>5, <2>6
<1>6. Nat \subseteq A
  <2> HIDE DEF A
  <2> QED
    BY <1>4, <1>5, NatInd
<1>7. Tail2(Len(s) - i)
  <2>1. Len(s) - i \in Nat /\ i + (Len(s) - i) <= Len(s)
    BY <1>0
  <2> HIDE DEF Factor, Tail2
  <2> QED
    BY <1>6, <2>1
<1> QED
  <2>1. i + (Len(s) - i) = Len(s)
    BY <1>0
  <2> QED
    BY <1>7, <2>1 DEF P

\* The value of a sequence of bytes fits into as many bytes, and Put gives the
\* sequence back.
LEMMA PutValue ==
  ASSUME NEW s \in Seq(Byte)
  PROVE  /\ Value(s) \in Nat /\ Value(s) < Power(Len(s))
         /\ Put(Len(s), Value(s)) = s
<1>1. PICK v : Weighs(v, s)
  BY WeighRec
<1>2. Value(s) = v[Len(s)]
  BY <1>1, Weighed
<1>3. Len(s) \in Nat
  OBVIOUS
<1>4. Value(s) \in Nat /\ Value(s) < Power(Len(s))
  <2>1. Len(s) <= Len(s)
    BY <1>3
  <2> QED
    BY <1>1, <1>2, <1>3, <2>1, Weights
<1>5. Value(s) % Power(Len(s)) = Value(s)
  <2>1. Power(Len(s)) \in Nat \ {0}
    BY <1>3, Powers
  <2> QED
    BY <1>4, <2>1
<1>6. ASSUME NEW i \in 1 .. Len(s)
      PROVE  ((Value(s) % Power(Len(s))) \div Power(i - 1)) % Base = s[i]
  <2>1. PICK t \in Nat : v[Len(s)] = v[i - 1] + Power(i - 1) * (s[i] + Base * t)
    BY <1>1, Digit
  <2>2. i - 1 \in Nat /\ i - 1 <= Len(s)
    BY <1>3
  <2>3. v[i - 1] \in Nat /\ v[i - 1] < Power(i - 1)
    BY <1>1, <2>2, Weights
  <2>4. s[i] \in Nat /\ s[i] < Base /\ Base \in Nat \ {0}
    <3>1. s[i] \in Byte
      OBVIOUS
    <3> QED
      BY <3>1, WireAssumption DEF Byte
  <2>5. Power(i - 1) \in Nat \ {0}
    BY <2>2, Powers
  <2>6. s[i] + Base * t \in Nat
    BY <2>4
  <2>7. Power(i - 1) * (s[i] + Base * t) + v[i - 1] = v[Len(s)]
    <3>1. Power(i - 1) * (s[i] + Base * t) \in Nat
      BY <2>5, <2>6
    <3> QED
      BY <2>1, <2>3, <3>1
  <2>8. v[Len(s)] \div Power(i - 1) = s[i] + Base * t
    <3> DEFINE p == Power(i - 1)
               q == s[i] + Base * t
               r == v[i - 1]
    <3>1. p \in Nat \ {0} /\ q \in Nat /\ r \in Nat /\ r < p
      BY <2>3, <2>5, <2>6
    <3> HIDE DEF p, q, r
    <3>2. (p * q + r) \div p = q
      BY <3>1, Division
    <3> QED
      BY <2>7, <3>2 DEF p, q, r
  <2>9. (s[i] + Base * t) % Base = s[i]
    <3> DEFINE r == s[i]
    <3>1. r \in Nat /\ r < Base /\ Base \in Nat \ {0}
      BY <2>4
    <3> HIDE DEF r
    <3>2. (Base * t + r) % Base = r
      BY <3>1, Division
    <3>3. Base * t + r = r + Base * t
      <4>1. Base * t \in Nat
        BY <3>1
      <4> QED
        BY <3>1, <4>1
    <3> QED
      BY <3>2, <3>3 DEF r
  <2> QED
    BY <1>2, <1>5, <2>8, <2>9
<1>7. Put(Len(s), Value(s)) = s
  <2>1. s = [i \in 1 .. Len(s) |-> s[i]]
    OBVIOUS
  <2> QED
    BY <1>6, <2>1 DEF Put
<1> QED
  BY <1>4, <1>7

\* Put writes n bytes.
LEMMA Puts ==
  ASSUME NEW n \in Nat, NEW x \in Int
  PROVE  Put(n, x) \in Seq(Byte) /\ Len(Put(n, x)) = n
<1>1. Power(n) \in Nat \ {0} /\ Base \in Nat \ {0}
  BY Powers, WireAssumption
<1>2. x % Power(n) \in Nat
  BY <1>1
<1>3. ASSUME NEW i \in 1 .. n PROVE ((x % Power(n)) \div Power(i - 1)) % Base \in Byte
  <2>1. i - 1 \in Nat
    OBVIOUS
  <2>2. Power(i - 1) \in Nat \ {0}
    BY <2>1, Powers
  <2>3. (x % Power(n)) \div Power(i - 1) \in Nat
    BY <1>2, <2>2
  <2> QED
    BY <1>1, <2>3 DEF Byte
<1>4. Put(n, x) \in [1 .. n -> Byte]
  BY <1>3 DEF Put
<1> QED
  BY <1>4

\* What is put into n bytes is read from them, up to the width.
LEMMA ValuePut ==
  ASSUME NEW n \in Nat, NEW x \in Int
  PROVE  Value(Put(n, x)) = x % Power(n)
<1> DEFINE w == x % Power(n)
           s == Put(n, x)
<1>1. Power(n) \in Nat \ {0} /\ Base \in Nat \ {0}
  BY Powers, WireAssumption
<1>2. w \in Nat /\ w < Power(n)
  BY <1>1
<1>3. s \in Seq(Byte) /\ Len(s) = n
  BY Puts
<1>4. \A i \in 1 .. n : s[i] = (w \div Power(i - 1)) % Base
  BY DEF Put
<1> HIDE DEF w, s
<1>5. PICK v : Weighs(v, s)
  BY <1>3, WeighRec
<1> DEFINE A == {i \in Nat : i <= n => v[i] = w % Power(i)}
<1>6. 0 \in A
  <2>1. v[0] = 0
    BY <1>5 DEF Weighs
  <2>2. w % Power(0) = 0
    BY <1>2, Powers
  <2> QED
    BY <2>1, <2>2
<1>7. ASSUME NEW i \in Nat, i \in A PROVE i + 1 \in A
  <2>1. CASE i + 1 <= n
    <3>1. i <= n /\ i < Len(s) /\ i + 1 \in 1 .. n /\ (i + 1) - 1 = i
      BY <1>3, <2>1
    <3> DEFINE p == Power(i)
               q == w \div p
               r == w % p
               e == q \div Base
               d == q % Base
    <3>2. p \in Nat \ {0} /\ Power(i + 1) = Base * p
      BY Powers
    <3>3. v[i + 1] = r + p * d
      <4>1. v[i + 1] = v[i] + Power(i) * s[i + 1]
        BY <1>5, <3>1 DEF Weighs
      <4>2. s[i + 1] = d
        BY <1>4, <3>1
      <4>3. v[i] = r
        BY <1>7, <3>1
      <4> QED
        BY <4>1, <4>2, <4>3
    <3> HIDE DEF p
    <3>4. q \in Nat /\ r \in Nat /\ r < p /\ w = p * q + r
      BY <1>2, <3>2
    <3> HIDE DEF q, r
    <3>5. e \in Nat /\ d \in Nat /\ d < Base /\ q = Base * e + d
      BY <1>1, <3>4
    <3> HIDE DEF e, d
    <3>6. p * d + r \in Nat /\ p * d + r < Base * p
      <4>1. d + 1 <= Base
        BY <1>1, <3>5
      <4>2. PICK c \in Nat : Base = d + 1 + c
        <5>1. Base - (d + 1) \in Nat /\ Base = d + 1 + (Base - (d + 1))
          BY <1>1, <3>5
        <5> QED
          BY <5>1
      <4>3. Base * p = p * d + p + c * p /\ c * p \in Nat /\ p * d \in Nat
        BY <3>2, <3>5, <4>2
      <4> QED
        BY <3>2, <3>4, <4>3
    <3>7. w = (Base * p) * e + (p * d + r)
      <4>1. p * q = p * (Base * e) + p * d
        BY <1>1, <3>2, <3>5
      <4>2. p * (Base * e) = (Base * p) * e
        BY <1>1, <3>2, <3>5
      <4>3. (Base * p) * e \in Nat /\ p * d \in Nat
        BY <1>1, <3>2, <3>5
      <4> QED
        BY <3>4, <4>1, <4>2, <4>3
    <3>8. w % (Base * p) = p * d + r
      <4> DEFINE m == Base * p
                 z == p * d + r
      <4>1. m \in Nat \ {0} /\ z \in Nat /\ z < m /\ w = m * e + z
        BY <1>1, <3>2, <3>6, <3>7
      <4> HIDE DEF m, z
      <4>2. w % m = z
        BY <3>5, <4>1, Division
      <4> QED
        BY <4>2 DEF m, z
    <3>9. v[i + 1] = w % Power(i + 1)
      <4>1. p * d \in Nat
        BY <3>2, <3>5
      <4>2. p * d + r = r + p * d
        BY <3>4, <4>1
      <4> QED
        BY <3>2, <3>3, <3>8, <4>2
    <3> QED
      BY <3>9
  <2> QED
    BY <2>1
<1>8. v[n] = w % Power(n)
  <2>1. Nat \subseteq A
    <3> HIDE DEF A
    <3> QED
      BY <1>6, <1>7, NatInd
  <2> QED
    BY <2>1
<1>9. w % Power(n) = w
  BY <1>1, <1>2
<1>10. Value(s) = v[n]
  BY <1>3, <1>5, Weighed
<1> QED
  BY <1>8, <1>9, <1>10 DEF w, s

\* The numbers of n bytes, without and with a sign.
LEMMA Numbers ==
  ASSUME NEW n \in Nat, NEW x \in Unsigneds(n)
  PROVE  x \in Nat /\ Value(Put(n, x)) = x
<1>1. Power(n) \in Nat \ {0}
  BY Powers
<1>2. x \in Nat /\ x < Power(n)
  BY <1>1 DEF Unsigneds
<1>3. x % Power(n) = x
  BY <1>1, <1>2
<1> QED
  BY <1>2, <1>3, ValuePut

\* A number with a sign is put and read back, and so are its bytes.
LEMMA SignedNumbers ==
  ASSUME NEW n \in Nat, Power(n) % 2 = 0
  PROVE  /\ \A x \in Ints(n) : x \in Int /\ Signed(n, Value(Put(n, x))) = x
         /\ \A s \in Seq(Byte) :
              Len(s) = n => /\ Signed(n, Value(s)) \in Ints(n)
                            /\ Put(n, Signed(n, Value(s))) = s
<1> DEFINE P == Power(n)
<1>1. P \in Nat \ {0}
  BY Powers
<1>2. PICK h \in Nat : P = 2 * h /\ P \div 2 = h /\ h # 0
  <2>1. P = 2 * (P \div 2) /\ P \div 2 \in Nat /\ P \div 2 # 0
    <3> HIDE DEF P
    <3>1. P % 2 = 0
      BY DEF P
    <3> QED
      BY <1>1, <3>1
  <2> QED
    BY <2>1
<1>3. ASSUME NEW x \in Ints(n) PROVE x \in Int /\ Signed(n, Value(Put(n, x))) = x
  <2>1. x \in Int /\ -h <= x /\ x <= h - 1
    BY <1>2 DEF Ints
  <2>2. Value(Put(n, x)) = x % P
    BY <2>1, ValuePut
  <2>3. CASE x >= 0
    <3>1. x % P = x
      <4> HIDE DEF P
      <4> QED
        BY <1>1, <1>2, <2>1, <2>3
    <3> QED
      BY <1>2, <2>1, <2>2, <2>3, <3>1 DEF Signed
  <2>4. CASE x < 0
    <3>1. x % P = x + P
      <4> HIDE DEF P
      <4> QED
        BY <1>1, <1>2, <2>1, <2>4
    <3> QED
      BY <1>2, <2>1, <2>2, <2>4, <3>1 DEF Signed
  <2> QED
    BY <2>1, <2>3, <2>4
<1>4. ASSUME NEW s \in Seq(Byte), Len(s) = n
      PROVE  Signed(n, Value(s)) \in Ints(n) /\ Put(n, Signed(n, Value(s))) = s
  <2>1. Value(s) \in Nat /\ Value(s) < P /\ Put(n, Value(s)) = s
    BY <1>4, PutValue
  <2>2. CASE 2 * Value(s) >= P
    <3>1. Signed(n, Value(s)) = Value(s) - P
      BY <2>2 DEF Signed
    <3>2. Value(s) - P \in Int /\ -h <= Value(s) - P /\ Value(s) - P <= h - 1
      BY <1>1, <1>2, <2>1, <2>2
    <3>3. (Value(s) - P) % P = Value(s) % P
      <4> DEFINE z == Value(s)
      <4>1. z \in Nat /\ z < P
        BY <2>1
      <4> HIDE DEF P, z
      <4>2. (z - P) % P = z % P
        BY <1>1, <4>1
      <4> QED
        BY <4>2 DEF z
    <3>4. Put(n, Value(s) - P) = Put(n, Value(s))
      BY <3>3 DEF Put
    <3> QED
      BY <1>2, <2>1, <3>1, <3>2, <3>4 DEF Ints
  <2>3. CASE ~ (2 * Value(s) >= P)
    <3>1. Signed(n, Value(s)) = Value(s)
      BY <2>3 DEF Signed
    <3>2. Value(s) \in Int /\ -h <= Value(s) /\ Value(s) <= h - 1
      BY <1>1, <1>2, <2>1, <2>3
    <3> QED
      BY <1>2, <2>1, <3>1, <3>2 DEF Ints
  <2> QED
    BY <2>2, <2>3
<1> QED
  BY <1>3, <1>4

-------------------------------------------------------------------------------
(* The readers.  A reader is exact: what it accepts is what the writer     *)
(* writes for its value, followed by the rest of the stream.  And it reads *)
(* back whatever the writer has written.                                   *)

\* ReadFull cuts n bytes off, if there are as many.
LEMMA ReadFullExact ==
  ASSUME NEW s \in Seq(Byte), NEW n \in Nat
  PROVE  LET r == ReadFull(s, n)
         IN  /\ r.ok \in BOOLEAN /\ (r.ok <=> n <= Len(s))
             /\ r.rest \in Seq(Byte)
             /\ r.ok => r.val \in Seq(Byte) /\ Len(r.val) = n /\ r.val \o r.rest = s
             /\ ~ r.ok => r = Failed
<1>1. Len(s) \in Nat
  OBVIOUS
<1>2. CASE Len(s) < n
  <2>1. ReadFull(s, n) = Failed /\ ~ (n <= Len(s))
    BY <1>1, <1>2 DEF ReadFull
  <2>2. <<>> \in Seq(Byte)
    OBVIOUS
  <2> QED
    BY <2>1, <2>2 DEF Failed
<1>3. CASE ~ (Len(s) < n)
  <2>1. n \in 0 .. Len(s) /\ n <= Len(s)
    BY <1>1, <1>3
  <2>2. ReadFull(s, n) = Found(SubSeq(s, 1, n), SubSeq(s, n + 1, Len(s)))
    BY <1>3 DEF ReadFull
  <2>3. /\ SubSeq(s, 1, n) \in Seq(Byte) /\ Len(SubSeq(s, 1, n)) = n
        /\ SubSeq(s, n + 1, Len(s)) \in Seq(Byte)
        /\ SubSeq(s, 1, n) \o SubSeq(s, n + 1, Len(s)) = s
    BY <2>1, Parts
  <2> DEFINE r == ReadFull(s, n)
  <2>4. r.ok = TRUE /\ r.val = SubSeq(s, 1, n) /\ r.rest = SubSeq(s, n + 1, Len(s))
    BY <2>2 DEF Found
  <2> HIDE DEF r
  <2>5. /\ r.ok \in BOOLEAN /\ (r.ok <=> n <= Len(s))
        /\ r.rest \in Seq(Byte)
        /\ r.ok => r.val \in Seq(Byte) /\ Len(r.val) = n /\ r.val \o r.rest = s
        /\ ~ r.ok => r = Failed
    BY <2>1, <2>3, <2>4
  <2> QED
    BY <2>5 DEF r
<1> QED
  BY <1>2, <1>3

\* ReadFull reads a buffer back.
LEMMA ReadFullBack ==
  ASSUME NEW a \in Seq(Byte), NEW r \in Seq(Byte)
  PROVE  ReadFull(a \o r, Len(a)) = Found(a, r)
<1>1. Len(a \o r) = Len(a) + Len(r) /\ Len(a) \in Nat /\ Len(r) \in Nat
  OBVIOUS
<1>2. ~ (Len(a \o r) < Len(a))
  BY <1>1
<1>3. SubSeq(a \o r, 1, Len(a)) = a /\ SubSeq(a \o r, Len(a) + 1, Len(a \o r)) = r
  BY PartsOf
<1> QED
  BY <1>2, <1>3 DEF ReadFull, Found

\* Uint is exact.
LEMMA UintExact ==
  ASSUME NEW s \in Seq(Byte), NEW n \in Nat
  PROVE  LET r == Uint(s, n)
         IN  /\ r.ok \in BOOLEAN /\ (r.ok <=> n <= Len(s))
             /\ r.rest \in Seq(Byte)
             /\ r.ok => r.val \in Unsigneds(n) /\ Put(n, r.val) \o r.rest = s
             /\ ~ r.ok => r = Failed
<1> DEFINE f == ReadFull(s, n)
           r == Uint(s, n)
<1>1. /\ f.ok \in BOOLEAN /\ (f.ok <=> n <= Len(s))
      /\ f.rest \in Seq(Byte)
      /\ f.ok => f.val \in Seq(Byte) /\ Len(f.val) = n /\ f.val \o f.rest = s
      /\ ~ f.ok => f = Failed
  BY ReadFullExact
<1>2. CASE ~ f.ok
  <2>1. r = Failed
    BY <1>2 DEF Uint
  <2>2. <<>> \in Seq(Byte)
    OBVIOUS
  <2> HIDE DEF f, r
  <2> QED
    BY <1>1, <1>2, <2>1, <2>2 DEF Failed, r
<1>3. CASE f.ok
  <2>1. r.ok /\ r.val = Value(f.val) /\ r.rest = f.rest /\ r.ok \in BOOLEAN
    <3>1. r = Found(Value(f.val), f.rest)
      BY <1>3 DEF Uint
    <3> HIDE DEF f, r
    <3> QED
      BY <3>1 DEF Found
  <2>2. Value(f.val) \in Unsigneds(n) /\ Put(n, Value(f.val)) = f.val
    <3>1. f.val \in Seq(Byte) /\ Len(f.val) = n
      BY <1>1, <1>3
    <3> HIDE DEF f
    <3>2. Value(f.val) \in Nat /\ Value(f.val) < Power(n) /\ Put(n, Value(f.val)) = f.val
      BY <3>1, PutValue
    <3>3. Power(n) \in Nat
      BY Powers
    <3> QED
      BY <3>2, <3>3 DEF Unsigneds
  <2> HIDE DEF f, r
  <2> QED
    BY <1>1, <1>3, <2>1, <2>2 DEF r
<1> QED
  BY <1>2, <1>3

\* Uint reads a number back.
LEMMA UintBack ==
  ASSUME NEW n \in Nat, NEW x \in Unsigneds(n), NEW r \in Seq(Byte)
  PROVE  Uint(Put(n, x) \o r, n) = Found(x, r)
<1>1. x \in Nat /\ Value(Put(n, x)) = x
  BY Numbers
<1>2. Put(n, x) \in Seq(Byte) /\ Len(Put(n, x)) = n
  BY <1>1, Puts
<1>3. ReadFull(Put(n, x) \o r, n) = Found(Put(n, x), r)
  BY <1>2, ReadFullBack
<1> QED
  BY <1>1, <1>3 DEF Uint, Found

\* A byte is written as itself.
LEMMA PutByte ==
  ASSUME NEW b \in Byte
  PROVE  Put(1, b) = <<b>> /\ b \in Unsigneds(1)
<1>1. Base \in Nat \ {0} /\ b \in Nat /\ b < Base
  BY WireAssumption DEF Byte
<1>2. Power(1) = Base /\ Power(0) = 1
  BY PowerValues
<1>3. ((b % Power(1)) \div Power(1 - 1)) % Base = b
  BY <1>1, <1>2
<1>4. Put(1, b) = [i \in 1 .. 1 |-> b]
  BY <1>3 DEF Put
<1>5. <<b>> = [i \in 1 .. 1 |-> b]
  OBVIOUS
<1> QED
  BY <1>1, <1>2, <1>4, <1>5 DEF Unsigneds

\* What a discriminant stands for.
LEMMA Widths ==
  /\ Base - 3 \in Byte /\ Base - 2 \in Byte /\ Base - 1 \in Byte
  /\ Wide(Base - 3) = [size |-> 2, min |-> Base - 3]
  /\ Wide(Base - 2) = [size |-> 4, min |-> Power(2)]
  /\ Wide(Base - 1) = [size |-> 8, min |-> Power(4)]
  /\ Base \in Nat /\ Base - 3 \in Nat /\ Power(2) \in Nat /\ Power(4) \in Nat /\ Power(8) \in Nat
  /\ Base - 3 < Base /\ Base < Power(2) /\ Power(2) < Power(4) /\ Power(4) < Power(8)
<1>1. Base \in Nat /\ Base >= 6
  BY WireAssumption
<1>2. Base - 3 # Base - 2 /\ Base - 3 # Base - 1 /\ Base - 2 # Base - 1
  BY <1>1
<1>3. /\ Power(4) \in Nat /\ Power(8) \in Nat /\ Base < Power(2) /\ Power(2) < Power(4)
      /\ Power(4) + 2 < Power(8) /\ Power(2) \in Nat
  BY PowerValues, Powers
<1>4. Wide(Base - 3) = [size |-> 2, min |-> Base - 3]
  BY <1>2 DEF Wide
<1>5. Wide(Base - 2) = [size |-> 4, min |-> Power(2)]
  BY <1>2 DEF Wide
<1>6. Wide(Base - 1) = [size |-> 8, min |-> Power(4)]
  BY <1>2 DEF Wide
<1> QED
  BY <1>1, <1>3, <1>4, <1>5, <1>6 DEF Byte

\* Concatenation of bytes.
LEMMA Assoc == \A a, b, c \in Seq(Byte) : (a \o b) \o c = a \o (b \o c)
BY Associative

Discriminants == {Base - 3, Base - 2, Base - 1}

\* The form of a variable length integer is a matter of its value.
LEMMA WideForm ==
  ASSUME NEW d \in Discriminants, NEW v \in Unsigneds(Wide(d).size), v >= Wide(d).min
  PROVE  /\ d \in Byte /\ d >= Base - 3 /\ Wide(d).size \in {2, 4, 8}
         /\ v \in Unsigneds(8) /\ ~ (v < Base - 3)
         /\ WriteVarInt(v) = <<d>> \o Put(Wide(d).size, v)
         /\ VarIntSerializeSize(v) = 1 + Wide(d).size
<1>0. /\ Base \in Nat /\ Base - 3 \in Nat /\ Power(2) \in Nat /\ Power(4) \in Nat /\ Power(8) \in Nat
      /\ Base - 3 < Base /\ Base < Power(2) /\ Power(2) < Power(4) /\ Power(4) < Power(8)
  BY Widths
<1>1. CASE d = Base - 3
  <2>1. Wide(d) = [size |-> 2, min |-> Base - 3] /\ d \in Byte
    BY <1>1, Widths
  <2>2. v \in Nat /\ v >= Base - 3 /\ v < Power(2) /\ Wide(d).size = 2
    BY <1>0, <2>1 DEF Unsigneds
  <2>3. ~ (v < Base - 3) /\ ~ (v >= Power(2)) /\ ~ (v >= Power(4)) /\ v < Power(8)
    BY <1>0, <2>2
  <2>4. WriteVarInt(v) = <<Base - 3>> \o Put(2, v) /\ VarIntSerializeSize(v) = 3
    BY <2>2, <2>3 DEF WriteVarInt, VarIntSerializeSize
  <2> QED
    BY <1>0, <1>1, <2>1, <2>2, <2>3, <2>4, SMTT(30) DEF Unsigneds
<1>2. CASE d = Base - 2
  <2>1. Wide(d) = [size |-> 4, min |-> Power(2)] /\ d \in Byte
    BY <1>2, Widths
  <2>2. v \in Nat /\ v >= Power(2) /\ v < Power(4) /\ Wide(d).size = 4
    BY <1>0, <2>1 DEF Unsigneds
  <2>3. ~ (v < Base - 3) /\ ~ (v < Power(2)) /\ ~ (v >= Power(4)) /\ v < Power(8)
    BY <1>0, <2>2
  <2>4. WriteVarInt(v) = <<Base - 2>> \o Put(4, v) /\ VarIntSerializeSize(v) = 5
    BY <2>2, <2>3 DEF WriteVarInt, VarIntSerializeSize
  <2> QED
    BY <1>0, <1>2, <2>1, <2>2, <2>3, <2>4, SMTT(30) DEF Unsigneds
<1>3. CASE d = Base - 1
  <2>1. Wide(d) = [size |-> 8, min |-> Power(4)] /\ d \in Byte
    BY <1>3, Widths
  <2>2. v \in Nat /\ v >= Power(4) /\ v < Power(8) /\ Wide(d).size = 8
    BY <1>0, <2>1 DEF Unsigneds
  <2>3. ~ (v < Base - 3) /\ ~ (v < Power(2)) /\ ~ (v < Power(4))
    BY <1>0, <2>2
  <2>4. WriteVarInt(v) = <<Base - 1>> \o Put(8, v) /\ VarIntSerializeSize(v) = 9
    BY <2>2, <2>3 DEF WriteVarInt, VarIntSerializeSize
  <2> QED
    BY <1>0, <1>3, <2>1, <2>2, <2>3, <2>4, SMTT(30) DEF Unsigneds
<1> QED
  BY <1>1, <1>2, <1>3 DEF Discriminants

\* A small value is a byte of its own.
LEMMA NarrowForm ==
  ASSUME NEW v \in Nat, v < Base - 3
  PROVE  /\ v \in Byte /\ v \in Unsigneds(1) /\ v \in Unsigneds(8)
         /\ WriteVarInt(v) = Put(1, v) /\ VarIntSerializeSize(v) = 1
<1>0. /\ Base \in Nat /\ Base - 3 \in Nat /\ Power(2) \in Nat /\ Power(4) \in Nat /\ Power(8) \in Nat
      /\ Base - 3 < Base /\ Base < Power(2) /\ Power(2) < Power(4) /\ Power(4) < Power(8)
  BY Widths
<1>1. v < Base /\ v < Power(8) /\ ~ (v >= Base - 3) /\ ~ (v >= Power(2)) /\ ~ (v >= Power(4))
  BY <1>0
<1>2. WriteVarInt(v) = Put(1, v) /\ VarIntSerializeSize(v) = 1
  BY <1>1 DEF WriteVarInt, VarIntSerializeSize
<1>3. v \in Byte /\ v \in Unsigneds(8)
  BY <1>0, <1>1 DEF Byte, Unsigneds
<1> QED
  BY <1>2, <1>3, PutByte

\* Every value has a form, narrow or wide.
LEMMA VarIntForms ==
  ASSUME NEW v \in Unsigneds(8)
  PROVE  \/ v \in Nat /\ v < Base - 3
         \/ \E d \in Discriminants : v \in Unsigneds(Wide(d).size) /\ v >= Wide(d).min
<1>0. /\ Base \in Nat /\ Base - 3 \in Nat /\ Power(2) \in Nat /\ Power(4) \in Nat /\ Power(8) \in Nat
      /\ Base - 3 < Base /\ Base < Power(2) /\ Power(2) < Power(4) /\ Power(4) < Power(8)
  BY Widths
<1>1. v \in Nat /\ v < Power(8)
  BY <1>0 DEF Unsigneds
<1>2. CASE v < Base - 3
  BY <1>1, <1>2
<1>3. CASE v >= Base - 3 /\ v < Power(2)
  <2>1. Wide(Base - 3) = [size |-> 2, min |-> Base - 3]
    BY Widths
  <2>2. v \in Unsigneds(Wide(Base - 3).size) /\ v >= Wide(Base - 3).min
    BY <1>0, <1>1, <1>3, <2>1 DEF Unsigneds
  <2> QED
    BY <2>2 DEF Discriminants
<1>4. CASE v >= Power(2) /\ v < Power(4)
  <2>1. Wide(Base - 2) = [size |-> 4, min |-> Power(2)]
    BY Widths
  <2>2. v \in Unsigneds(Wide(Base - 2).size) /\ v >= Wide(Base - 2).min
    BY <1>0, <1>1, <1>4, <2>1 DEF Unsigneds
  <2> QED
    BY <2>2 DEF Discriminants
<1>5. CASE v >= Power(4)
  <2>1. Wide(Base - 1) = [size |-> 8, min |-> Power(4)]
    BY Widths
  <2>2. v \in Unsigneds(Wide(Base - 1).size) /\ v >= Wide(Base - 1).min
    BY <1>0, <1>1, <1>5, <2>1 DEF Unsigneds
  <2> QED
    BY <2>2 DEF Discriminants
<1> QED
  BY <1>0, <1>1, <1>2, <1>3, <1>4, <1>5

\* WriteVarInt writes as many bytes as VarIntSerializeSize says.
LEMMA VarIntWritten ==
  ASSUME NEW v \in Unsigneds(8)
  PROVE  /\ WriteVarInt(v) \in Seq(Byte) /\ v \in Nat
         /\ Len(WriteVarInt(v)) = VarIntSerializeSize(v)
         /\ VarIntSerializeSize(v) \in {1, 3, 5, 9}
<1>1. CASE v \in Nat /\ v < Base - 3
  <2>1. WriteVarInt(v) = Put(1, v) /\ VarIntSerializeSize(v) = 1
    BY <1>1, NarrowForm
  <2>2. Put(1, v) \in Seq(Byte) /\ Len(Put(1, v)) = 1
    <3>1. 1 \in Nat /\ v \in Int
      BY <1>1
    <3> QED
      BY <3>1, Puts
  <2> QED
    BY <1>1, <2>1, <2>2
<1>2. ASSUME NEW d \in Discriminants, v \in Unsigneds(Wide(d).size), v >= Wide(d).min
      PROVE  /\ WriteVarInt(v) \in Seq(Byte) /\ v \in Nat
             /\ Len(WriteVarInt(v)) = VarIntSerializeSize(v)
             /\ VarIntSerializeSize(v) \in {1, 3, 5, 9}
  <2>1. /\ d \in Byte /\ Wide(d).size \in {2, 4, 8}
        /\ WriteVarInt(v) = <<d>> \o Put(Wide(d).size, v)
        /\ VarIntSerializeSize(v) = 1 + Wide(d).size
    BY <1>2, WideForm
  <2>2. v \in Nat /\ Wide(d).size \in Nat
    BY <2>1, Widths, SMTT(30) DEF Unsigneds
  <2>3. Put(Wide(d).size, v) \in Seq(Byte) /\ Len(Put(Wide(d).size, v)) = Wide(d).size
    <3>1. v \in Int
      BY <2>2
    <3> QED
      BY <2>2, <3>1, Puts
  <2>4. <<d>> \in Seq(Byte) /\ Len(<<d>>) = 1
    BY <2>1
  <2>5. /\ <<d>> \o Put(Wide(d).size, v) \in Seq(Byte)
        /\ Len(<<d>> \o Put(Wide(d).size, v)) = 1 + Wide(d).size
    BY <2>3, <2>4, PartsOf
  <2> QED
    BY <2>1, <2>2, <2>5
<1> QED
  BY <1>1, <1>2, VarIntForms

\* ReadVarInt is exact.
LEMMA VarIntExact ==
  ASSUME NEW s \in Seq(Byte)
  PROVE  LET r == ReadVarInt(s)
         IN  /\ r.ok \in BOOLEAN /\ r.rest \in Seq(Byte)
             /\ r.ok => r.val \in Unsigneds(8) /\ WriteVarInt(r.val) \o r.rest = s
             /\ ~ r.ok => r = Failed
<1> DEFINE u == Uint(s, 1)
           r == ReadVarInt(s)
<1>1. /\ u.ok \in BOOLEAN /\ u.rest \in Seq(Byte)
      /\ u.ok => u.val \in Unsigneds(1) /\ Put(1, u.val) \o u.rest = s
      /\ ~ u.ok => u = Failed
  BY UintExact
<1>2. r = IF ~ u.ok \/ u.val < Base - 3 THEN u
                                        ELSE Canonical(u.val, Uint(u.rest, Wide(u.val).size))
  BY DEF ReadVarInt
<1> HIDE DEF u, r
<1>3. CASE ~ u.ok
  BY <1>1, <1>2, <1>3 DEF Failed, r
<1>4. CASE u.ok /\ u.val < Base - 3
  <2>1. u.val \in Nat
    BY <1>1, <1>4, Powers DEF Unsigneds
  <2>2. u.val \in Unsigneds(8) /\ WriteVarInt(u.val) = Put(1, u.val)
    BY <1>4, <2>1, NarrowForm
  <2> QED
    BY <1>1, <1>2, <1>4, <2>2 DEF r
<1>5. CASE u.ok /\ ~ (u.val < Base - 3)
  <2> DEFINE d == u.val
             w == Uint(u.rest, Wide(d).size)
  <2>1. d \in Byte /\ d \in Discriminants
    <3>1. d \in Nat /\ d < Base
      BY <1>1, <1>5, PowerValues, WireAssumption DEF Unsigneds
    <3>2. ~ (d < Base - 3) /\ Base \in Nat
      BY <1>5, WireAssumption
    <3> HIDE DEF d
    <3> QED
      BY <3>1, <3>2 DEF Byte, Discriminants
  <2>2. Wide(d).size \in Nat
    BY <2>1, Widths DEF Discriminants
  <2>3. /\ w.ok \in BOOLEAN /\ w.rest \in Seq(Byte)
        /\ w.ok => /\ w.val \in Unsigneds(Wide(d).size)
                   /\ Put(Wide(d).size, w.val) \o w.rest = u.rest
        /\ ~ w.ok => w = Failed
    <3> HIDE DEF d
    <3> QED
      BY <1>1, <2>2, UintExact
  <2>4. r = IF w.ok /\ w.val >= Wide(d).min THEN w ELSE Failed
    BY <1>2, <1>5 DEF Canonical
  <2> HIDE DEF d, w
  <2>5. CASE ~ (w.ok /\ w.val >= Wide(d).min)
    <3>1. r = Failed
      BY <2>4, <2>5
    <3>2. <<>> \in Seq(Byte)
      OBVIOUS
    <3> QED
      BY <3>1, <3>2 DEF Failed, r
  <2>6. CASE w.ok /\ w.val >= Wide(d).min
    <3>1. w.val \in Unsigneds(8) /\ WriteVarInt(w.val) = <<d>> \o Put(Wide(d).size, w.val)
      BY <2>1, <2>3, <2>6, WideForm
    <3>2. w.val \in Int
      BY <3>1, VarIntWritten
    <3>3. Put(Wide(d).size, w.val) \in Seq(Byte) /\ <<d>> \in Seq(Byte)
      BY <2>1, <2>2, <3>2, Puts
    <3>4. WriteVarInt(w.val) \o w.rest = <<d>> \o (Put(Wide(d).size, w.val) \o w.rest)
      <4> DEFINE a == <<d>>
                 b == Put(Wide(d).size, w.val)
      <4>1. WriteVarInt(w.val) = a \o b
        BY <3>1
      <4>2. a \in Seq(Byte) /\ b \in Seq(Byte) /\ w.rest \in Seq(Byte)
        BY <2>3, <3>3
      <4> HIDE DEF a, b
      <4>3. (a \o b) \o w.rest = a \o (b \o w.rest)
        BY <4>2, Assoc
      <4>4. WriteVarInt(w.val) \o w.rest = a \o (b \o w.rest)
        BY <4>1, <4>3
      <4> QED
        BY <4>4 DEF a, b
    <3>5. s = <<d>> \o u.rest
      <4>1. Put(1, d) = <<d>>
        BY <2>1, PutByte
      <4> QED
        BY <1>1, <1>5, <4>1 DEF d
    <3>6. WriteVarInt(w.val) \o w.rest = s
      BY <2>3, <2>6, <3>4, <3>5
    <3> QED
      BY <2>3, <2>4, <2>6, <3>1, <3>6 DEF r
  <2> QED
    BY <2>5, <2>6
<1> QED
  BY <1>1, <1>3, <1>4, <1>5

\* ReadVarInt reads a value back.
LEMMA VarIntBack ==
  ASSUME NEW v \in Unsigneds(8), NEW t \in Seq(Byte)
  PROVE  ReadVarInt(WriteVarInt(v) \o t) = Found(v, t)
<1>1. CASE v \in Nat /\ v < Base - 3
  <2>1. v \in Unsigneds(1) /\ WriteVarInt(v) = Put(1, v)
    BY <1>1, NarrowForm
  <2>2. Uint(Put(1, v) \o t, 1) = Found(v, t)
    BY <2>1, UintBack
  <2> DEFINE u == Uint(Put(1, v) \o t, 1)
  <2>3. ReadVarInt(Put(1, v) \o t) =
          IF ~ u.ok \/ u.val < Base - 3 THEN u
                                        ELSE Canonical(u.val, Uint(u.rest, Wide(u.val).size))
    BY DEF ReadVarInt
  <2> HIDE DEF u
  <2>4. u.ok = TRUE /\ u.val = v /\ u = Found(v, t)
    BY <2>2 DEF Found, u
  <2> QED
    BY <1>1, <2>1, <2>3, <2>4
<1>2. ASSUME NEW d \in Discriminants, v \in Unsigneds(Wide(d).size), v >= Wide(d).min
      PROVE  ReadVarInt(WriteVarInt(v) \o t) = Found(v, t)
  <2> DEFINE n == Wide(d).size
             p == Put(n, v)
  <2>1. /\ d \in Byte /\ d >= Base - 3 /\ n \in {2, 4, 8}
        /\ WriteVarInt(v) = <<d>> \o p
    BY <1>2, WideForm
  <2>2. d \in Unsigneds(1) /\ Put(1, d) = <<d>>
    BY <2>1, PutByte
  <2>3. v \in Nat
    BY VarIntWritten
  <2>4. p \in Seq(Byte) /\ <<d>> \in Seq(Byte)
    BY <2>1, <2>3, Puts
  <2>5. WriteVarInt(v) \o t = Put(1, d) \o (p \o t) /\ p \o t \in Seq(Byte)
    <3> DEFINE a == <<d>>
    <3>1. WriteVarInt(v) = a \o p /\ Put(1, d) = a /\ a \in Seq(Byte)
      BY <2>1, <2>2, <2>4
    <3> HIDE DEF a, p
    <3>2. (a \o p) \o t = a \o (p \o t) /\ p \o t \in Seq(Byte)
      BY <2>4, <3>1, Assoc, SMTT(30)
    <3> QED
      BY <3>1, <3>2
  <2>6. Uint(WriteVarInt(v) \o t, 1) = Found(d, p \o t)
    <3> HIDE DEF p
    <3> QED
      BY <2>2, <2>5, UintBack
  <2>7. Uint(p \o t, n) = Found(v, t)
    BY <1>2, <2>1, UintBack
  <2>8. ~ (d < Base - 3)
    BY <2>1, WireAssumption DEF Byte
  <2> DEFINE u == Uint(WriteVarInt(v) \o t, 1)
  <2>9. ReadVarInt(WriteVarInt(v) \o t) =
          IF ~ u.ok \/ u.val < Base - 3 THEN u
                                        ELSE Canonical(u.val, Uint(u.rest, Wide(u.val).size))
    BY DEF ReadVarInt
  <2> HIDE DEF u, p
  <2>10. u.ok = TRUE /\ u.val = d /\ u.rest = p \o t
    BY <2>6 DEF Found, u
  <2>11. ReadVarInt(WriteVarInt(v) \o t) = Canonical(d, Found(v, t))
    BY <2>7, <2>8, <2>9, <2>10
  <2> QED
    BY <1>2, <2>11 DEF Canonical, Found
<1> QED
  BY <1>1, <1>2, VarIntForms

-------------------------------------------------------------------------------
(* The elements of a block header.                                         *)

Kinds == {"int32", "Hash", "uint32", "uint32Time"}

\* The type as which an element is written.
Written(kind) == IF kind = "uint32Time" THEN "uint32" ELSE kind

FieldWidth(kind) == IF kind = "Hash" THEN HashSize ELSE 4

\* The values of an element.
Domain(kind) ==
  IF kind = "int32" THEN Ints(4)
  ELSE IF kind = "Hash" THEN [1 .. HashSize -> Byte] ELSE Unsigneds(4)

\* The widths of the elements, and their conversions, which are inverse to each other.
LEMMA Elements ==
  ASSUME NEW kind \in Kinds
  PROVE  /\ ElementSize[kind] = FieldWidth(kind) /\ FieldWidth(kind) \in Nat
         /\ \A v \in Domain(kind) :
              /\ WriteElement(Written(kind), v) \in Seq(Byte)
              /\ Len(WriteElement(Written(kind), v)) = FieldWidth(kind)
              /\ Element(kind, WriteElement(Written(kind), v)) = v
         /\ \A s \in Seq(Byte) :
              Len(s) = FieldWidth(kind) =>
                /\ Element(kind, s) \in Domain(kind)
                /\ WriteElement(Written(kind), Element(kind, s)) = s
<1>0. HashSize \in Nat /\ 4 \in Nat /\ Power(4) % 2 = 0 /\ Power(4) \in Nat
  BY WireAssumption, PowerValues
<1>1. CASE kind = "int32"
  <2>1. ElementSize[kind] = 4 /\ FieldWidth(kind) = 4 /\ Domain(kind) = Ints(4) /\ Written(kind) = "int32"
    BY <1>1 DEF ElementSize, FieldWidth, Domain, Written
  <2>2. \A s : Element("int32", s) = Signed(Len(s), Value(s))
    BY DEF Element, ByteArrays
  <2>3. \A v : WriteElement("int32", v) = Put(4, v)
    BY <1>1, <2>1 DEF WriteElement, ByteArrays
  <2>4. ASSUME NEW v \in Ints(4)
        PROVE  /\ Put(4, v) \in Seq(Byte) /\ Len(Put(4, v)) = 4
               /\ Signed(Len(Put(4, v)), Value(Put(4, v))) = v
    <3>1. v \in Int /\ Signed(4, Value(Put(4, v))) = v
      BY <1>0, SignedNumbers
    <3> QED
      BY <1>0, <3>1, Puts
  <2>5. ASSUME NEW s \in Seq(Byte), Len(s) = 4
        PROVE  Signed(Len(s), Value(s)) \in Ints(4) /\ Put(4, Signed(Len(s), Value(s))) = s
    BY <1>0, <2>5, SignedNumbers
  <2>6. \A v \in Ints(4) :
          /\ WriteElement("int32", v) \in Seq(Byte)
          /\ Len(WriteElement("int32", v)) = 4
          /\ Element("int32", WriteElement("int32", v)) = v
    BY <2>2, <2>3, <2>4
  <2>7. \A s \in Seq(Byte) :
          Len(s) = 4 => /\ Element("int32", s) \in Ints(4)
                        /\ WriteElement("int32", Element("int32", s)) = s
    BY <2>2, <2>3, <2>5
  <2> QED
    BY <1>0, <1>1, <2>1, <2>6, <2>7
<1>2. CASE kind = "Hash"
  <2>1. /\ ElementSize[kind] = HashSize /\ FieldWidth(kind) = HashSize
        /\ Domain(kind) = [1 .. HashSize -> Byte] /\ Written(kind) = "Hash"
    BY <1>2 DEF ElementSize, FieldWidth, Domain, Written
  <2>2. \A s : Element("Hash", s) = s
    BY DEF Element, ByteArrays
  <2>3. \A v : WriteElement("Hash", v) = v
    BY DEF WriteElement, ByteArrays
  <2>4. ASSUME NEW v \in [1 .. HashSize -> Byte] PROVE v \in Seq(Byte) /\ Len(v) = HashSize
    BY <1>0
  <2>5. ASSUME NEW s \in Seq(Byte), Len(s) = HashSize PROVE s \in [1 .. HashSize -> Byte]
    BY <2>5
  <2> QED
    BY <1>0, <1>2, <2>1, <2>2, <2>3, <2>4, <2>5
<1>3. CASE kind \in {"uint32", "uint32Time"}
  <2>1. /\ ElementSize[kind] = 4 /\ FieldWidth(kind) = 4
        /\ Domain(kind) = Unsigneds(4) /\ Written(kind) = "uint32"
    BY <1>3 DEF ElementSize, FieldWidth, Domain, Written
  <2>2. \A s : Element(kind, s) = Value(s)
    BY <1>3 DEF Element, ByteArrays
  <2>3. \A v : WriteElement("uint32", v) = Put(4, v)
    <3>1. ElementSize["uint32"] = 4
      BY DEF ElementSize
    <3> QED
      BY <3>1 DEF WriteElement, ByteArrays
  <2>4. ASSUME NEW v \in Unsigneds(4)
        PROVE  /\ Put(4, v) \in Seq(Byte) /\ Len(Put(4, v)) = 4
               /\ Value(Put(4, v)) = v
    <3>1. v \in Int /\ Value(Put(4, v)) = v
      BY <1>0, Numbers
    <3> QED
      BY <1>0, <3>1, Puts
  <2>5. ASSUME NEW s \in Seq(Byte), Len(s) = 4
        PROVE  Value(s) \in Unsigneds(4) /\ Put(4, Value(s)) = s
    <3>1. Value(s) \in Nat /\ Value(s) < Power(4) /\ Put(4, Value(s)) = s
      BY <2>5, PutValue
    <3> QED
      BY <1>0, <3>1 DEF Unsigneds
  <2> QED
    BY <1>0, <2>1, <2>2, <2>3, <2>4, <2>5
<1> QED
  BY <1>1, <1>2, <1>3 DEF Kinds

\* ReadElement is exact.
LEMMA ElementExact ==
  ASSUME NEW kind \in Kinds, NEW s \in Seq(Byte)
  PROVE  LET r == ReadElement(s, kind)
         IN  /\ r.ok \in BOOLEAN /\ (r.ok <=> FieldWidth(kind) <= Len(s))
             /\ r.rest \in Seq(Byte)
             /\ r.ok => /\ r.val \in Domain(kind)
                        /\ WriteElement(Written(kind), r.val) \o r.rest = s
             /\ ~ r.ok => r = Failed
<1> DEFINE f == ReadFull(s, FieldWidth(kind))
           r == ReadElement(s, kind)
<1>1. ElementSize[kind] = FieldWidth(kind) /\ FieldWidth(kind) \in Nat
  BY Elements
<1>2. /\ f.ok \in BOOLEAN /\ (f.ok <=> FieldWidth(kind) <= Len(s))
      /\ f.rest \in Seq(Byte)
      /\ f.ok => f.val \in Seq(Byte) /\ Len(f.val) = FieldWidth(kind) /\ f.val \o f.rest = s
      /\ ~ f.ok => f = Failed
  BY <1>1, ReadFullExact
<1>3. r = IF f.ok THEN Found(Element(kind, f.val), f.rest) ELSE Failed
  BY <1>1 DEF ReadElement
<1> HIDE DEF f, r
<1>4. CASE ~ f.ok
  <2>1. r = Failed /\ <<>> \in Seq(Byte)
    BY <1>3, <1>4
  <2> QED
    BY <1>2, <1>4, <2>1 DEF Failed, r
<1>5. CASE f.ok
  <2>1. r.ok = TRUE /\ r.val = Element(kind, f.val) /\ r.rest = f.rest
    BY <1>3, <1>5 DEF Found
  <2>2. /\ Element(kind, f.val) \in Domain(kind)
        /\ WriteElement(Written(kind), Element(kind, f.val)) = f.val
    BY <1>2, <1>5, Elements
  <2> QED
    BY <1>2, <1>5, <2>1, <2>2 DEF r
<1> QED
  BY <1>2, <1>4, <1>5

\* ReadElement reads an element back.
LEMMA ElementBack ==
  ASSUME NEW kind \in Kinds, NEW v \in Domain(kind), NEW t \in Seq(Byte)
  PROVE  ReadElement(WriteElement(Written(kind), v) \o t, kind) = Found(v, t)
<1> DEFINE a == WriteElement(Written(kind), v)
<1>1. /\ ElementSize[kind] = FieldWidth(kind) /\ a \in Seq(Byte) /\ Len(a) = FieldWidth(kind)
      /\ Element(kind, a) = v
  BY Elements
<1> HIDE DEF a
<1>2. ReadFull(a \o t, FieldWidth(kind)) = Found(a, t)
  BY <1>1, ReadFullBack
<1>3. ReadElement(a \o t, kind) = Found(v, t)
  BY <1>1, <1>2 DEF ReadElement, Found
<1> QED
  BY <1>3 DEF a

HeaderKinds == <<"int32", "Hash", "Hash", "uint32Time", "uint32", "uint32">>

\* A step of ReadElements.
NextElement(r, kind) ==
  LET e == ReadElement(r.rest, kind)
  IN  IF r.ok /\ e.ok THEN Found(Append(r.val, e.val), e.rest) ELSE Failed

\* The results of reading 0, 1, ... elements of a block header.
HeaderReads(q, s) ==
  /\ q[0] = Found(<<>>, s)
  /\ q[1] = NextElement(q[0], "int32")
  /\ q[2] = NextElement(q[1], "Hash")
  /\ q[3] = NextElement(q[2], "Hash")
  /\ q[4] = NextElement(q[3], "uint32Time")
  /\ q[5] = NextElement(q[4], "uint32")
  /\ q[6] = NextElement(q[5], "uint32")

\* ReadElements takes six such steps.
LEMMA HeaderChain ==
  ASSUME NEW s
  PROVE  \E q : HeaderReads(q, s) /\ readBlockHeader(s) = q[6]
<1> DEFINE types == HeaderKinds
           IsRead(p) == p = [i \in 0 .. Len(types) |->
                               IF i = 0 THEN Found(<<>>, s) ELSE NextElement(p[i - 1], types[i])]
           p == CHOOSE p : IsRead(p)
           r1 == NextElement(Found(<<>>, s), "int32")
           r2 == NextElement(r1, "Hash")
           r3 == NextElement(r2, "Hash")
           r4 == NextElement(r3, "uint32Time")
           r5 == NextElement(r4, "uint32")
           r6 == NextElement(r5, "uint32")
           q == [i \in 0 .. 6 |->
                   IF i = 0 THEN Found(<<>>, s) ELSE IF i = 1 THEN r1 ELSE IF i = 2 THEN r2
                   ELSE IF i = 3 THEN r3 ELSE IF i = 4 THEN r4 ELSE IF i = 5 THEN r5 ELSE r6]
<1>1. readBlockHeader(s) = p[Len(types)]
  BY DEF readBlockHeader, ReadElements, NextElement, HeaderKinds
<1>2. /\ Len(types) = 6 /\ types[1] = "int32" /\ types[2] = "Hash" /\ types[3] = "Hash"
      /\ types[4] = "uint32Time" /\ types[5] = "uint32" /\ types[6] = "uint32"
  BY DEF HeaderKinds
<1> HIDE DEF types
<1>3. /\ r2 = NextElement(r1, "Hash") /\ r3 = NextElement(r2, "Hash")
      /\ r4 = NextElement(r3, "uint32Time") /\ r5 = NextElement(r4, "uint32")
      /\ r6 = NextElement(r5, "uint32") /\ r1 = NextElement(Found(<<>>, s), "int32")
  OBVIOUS
<1> HIDE DEF r1, r2, r3, r4, r5, r6
<1>4. /\ q[0] = Found(<<>>, s) /\ q[1] = r1 /\ q[2] = r2 /\ q[3] = r3 /\ q[4] = r4 /\ q[5] = r5
      /\ q[6] = r6 /\ q = [i \in 0 .. 6 |-> q[i]]
  OBVIOUS
<1> HIDE DEF q
<1>5. IsRead(q)
  <2>1. ASSUME NEW i \in 0 .. Len(types)
        PROVE  q[i] = IF i = 0 THEN Found(<<>>, s) ELSE NextElement(q[i - 1], types[i])
    <3>1. i \in 0 .. 6
      BY <1>2
    <3>2. CASE i = 0
      BY <1>4, <3>2
    <3>3. CASE i = 1
      BY <1>2, <1>3, <1>4, <3>3
    <3>4. CASE i = 2
      BY <1>2, <1>3, <1>4, <3>4
    <3>5. CASE i = 3
      BY <1>2, <1>3, <1>4, <3>5
    <3>6. CASE i = 4
      BY <1>2, <1>3, <1>4, <3>6
    <3>7. CASE i = 5
      BY <1>2, <1>3, <1>4, <3>7
    <3>8. CASE i = 6
      BY <1>2, <1>3, <1>4, <3>8
    <3>9. i = 0 \/ i = 1 \/ i = 2 \/ i = 3 \/ i = 4 \/ i = 5 \/ i = 6
      BY <3>1
    <3> QED
      BY <3>2, <3>3, <3>4, <3>5, <3>6, <3>7, <3>8, <3>9
  <2>2. q = [i \in 0 .. Len(types) |-> q[i]]
    BY <1>2, <1>4
  <2> QED
    BY <2>1, <2>2
<1>6. IsRead(p)
  <2> HIDE DEF IsRead
  <2> QED
    BY <1>5, Zenon
<1>7. HeaderReads(p, s)
  <2> HIDE DEF p
  <2>1. \A i \in 0 .. 6 : p[i] = IF i = 0 THEN Found(<<>>, s) ELSE NextElement(p[i - 1], types[i])
    BY <1>2, <1>6
  <2>2. /\ p[0] = Found(<<>>, s)
        /\ p[1] = NextElement(p[1 - 1], types[1]) /\ p[2] = NextElement(p[2 - 1], types[2])
        /\ p[3] = NextElement(p[3 - 1], types[3]) /\ p[4] = NextElement(p[4 - 1], types[4])
        /\ p[5] = NextElement(p[5 - 1], types[5]) /\ p[6] = NextElement(p[6 - 1], types[6])
    BY <2>1
  <2> QED
    BY <1>2, <2>2 DEF HeaderReads
<1> HIDE DEF p
<1> QED
  BY <1>1, <1>2, <1>7

\* Six elements and what follows them, from the right and from the left.
LEMMA Regroup ==
  ASSUME NEW p \in Seq(Byte), NEW q \in Seq(Byte), NEW r \in Seq(Byte), NEW x, x = p \o q
  PROVE  x \o r = p \o (q \o r) /\ q \o r \in Seq(Byte)
BY Assoc

\* WriteElements concatenates the six elements.
LEMMA Six ==
  ASSUME NEW s \in Seq(Seq(Byte)), Len(s) = 6, NEW t \in Seq(Byte)
  PROVE  FlattenSeq(s) \o t = s[1] \o (s[2] \o (s[3] \o (s[4] \o (s[5] \o (s[6] \o t)))))
<1>1. PICK f : Concatenates(f, Byte, s) /\ FlattenSeq(s) = f[Len(s)]
  BY FlattenRec
<1>2. \A i \in 1 .. 6 : s[i] \in Seq(Byte)
  BY ElementOfSeq
<1>0. f \in [Nat -> Seq(Byte)]
  BY <1>1 DEF Concatenates
<1>3. f[0] = <<>> /\ \A n \in Nat : n < 6 => f[n + 1] = f[n] \o s[n + 1]
  BY <1>1 DEF Concatenates
<1>4. \A i \in 1 .. 6 : f[i] = f[i - 1] \o s[i]
  <2> SUFFICES ASSUME NEW i \in 1 .. 6 PROVE f[i] = f[i - 1] \o s[i]
    OBVIOUS
  <2>1. i - 1 \in Nat /\ i - 1 < 6 /\ (i - 1) + 1 = i
    OBVIOUS
  <2>2. f[(i - 1) + 1] = f[i - 1] \o s[(i - 1) + 1]
    BY <1>3, <2>1
  <2> QED
    BY <2>1, <2>2
<1>5. \A i \in 1 .. 6 : \A r \in Seq(Byte) : f[i] \o r = f[i - 1] \o (s[i] \o r) /\ s[i] \o r \in Seq(Byte)
  <2> SUFFICES ASSUME NEW i \in 1 .. 6, NEW r \in Seq(Byte)
               PROVE  f[i] \o r = f[i - 1] \o (s[i] \o r) /\ s[i] \o r \in Seq(Byte)
    OBVIOUS
  <2>1. f[i - 1] \in Seq(Byte)
    <3>1. i - 1 \in Nat
      OBVIOUS
    <3> QED
      BY <1>0, <3>1
  <2>2. s[i] \in Seq(Byte)
    BY <1>2
  <2>3. f[i] = f[i - 1] \o s[i]
    BY <1>4
  <2> DEFINE x == f[i]
             p == f[i - 1]
             q == s[i]
  <2>4. p \in Seq(Byte) /\ q \in Seq(Byte) /\ x = p \o q
    BY <2>1, <2>2, <2>3
  <2> HIDE DEF x, p, q
  <2>5. x \o r = p \o (q \o r) /\ q \o r \in Seq(Byte)
    BY <2>4, Regroup, SMTT(30)
  <2> QED
    BY <2>5 DEF x, p, q
<1> DEFINE t6 == s[6] \o t
           t5 == s[5] \o t6
           t4 == s[4] \o t5
           t3 == s[3] \o t4
           t2 == s[2] \o t3
           t1 == s[1] \o t2
<1>6. f[6] \o t = f[5] \o t6 /\ t6 \in Seq(Byte)
  <2>1. f[6] \o t = f[6 - 1] \o t6 /\ t6 \in Seq(Byte)
    <3>1. 6 \in 1 .. 6
      OBVIOUS
    <3> QED
      BY <1>5, <3>1, Zenon
  <2>2. 6 - 1 = 5
    OBVIOUS
  <2> QED
    BY <2>1, <2>2, Zenon
<1> HIDE DEF t6
<1>7. f[5] \o t6 = f[4] \o t5 /\ t5 \in Seq(Byte)
  <2>1. f[5] \o t6 = f[5 - 1] \o t5 /\ t5 \in Seq(Byte)
    <3>1. 5 \in 1 .. 6
      OBVIOUS
    <3> QED
      BY <1>5, <1>6, <3>1, Zenon
  <2>2. 5 - 1 = 4
    OBVIOUS
  <2> QED
    BY <2>1, <2>2, Zenon
<1> HIDE DEF t5
<1>8. f[4] \o t5 = f[3] \o t4 /\ t4 \in Seq(Byte)
  <2>1. f[4] \o t5 = f[4 - 1] \o t4 /\ t4 \in Seq(Byte)
    <3>1. 4 \in 1 .. 6
      OBVIOUS
    <3> QED
      BY <1>5, <1>7, <3>1, Zenon
  <2>2. 4 - 1 = 3
    OBVIOUS
  <2> QED
    BY <2>1, <2>2, Zenon
<1> HIDE DEF t4
<1>9. f[3] \o t4 = f[2] \o t3 /\ t3 \in Seq(Byte)
  <2>1. f[3] \o t4 = f[3 - 1] \o t3 /\ t3 \in Seq(Byte)
    <3>1. 3 \in 1 .. 6
      OBVIOUS
    <3> QED
      BY <1>5, <1>8, <3>1, Zenon
  <2>2. 3 - 1 = 2
    OBVIOUS
  <2> QED
    BY <2>1, <2>2, Zenon
<1> HIDE DEF t3
<1>10. f[2] \o t3 = f[1] \o t2 /\ t2 \in Seq(Byte)
  <2>1. f[2] \o t3 = f[2 - 1] \o t2 /\ t2 \in Seq(Byte)
    <3>1. 2 \in 1 .. 6
      OBVIOUS
    <3> QED
      BY <1>5, <1>9, <3>1, Zenon
  <2>2. 2 - 1 = 1
    OBVIOUS
  <2> QED
    BY <2>1, <2>2, Zenon
<1> HIDE DEF t2
<1>11. f[1] \o t2 = f[0] \o t1 /\ t1 \in Seq(Byte)
  <2>1. f[1] \o t2 = f[1 - 1] \o t1 /\ t1 \in Seq(Byte)
    <3>1. 1 \in 1 .. 6
      OBVIOUS
    <3> QED
      BY <1>5, <1>10, <3>1, Zenon
  <2>2. 1 - 1 = 0
    OBVIOUS
  <2> QED
    BY <2>1, <2>2, Zenon
<1> HIDE DEF t1
<1>12. f[0] \o t1 = t1
  BY <1>3, <1>11
<1>13. FlattenSeq(s) \o t = t1
  BY <1>1, <1>6, <1>7, <1>8, <1>9, <1>10, <1>11, <1>12
<1> QED
  BY <1>13 DEF t1, t2, t3, t4, t5, t6

\* A tuple of three and one more.
LEMMA AppendFourth ==
  ASSUME NEW a, NEW b, NEW c, NEW d
  PROVE  Append(<<a, b, c>>, d) = <<a, b, c, d>>
<1> DEFINE X == {a, b, c, d}
           p == Append(<<a, b, c>>, d)
           q == <<a, b, c, d>>
<1>1. p \in Seq(X) /\ Len(p) = 4 /\ p[1] = a /\ p[2] = b /\ p[3] = c /\ p[4] = d
  OBVIOUS
<1>2. q \in Seq(X) /\ Len(q) = 4 /\ q[1] = a /\ q[2] = b /\ q[3] = c /\ q[4] = d
  OBVIOUS
<1> HIDE DEF p, q, X
<1>3. \A i \in 1 .. 4 : p[i] = q[i]
  BY <1>1, <1>2
<1>4. p = q
  BY <1>1, <1>2, <1>3, SeqEqual
<1> QED
  BY <1>4 DEF p, q

\* A tuple of five and one more.
LEMMA AppendSixth ==
  ASSUME NEW a, NEW b, NEW c, NEW d, NEW e, NEW f
  PROVE  Append(<<a, b, c, d, e>>, f) = <<a, b, c, d, e, f>>
<1> DEFINE X == {a, b, c, d, e, f}
           p == Append(<<a, b, c, d, e>>, f)
           q == <<a, b, c, d, e, f>>
<1>1. /\ p \in Seq(X) /\ Len(p) = 6
      /\ p[1] = a /\ p[2] = b /\ p[3] = c /\ p[4] = d /\ p[5] = e /\ p[6] = f
  OBVIOUS
<1>2. /\ q \in Seq(X) /\ Len(q) = 6
      /\ q[1] = a /\ q[2] = b /\ q[3] = c /\ q[4] = d /\ q[5] = e /\ q[6] = f
  OBVIOUS
<1> HIDE DEF p, q, X
<1>3. \A i \in 1 .. 6 : p[i] = q[i]
  BY <1>1, <1>2
<1>4. p = q
  BY <1>1, <1>2, <1>3, SeqEqual
<1> QED
  BY <1>4 DEF p, q

\* n is what NextElement makes of r, with the value v.
Extends(n, r, kind, v) ==
  /\ n.ok \in BOOLEAN /\ n.rest \in Seq(Byte)
  /\ n.ok <=> r.ok /\ FieldWidth(kind) <= Len(r.rest)
  /\ n.ok => /\ n.val = Append(r.val, v)
             /\ v \in Domain(kind)
             /\ WriteElement(Written(kind), v) \in Seq(Byte)
             /\ r.rest = WriteElement(Written(kind), v) \o n.rest
             /\ Len(r.rest) = FieldWidth(kind) + Len(n.rest)

\* A step is exact.
LEMMA NextExact ==
  ASSUME NEW r, r.ok \in BOOLEAN, r.rest \in Seq(Byte), NEW kind \in Kinds,
         NEW n, n = NextElement(r, kind)
  PROVE  \E v : Extends(n, r, kind, v)
<1> DEFINE e == ReadElement(r.rest, kind)
<1>1. /\ e.ok \in BOOLEAN /\ (e.ok <=> FieldWidth(kind) <= Len(r.rest))
      /\ e.rest \in Seq(Byte)
      /\ e.ok => /\ e.val \in Domain(kind)
                 /\ WriteElement(Written(kind), e.val) \o e.rest = r.rest
  BY ElementExact
<1>2. n = IF r.ok /\ e.ok THEN Found(Append(r.val, e.val), e.rest) ELSE Failed
  BY DEF NextElement
<1> HIDE DEF e
<1>3. CASE r.ok /\ e.ok
  <2>1. n.ok = TRUE /\ n.val = Append(r.val, e.val) /\ n.rest = e.rest
    BY <1>2, <1>3 DEF Found
  <2> DEFINE w == WriteElement(Written(kind), e.val)
  <2>2. w \in Seq(Byte) /\ Len(w) = FieldWidth(kind)
    BY <1>1, <1>3, Elements
  <2>3. w \o e.rest = r.rest
    BY <1>1, <1>3
  <2> HIDE DEF w
  <2>4. Len(r.rest) = FieldWidth(kind) + Len(e.rest)
    <3>1. e.rest \in Seq(Byte)
      BY <1>1
    <3>2. w \in Seq(Byte)
      BY <2>2
    <3>3. \A b \in Seq(Byte) : Len(w \o b) = Len(w) + Len(b)
      BY <3>2
    <3>4. Len(w \o e.rest) = Len(w) + Len(e.rest)
      BY <3>1, <3>3, Zenon
    <3>5. Len(r.rest) = Len(w) + Len(e.rest)
      BY <2>3, <3>4, Zenon
    <3> QED
      BY <2>2, <3>5, Zenon
  <2>5. Extends(n, r, kind, e.val)
    BY <1>1, <1>3, <2>1, <2>2, <2>3, <2>4 DEF Extends, w
  <2> QED
    BY <2>5
<1>4. CASE ~ (r.ok /\ e.ok)
  <2>1. n = Failed /\ <<>> \in Seq(Byte)
    BY <1>2, <1>4
  <2>2. n.ok = FALSE /\ n.rest \in Seq(Byte)
    BY <2>1 DEF Failed
  <2>3. Extends(n, r, kind, 0)
    BY <1>1, <1>4, <2>2 DEF Extends
  <2> QED
    BY <2>3
<1> QED
  BY <1>3, <1>4

\* What readBlockHeader accepts is what writeBlockHeader writes, and it accepts
\* whatever is long enough.
LEMMA HeaderExact ==
  ASSUME NEW s \in Seq(Byte)
  PROVE  HeaderFirst(s)
<1>1. PICK q : HeaderReads(q, s) /\ readBlockHeader(s) = q[6]
  BY HeaderChain
<1>2. /\ "int32" \in Kinds /\ "Hash" \in Kinds /\ "uint32" \in Kinds /\ "uint32Time" \in Kinds
  BY DEF Kinds
<1> DEFINE q0 == q[0]
           q1 == q[1]
           q2 == q[2]
           q3 == q[3]
           q4 == q[4]
           q5 == q[5]
           q6 == q[6]
<1>3. /\ q0 = Found(<<>>, s)
      /\ q1 = NextElement(q0, "int32") /\ q2 = NextElement(q1, "Hash")
      /\ q3 = NextElement(q2, "Hash") /\ q4 = NextElement(q3, "uint32Time")
      /\ q5 = NextElement(q4, "uint32") /\ q6 = NextElement(q5, "uint32")
  BY <1>1 DEF HeaderReads
<1> HIDE DEF q0, q1, q2, q3, q4, q5, q6
<1>4. q0.ok = TRUE /\ q0.rest = s /\ q0.val = <<>>
  BY <1>3 DEF Found
<1>5. PICK v1 : Extends(q1, q0, "int32", v1)
  <2>1. q0.ok \in BOOLEAN /\ q0.rest \in Seq(Byte)
    BY <1>4
  <2> QED
    BY <1>2, <1>3, <2>1, NextExact
<1>6. PICK v2 : Extends(q2, q1, "Hash", v2)
  <2>1. q1.ok \in BOOLEAN /\ q1.rest \in Seq(Byte)
    BY <1>5 DEF Extends
  <2> QED
    BY <1>2, <1>3, <2>1, NextExact
<1>7. PICK v3 : Extends(q3, q2, "Hash", v3)
  <2>1. q2.ok \in BOOLEAN /\ q2.rest \in Seq(Byte)
    BY <1>6 DEF Extends
  <2> QED
    BY <1>2, <1>3, <2>1, NextExact
<1>8. PICK v4 : Extends(q4, q3, "uint32Time", v4)
  <2>1. q3.ok \in BOOLEAN /\ q3.rest \in Seq(Byte)
    BY <1>7 DEF Extends
  <2> QED
    BY <1>2, <1>3, <2>1, NextExact
<1>9. PICK v5 : Extends(q5, q4, "uint32", v5)
  <2>1. q4.ok \in BOOLEAN /\ q4.rest \in Seq(Byte)
    BY <1>8 DEF Extends
  <2> QED
    BY <1>2, <1>3, <2>1, NextExact
<1>10. PICK v6 : Extends(q6, q5, "uint32", v6)
  <2>1. q5.ok \in BOOLEAN /\ q5.rest \in Seq(Byte)
    BY <1>9 DEF Extends
  <2> QED
    BY <1>2, <1>3, <2>1, NextExact
<1>11. /\ FieldWidth("int32") = 4 /\ FieldWidth("Hash") = HashSize /\ FieldWidth("uint32") = 4
       /\ FieldWidth("uint32Time") = 4 /\ HashSize \in Nat
       /\ Written("int32") = "int32" /\ Written("Hash") = "Hash" /\ Written("uint32") = "uint32"
       /\ Written("uint32Time") = "uint32"
  BY WireAssumption DEF FieldWidth, Written
<1>12. q6.ok <=> Len(s) >= 16 + 2 * HashSize
  <2> DEFINE l(r) == Len(r.rest)
  <2>1. /\ l(q0) \in Nat /\ l(q1) \in Nat /\ l(q2) \in Nat /\ l(q3) \in Nat /\ l(q4) \in Nat
        /\ l(q5) \in Nat /\ l(q6) \in Nat
    BY <1>4, <1>5, <1>6, <1>7, <1>8, <1>9, <1>10, SMTT(30) DEF Extends
  <2>2. /\ q1.ok <=> q0.ok /\ 4 <= l(q0)
        /\ q1.ok => l(q0) = 4 + l(q1)
    BY <1>5, <1>11 DEF Extends
  <2>3. /\ q2.ok <=> q1.ok /\ HashSize <= l(q1)
        /\ q2.ok => l(q1) = HashSize + l(q2)
    BY <1>6, <1>11 DEF Extends
  <2>4. /\ q3.ok <=> q2.ok /\ HashSize <= l(q2)
        /\ q3.ok => l(q2) = HashSize + l(q3)
    BY <1>7, <1>11 DEF Extends
  <2>5. /\ q4.ok <=> q3.ok /\ 4 <= l(q3)
        /\ q4.ok => l(q3) = 4 + l(q4)
    BY <1>8, <1>11 DEF Extends
  <2>6. /\ q5.ok <=> q4.ok /\ 4 <= l(q4)
        /\ q5.ok => l(q4) = 4 + l(q5)
    BY <1>9, <1>11 DEF Extends
  <2>7. /\ q6.ok <=> q5.ok /\ 4 <= l(q5)
        /\ q6.ok => l(q5) = 4 + l(q6)
    BY <1>10, <1>11 DEF Extends
  <2>8. l(q0) = Len(s) /\ q0.ok
    BY <1>4
  <2> HIDE DEF l
  <2>9. ASSUME q6.ok PROVE Len(s) >= 16 + 2 * HashSize
    <3>1. q1.ok /\ q2.ok /\ q3.ok /\ q4.ok /\ q5.ok
      BY <2>3, <2>4, <2>5, <2>6, <2>7, <2>9
    <3>2. /\ l(q0) = 4 + l(q1) /\ l(q1) = HashSize + l(q2) /\ l(q2) = HashSize + l(q3)
          /\ l(q3) = 4 + l(q4) /\ l(q4) = 4 + l(q5) /\ l(q5) = 4 + l(q6)
      BY <2>2, <2>3, <2>4, <2>5, <2>6, <2>7, <2>9, <3>1
    <3>3. HashSize \in Nat
      BY <1>11
    <3>4. l(q5) >= 4
      BY <2>1, <3>2
    <3>a. l(q4) >= 8
      BY <2>1, <3>2, <3>4, SMTT(30)
    <3>b. l(q3) >= 12
      BY <2>1, <3>2, <3>a
    <3>c. l(q2) >= 12 + HashSize
      BY <2>1, <3>2, <3>3, <3>b, SMTT(30)
    <3>d. l(q1) >= 12 + 2 * HashSize
      BY <2>1, <3>2, <3>3, <3>c, SMTT(30)
    <3>5. l(q0) >= 16 + 2 * HashSize
      BY <2>1, <3>2, <3>3, <3>d, SMTT(30)
    <3> QED
      BY <2>8, <3>5
  <2>10. ASSUME Len(s) >= 16 + 2 * HashSize PROVE q6.ok
    <3>1. q1.ok /\ l(q1) = Len(s) - 4
      BY <1>11, <2>1, <2>2, <2>8, <2>10, SMTT(30)
    <3>2. q2.ok /\ l(q2) = Len(s) - 4 - HashSize
      BY <1>11, <2>1, <2>3, <2>8, <2>10, <3>1, SMTT(30)
    <3>3. q3.ok /\ l(q3) = Len(s) - 4 - 2 * HashSize
      BY <1>11, <2>1, <2>4, <2>8, <2>10, <3>2, SMTT(30)
    <3>4. q4.ok /\ l(q4) = Len(s) - 8 - 2 * HashSize
      BY <1>11, <2>1, <2>5, <2>8, <2>10, <3>3, SMTT(30)
    <3>5. q5.ok /\ l(q5) = Len(s) - 12 - 2 * HashSize
      BY <1>11, <2>1, <2>6, <2>8, <2>10, <3>4, SMTT(30)
    <3> QED
      BY <1>11, <2>1, <2>7, <2>8, <2>10, <3>5
  <2> QED
    BY <2>9, <2>10
<1>13. ASSUME q6.ok PROVE writeBlockHeader(q6.val) \o q6.rest = s
  <2>1. q1.ok /\ q2.ok /\ q3.ok /\ q4.ok /\ q5.ok
    BY <1>5, <1>6, <1>7, <1>8, <1>9, <1>10, <1>13 DEF Extends
  <2> DEFINE w == <<WriteElement("int32", v1), WriteElement("Hash", v2), WriteElement("Hash", v3),
                    WriteElement("uint32", v4), WriteElement("uint32", v5), WriteElement("uint32", v6)>>
  <2>2. q6.val = <<v1, v2, v3, v4, v5, v6>>
    <3>1. q1.val = <<v1>>
      BY <1>4, <1>5, <2>1 DEF Extends
    <3>2. q2.val = <<v1, v2>>
      BY <1>6, <2>1, <3>1 DEF Extends
    <3>3. q3.val = <<v1, v2, v3>>
      BY <1>7, <2>1, <3>2 DEF Extends
    <3>4. q4.val = <<v1, v2, v3, v4>>
      BY <1>8, <2>1, <3>3, AppendFourth DEF Extends
    <3>5. q5.val = <<v1, v2, v3, v4, v5>>
      BY <1>9, <2>1, <3>4, SMTT(30) DEF Extends
    <3>6. q6.val = Append(q5.val, v6)
      BY <1>10, <1>13 DEF Extends
    <3>7. Append(<<v1, v2, v3, v4, v5>>, v6) = <<v1, v2, v3, v4, v5, v6>>
      BY AppendSixth, Zenon
    <3> QED
      BY <3>5, <3>6, <3>7, Zenon
  <2>3. /\ w \in Seq(Seq(Byte)) /\ Len(w) = 6
        /\ w[1] = WriteElement("int32", v1) /\ w[2] = WriteElement("Hash", v2)
        /\ w[3] = WriteElement("Hash", v3) /\ w[4] = WriteElement("uint32", v4)
        /\ w[5] = WriteElement("uint32", v5) /\ w[6] = WriteElement("uint32", v6)
    BY <1>5, <1>6, <1>7, <1>8, <1>9, <1>10, <1>11, <1>13, <2>1 DEF Extends
  <2>4. writeBlockHeader(q6.val) = FlattenSeq(w)
    <3> DEFINE types == <<"int32", "Hash", "Hash", "uint32", "uint32", "uint32">>
               vals == <<v1, v2, v3, v4, v5, v6>>
    <3>1. writeBlockHeader(vals) = FlattenSeq([i \in DOMAIN types |-> WriteElement(types[i], vals[i])])
      BY DEF writeBlockHeader, WriteElements
    <3>2. [i \in DOMAIN types |-> WriteElement(types[i], vals[i])] = w
      OBVIOUS
    <3> QED
      BY <2>2, <3>1, <3>2
  <2> HIDE DEF w
  <2>5. FlattenSeq(w) \o q6.rest
          = w[1] \o (w[2] \o (w[3] \o (w[4] \o (w[5] \o (w[6] \o q6.rest)))))
    BY <1>10, <2>3, Six DEF Extends
  <2>6. q5.rest = w[6] \o q6.rest
    BY <1>10, <1>11, <1>13, <2>3 DEF Extends
  <2>7. q4.rest = w[5] \o q5.rest
    BY <1>9, <1>11, <2>1, <2>3 DEF Extends
  <2>8. q3.rest = w[4] \o q4.rest
    BY <1>8, <1>11, <2>1, <2>3 DEF Extends
  <2>9. q2.rest = w[3] \o q3.rest
    BY <1>7, <1>11, <2>1, <2>3 DEF Extends
  <2>10. q1.rest = w[2] \o q2.rest
    BY <1>6, <1>11, <2>1, <2>3 DEF Extends
  <2>11. q0.rest = w[1] \o q1.rest
    BY <1>5, <1>11, <2>1, <2>3 DEF Extends
  <2> QED
    BY <1>4, <2>4, <2>5, <2>6, <2>7, <2>8, <2>9, <2>10, <2>11, ZenonT(60)
<1> QED
  BY <1>1, <1>12, <1>13 DEF HeaderFirst, q6

\* A step reads an element back.
LEMMA NextBack ==
  ASSUME NEW kind \in Kinds, NEW v \in Domain(kind), NEW t \in Seq(Byte), NEW vals
  PROVE  NextElement(Found(vals, WriteElement(Written(kind), v) \o t), kind)
           = Found(Append(vals, v), t)
<1> DEFINE s == WriteElement(Written(kind), v) \o t
           r == Found(vals, s)
<1>1. r.ok = TRUE /\ r.val = vals /\ r.rest = s
  BY DEF Found
<1>2. ReadElement(s, kind) = Found(v, t)
  BY ElementBack
<1>3. Found(v, t).ok = TRUE /\ Found(v, t).val = v /\ Found(v, t).rest = t
  BY DEF Found
<1> HIDE DEF r, s
<1>4. NextElement(r, kind) = Found(Append(vals, v), t)
  BY <1>1, <1>2, <1>3 DEF NextElement
<1> QED
  BY <1>4 DEF r, s

\* A header of these six elements is read back.
HeaderReadBack(v1, v2, v3, v4, v5, v6) ==
  readBlockHeader(writeBlockHeader(<<v1, v2, v3, v4, v5, v6>>))
    = Found(<<v1, v2, v3, v4, v5, v6>>, <<>>)

\* readBlockHeader reads back what writeBlockHeader has written.
LEMMA HeaderBack ==
  ASSUME NEW v1 \in Ints(4), NEW v2 \in [1 .. HashSize -> Byte], NEW v3 \in [1 .. HashSize -> Byte],
         NEW v4 \in Unsigneds(4), NEW v5 \in Unsigneds(4), NEW v6 \in Unsigneds(4)
  PROVE  HeaderReadBack(v1, v2, v3, v4, v5, v6)
<1> DEFINE bh == <<v1, v2, v3, v4, v5, v6>>
<1>0. /\ "int32" \in Kinds /\ "Hash" \in Kinds /\ "uint32" \in Kinds /\ "uint32Time" \in Kinds
  BY DEF Kinds
<1>1. /\ Written("int32") = "int32" /\ Written("Hash") = "Hash" /\ Written("uint32") = "uint32"
      /\ Written("uint32Time") = "uint32"
  BY DEF Written
<1>2. /\ v1 \in Domain("int32") /\ v2 \in Domain("Hash") /\ v3 \in Domain("Hash")
      /\ v4 \in Domain("uint32Time") /\ v5 \in Domain("uint32") /\ v6 \in Domain("uint32")
  BY DEF Domain
<1> DEFINE w1 == WriteElement("int32", v1)
           w2 == WriteElement("Hash", v2)
           w3 == WriteElement("Hash", v3)
           w4 == WriteElement("uint32", v4)
           w5 == WriteElement("uint32", v5)
           w6 == WriteElement("uint32", v6)
           w == <<w1, w2, w3, w4, w5, w6>>
           s == FlattenSeq(w)
<1>3. /\ w1 \in Seq(Byte) /\ w2 \in Seq(Byte) /\ w3 \in Seq(Byte)
      /\ w4 \in Seq(Byte) /\ w5 \in Seq(Byte) /\ w6 \in Seq(Byte)
  <2>1. w1 \in Seq(Byte)
    BY <1>0, <1>1, <1>2, Elements
  <2>2. w2 \in Seq(Byte) /\ w3 \in Seq(Byte)
    BY <1>0, <1>1, <1>2, Elements
  <2>3. w4 \in Seq(Byte)
    BY <1>0, <1>1, <1>2, Elements
  <2>4. w5 \in Seq(Byte) /\ w6 \in Seq(Byte)
    BY <1>0, <1>1, <1>2, Elements
  <2> QED
    BY <2>1, <2>2, <2>3, <2>4
<1>4. writeBlockHeader(bh) = s
  <2> DEFINE types == <<"int32", "Hash", "Hash", "uint32", "uint32", "uint32">>
  <2>1. writeBlockHeader(bh) = FlattenSeq([i \in DOMAIN types |-> WriteElement(types[i], bh[i])])
    BY DEF writeBlockHeader, WriteElements
  <2>2. [i \in DOMAIN types |-> WriteElement(types[i], bh[i])] = w
    OBVIOUS
  <2> QED
    BY <2>1, <2>2
<1>a. /\ w1 = WriteElement(Written("int32"), v1) /\ w2 = WriteElement(Written("Hash"), v2)
      /\ w3 = WriteElement(Written("Hash"), v3) /\ w4 = WriteElement(Written("uint32Time"), v4)
      /\ w5 = WriteElement(Written("uint32"), v5) /\ w6 = WriteElement(Written("uint32"), v6)
  BY <1>1
<1> HIDE DEF w1, w2, w3, w4, w5, w6
<1>5. /\ w \in Seq(Seq(Byte)) /\ Len(w) = 6
      /\ w[1] = w1 /\ w[2] = w2 /\ w[3] = w3 /\ w[4] = w4 /\ w[5] = w5 /\ w[6] = w6
  BY <1>3
<1> HIDE DEF w
<1> DEFINE t5 == w6 \o <<>>
           t4 == w5 \o t5
           t3 == w4 \o t4
           t2 == w3 \o t3
           t1 == w2 \o t2
<1>6. s = w1 \o t1
  <2>1. <<>> \in Seq(Byte)
    OBVIOUS
  <2>2. s \in Seq(Byte)
    BY <1>5, Flattened
  <2>3. s \o <<>> = w1 \o t1
    BY <1>5, <2>1, Six
  <2> HIDE DEF s
  <2>4. s \o <<>> = s
    BY <2>2
  <2> QED
    BY <2>3, <2>4
<1> HIDE DEF s
<1>7. t5 \in Seq(Byte) /\ <<>> \in Seq(Byte)
  BY <1>3
<1> HIDE DEF t5
<1>8. t4 \in Seq(Byte)
  BY <1>3, <1>7
<1> HIDE DEF t4
<1>9. t3 \in Seq(Byte)
  BY <1>3, <1>8
<1> HIDE DEF t3
<1>10. t2 \in Seq(Byte)
  BY <1>3, <1>9
<1> HIDE DEF t2
<1>11. t1 \in Seq(Byte)
  BY <1>3, <1>10
<1> HIDE DEF t1
<1>12. PICK q : HeaderReads(q, s) /\ readBlockHeader(s) = q[6]
  BY HeaderChain
<1> DEFINE u1 == <<v1>>
           u2 == <<v1, v2>>
           u3 == <<v1, v2, v3>>
           u4 == <<v1, v2, v3, v4>>
           u5 == <<v1, v2, v3, v4, v5>>
           u6 == <<v1, v2, v3, v4, v5, v6>>
<1>13. u1 = Append(<<>>, v1) /\ u2 = Append(u1, v2) /\ u3 = Append(u2, v3) /\ u5 = Append(u4, v5)
  OBVIOUS
<1>14. u4 = Append(u3, v4)
  BY AppendFourth, Zenon
<1>15. u6 = Append(u5, v6)
  BY AppendSixth, Zenon
<1> HIDE DEF u1, u2, u3, u4, u5, u6
<1>16. q[1] = Found(u1, t1)
  <2>1. "int32" \in Kinds /\ v1 \in Domain("int32") /\ t1 \in Seq(Byte)
    BY <1>0, <1>2, <1>11
  <2>2. w1 = WriteElement(Written("int32"), v1)
    BY <1>a
  <2>3. s = w1 \o t1
    BY <1>6
  <2>4. u1 = Append(<<>>, v1)
    BY <1>13
  <2>5. NextElement(Found(<<>>, WriteElement(Written("int32"), v1) \o t1), "int32")
          = Found(Append(<<>>, v1), t1)
    BY <2>1, NextBack, Zenon
  <2>6. NextElement(Found(<<>>, s), "int32") = Found(u1, t1)
    BY <2>2, <2>3, <2>4, <2>5, Zenon
  <2>7. q[1] = NextElement(q[0], "int32") /\ q[0] = Found(<<>>, s)
    BY <1>12 DEF HeaderReads
  <2> QED
    BY <2>6, <2>7, Zenon
<1>17. q[2] = Found(u2, t2)
  <2>1. "Hash" \in Kinds /\ v2 \in Domain("Hash") /\ t2 \in Seq(Byte)
    BY <1>0, <1>2, <1>10
  <2>2. w2 = WriteElement(Written("Hash"), v2)
    BY <1>a
  <2>3. t1 = w2 \o t2
    BY DEF t1
  <2>4. u2 = Append(u1, v2)
    BY <1>13
  <2>5. NextElement(Found(u1, WriteElement(Written("Hash"), v2) \o t2), "Hash")
          = Found(Append(u1, v2), t2)
    BY <2>1, NextBack, Zenon
  <2>6. NextElement(Found(u1, t1), "Hash") = Found(u2, t2)
    BY <2>2, <2>3, <2>4, <2>5, Zenon
  <2>7. q[2] = NextElement(q[1], "Hash") /\ q[1] = Found(u1, t1)
    BY <1>12, <1>16 DEF HeaderReads
  <2> QED
    BY <2>6, <2>7, Zenon
<1>18. q[3] = Found(u3, t3)
  <2>1. "Hash" \in Kinds /\ v3 \in Domain("Hash") /\ t3 \in Seq(Byte)
    BY <1>0, <1>2, <1>9
  <2>2. w3 = WriteElement(Written("Hash"), v3)
    BY <1>a
  <2>3. t2 = w3 \o t3
    BY DEF t2
  <2>4. u3 = Append(u2, v3)
    BY <1>13
  <2>5. NextElement(Found(u2, WriteElement(Written("Hash"), v3) \o t3), "Hash")
          = Found(Append(u2, v3), t3)
    BY <2>1, NextBack, Zenon
  <2>6. NextElement(Found(u2, t2), "Hash") = Found(u3, t3)
    BY <2>2, <2>3, <2>4, <2>5, Zenon
  <2>7. q[3] = NextElement(q[2], "Hash") /\ q[2] = Found(u2, t2)
    BY <1>12, <1>17 DEF HeaderReads
  <2> QED
    BY <2>6, <2>7, Zenon
<1>19. q[4] = Found(u4, t4)
  <2>1. "uint32Time" \in Kinds /\ v4 \in Domain("uint32Time") /\ t4 \in Seq(Byte)
    BY <1>0, <1>2, <1>8
  <2>2. w4 = WriteElement(Written("uint32Time"), v4)
    BY <1>a
  <2>3. t3 = w4 \o t4
    BY DEF t3
  <2>4. u4 = Append(u3, v4)
    BY <1>14
  <2>5. NextElement(Found(u3, WriteElement(Written("uint32Time"), v4) \o t4), "uint32Time")
          = Found(Append(u3, v4), t4)
    BY <2>1, NextBack, Zenon
  <2>6. NextElement(Found(u3, t3), "uint32Time") = Found(u4, t4)
    BY <2>2, <2>3, <2>4, <2>5, Zenon
  <2>7. q[4] = NextElement(q[3], "uint32Time") /\ q[3] = Found(u3, t3)
    BY <1>12, <1>18 DEF HeaderReads
  <2> QED
    BY <2>6, <2>7, Zenon
<1>20. q[5] = Found(u5, t5)
  <2>1. "uint32" \in Kinds /\ v5 \in Domain("uint32") /\ t5 \in Seq(Byte)
    BY <1>0, <1>2, <1>7
  <2>2. w5 = WriteElement(Written("uint32"), v5)
    BY <1>a
  <2>3. t4 = w5 \o t5
    BY DEF t4
  <2>4. u5 = Append(u4, v5)
    BY <1>13
  <2>5. NextElement(Found(u4, WriteElement(Written("uint32"), v5) \o t5), "uint32")
          = Found(Append(u4, v5), t5)
    BY <2>1, NextBack, Zenon
  <2>6. NextElement(Found(u4, t4), "uint32") = Found(u5, t5)
    BY <2>2, <2>3, <2>4, <2>5, Zenon
  <2>7. q[5] = NextElement(q[4], "uint32") /\ q[4] = Found(u4, t4)
    BY <1>12, <1>19 DEF HeaderReads
  <2> QED
    BY <2>6, <2>7, Zenon
<1>21. q[6] = Found(u6, <<>>)
  <2>1. "uint32" \in Kinds /\ v6 \in Domain("uint32") /\ <<>> \in Seq(Byte)
    BY <1>0, <1>2, <1>7
  <2>2. w6 = WriteElement(Written("uint32"), v6)
    BY <1>a
  <2>3. t5 = w6 \o <<>>
    BY DEF t5
  <2>4. u6 = Append(u5, v6)
    BY <1>15
  <2>5. NextElement(Found(u5, WriteElement(Written("uint32"), v6) \o <<>>), "uint32")
          = Found(Append(u5, v6), <<>>)
    BY <2>1, NextBack, Zenon
  <2>6. NextElement(Found(u5, t5), "uint32") = Found(u6, <<>>)
    BY <2>2, <2>3, <2>4, <2>5, Zenon
  <2>7. q[6] = NextElement(q[5], "uint32") /\ q[5] = Found(u5, t5)
    BY <1>12, <1>20 DEF HeaderReads
  <2> QED
    BY <2>6, <2>7, Zenon
<1> QED
  BY <1>4, <1>12, <1>21 DEF u6, HeaderReadBack

\* Short streams are sequences of bytes.
LEMMA StreamsAreBytes ==
  ASSUME NEW n \in Nat, NEW s \in Streams(n)
  PROVE  s \in Seq(Byte)
<1>1. PICK k \in 0 .. n : s \in [1 .. k -> Byte]
  BY DEF Streams
<1> QED
  BY <1>1

\* The round trips of the primitives hold whatever the size of a byte and of a
\* hash is.
LEMMA Primitives == VarIntEdges /\ VarIntStreams /\ HeaderEdges
<1>1. VarIntEdges
  <2> SUFFICES ASSUME NEW v \in Edges
               PROVE  /\ Len(WriteVarInt(v)) = VarIntSerializeSize(v)
                      /\ \A t \in Streams(1) : ReadVarInt(WriteVarInt(v) \o t) = Found(v, t)
    BY DEF VarIntEdges
  <2>1. v \in Unsigneds(8)
    <3> DEFINE half == Power(4) \div 2
    <3>1. PICK x \in {1, Base - 3, Power(2), half, Power(4)} : v \in {x - 1, x, x + 1}
      BY DEF Edges
    <3>2. /\ Base \in Nat /\ Base >= 6 /\ Power(2) \in Nat /\ Power(4) \in Nat /\ Power(8) \in Nat
          /\ Base < Power(2) /\ Power(2) < Power(4) /\ Power(4) + 2 < Power(8)
      BY WireAssumption, PowerValues, Powers
    <3>3. half \in Nat /\ half >= 1 /\ half <= Power(4)
      BY <3>2
    <3> HIDE DEF half
    <3>4. x \in Nat /\ x >= 1 /\ x <= Power(4)
      BY <3>2, <3>3
    <3>5. v \in Nat /\ v <= Power(4) + 1
      BY <3>1, <3>2, <3>4
    <3> QED
      BY <3>2, <3>5 DEF Unsigneds
  <2>2. ASSUME NEW t \in Streams(1) PROVE t \in Seq(Byte)
    <3>1. 1 \in Nat
      OBVIOUS
    <3> QED
      BY <3>1, StreamsAreBytes
  <2> QED
    BY <2>1, <2>2, VarIntWritten, VarIntBack
<1>2. VarIntStreams
  <2> SUFFICES ASSUME NEW s \in Streams(5) PROVE VarIntFirst(s)
    BY DEF VarIntStreams
  <2>1. s \in Seq(Byte)
    <3>1. 5 \in Nat
      OBVIOUS
    <3> QED
      BY <3>1, StreamsAreBytes
  <2> QED
    BY <2>1, VarIntExact DEF VarIntFirst
<1>3. HeaderEdges
  <2> DEFINE half == Power(4) \div 2
             hash == [i \in 1 .. HashSize |-> Base - 1]
             zero == [i \in 1 .. HashSize |-> 0]
  <2> SUFFICES ASSUME NEW version \in {-half, -1, 0, half - 1}, NEW time \in {0, half, Power(4) - 1}
               PROVE  LET bh == <<version, hash, zero, time, 1, Power(4) - 1>>
                      IN  readBlockHeader(writeBlockHeader(bh)) = Found(bh, <<>>)
    BY DEF HeaderEdges
  <2>1. /\ Base \in Nat /\ Base >= 6 /\ Power(4) \in Nat /\ Base < Power(2) /\ Power(2) < Power(4)
        /\ Power(2) \in Nat
    BY WireAssumption, PowerValues, Powers
  <2>2. half \in Nat /\ half >= 1 /\ half <= Power(4) - 1
    BY <2>1
  <2>3. version \in Ints(4)
    <3> HIDE DEF half
    <3>1. version \in Int /\ -half <= version /\ version <= half - 1
      BY <2>2
    <3> QED
      BY <3>1, <2>2 DEF Ints, half
  <2>4. time \in Unsigneds(4) /\ 1 \in Unsigneds(4) /\ Power(4) - 1 \in Unsigneds(4)
    <3> HIDE DEF half
    <3> QED
      BY <2>1, <2>2 DEF Unsigneds
  <2>5. hash \in [1 .. HashSize -> Byte] /\ zero \in [1 .. HashSize -> Byte]
    BY <2>1 DEF Byte
  <2> DEFINE max == Power(4) - 1
             one == 1
  <2>6. max \in Unsigneds(4) /\ one \in Unsigneds(4)
    BY <2>4
  <2> HIDE DEF half, hash, zero, max, one
  <2>7. readBlockHeader(writeBlockHeader(<<version, hash, zero, time, one, max>>))
          = Found(<<version, hash, zero, time, one, max>>, <<>>)
    <3>1. HeaderReadBack(version, hash, zero, time, one, max)
      BY <2>3, <2>4, <2>5, <2>6, HeaderBack
    <3> QED
      BY <3>1 DEF HeaderReadBack
  <2> QED
    BY <2>7 DEF one, max
<1> QED
  BY <1>1, <1>2, <1>3
-------------------------------------------------------------------------------
(* The decoders of transactions and their free list.                       *)

\* The points at which BtcDecode reads.
Reading == {"idle", "txIn", "txOut", "witness"}

\* The local state.
Locals == {"pc", "job", "in", "flag", "count", "at", "input", "msg", "refs", "todo", "held",
           "total", "scripts", "lent"}

\* What the references of a decoder are, at each point of BtcDecode.
Filed(s) ==
  /\ s.pc \in PCs
  /\ DOMAIN s.refs \subseteq Slot /\ s.todo \subseteq DOMAIN s.refs
  /\ s.held \in IF s.pc = "return" THEN Bufs ELSE {Nil}
  /\ s.pc \in Reading => \A p \in DOMAIN s.refs : s.refs[p].buf \in Bufs
  /\ s.pc \in {"copy", "return", "done"} =>
       \A p \in DOMAIN s.refs : s.refs[p].buf \in IF p \in s.todo THEN Bufs ELSE {Contiguous}
  /\ s.pc = "unwind" => \A p \in s.todo : s.refs[p].buf \in Bufs
  /\ s.pc = "copy" => s.todo # {}
  /\ s.pc \in {"done", "error"} => s.todo = {}

\* Which scripts have been read so far: the next one is a new one.
Reached(s) ==
  /\ s.at \in Nat /\ s.input \in Nat
  /\ s.pc = "idle" => DOMAIN s.refs = {}
  /\ s.pc = "txIn" => \A p \in DOMAIN s.refs : p[1] = "in" /\ p[2] <= s.at /\ p[3] = 0
  /\ s.pc = "txOut" =>
       \A p \in DOMAIN s.refs : p[3] = 0 /\ (p[1] = "out" => p[2] <= s.at)
  /\ s.pc = "witness" =>
       \A p \in DOMAIN s.refs :
         p[1] = "in" => p[3] = 0 \/ p[2] < s.input \/ (p[2] = s.input /\ p[3] <= s.at)

\* What BtcDecode has borrowed and not returned.
Counted(d) == IsFiniteSet(Places(d)) /\ dec[d].lent = Cardinality(Places(d))

BufferInv ==
  /\ pool \in Seq(Bufs)
  /\ DOMAIN dec = Decoders
  /\ \A d \in Decoders : DOMAIN dec[d] = Locals /\ Filed(dec[d]) /\ Reached(dec[d])
  /\ NoAliasing
  /\ \A d \in Decoders : Counted(d)

\* The slot that is visited first is one of them.
LEMMA FirstSlot ==
  ASSUME NEW S, S \subseteq Slot, S # {}
  PROVE  First(S) \in S
<1> DEFINE Side == IF \E p \in S : p[1] = "in" THEN "in" ELSE "out"
           Here == {p \in S : p[1] = Side}
<1>1. Here # {} /\ Here \subseteq Slot /\ \A p \in S \ Here : p[1] = "out" /\ Side = "in"
  BY DEF Slot
<1> HIDE DEF Side
<1>2. PICK i \in Nat : (\E p \in Here : p[2] = i) /\ \A p \in Here : i <= p[2]
  <2>1. {p[2] : p \in Here} \subseteq Nat /\ {p[2] : p \in Here} # {}
    BY <1>1 DEF Slot
  <2> QED
    BY <2>1, Least, ZenonT(60)
<1> DEFINE There == {p \in Here : p[2] = i}
<1>3. PICK j \in Nat : (\E p \in There : p[3] = j) /\ \A p \in There : j <= p[3]
  <2>1. {p[3] : p \in There} \subseteq Nat /\ {p[3] : p \in There} # {}
    BY <1>1, <1>2 DEF Slot
  <2>2. \E m \in {p[3] : p \in There} : \A k \in {p[3] : p \in There} : m <= k
    BY <2>1, Least
  <2> QED
    BY <2>1, <2>2
<1>4. PICK p \in There : p[3] = j
  BY <1>3
<1>5. ASSUME NEW q \in S \ {p} PROVE Before(p, q)
  <2>1. CASE q \notin Here
    BY <1>1, <1>4, <2>1 DEF Before
  <2>2. CASE q \in Here /\ q \notin There
    BY <1>1, <1>2, <1>4, <2>2 DEF Before, Slot
  <2>3. CASE q \in There
    <3>1. q[1] = p[1] /\ q[2] = p[2] /\ p[3] <= q[3]
      BY <1>3, <1>4, <2>3
    <3>2. q = <<q[1], q[2], q[3]>> /\ p = <<p[1], p[2], p[3]>> /\ p[3] \in Nat /\ q[3] \in Nat
      BY <1>1, <1>4, <2>3 DEF Slot
    <3> QED
      BY <1>5, <3>1, <3>2 DEF Before
  <2> QED
    BY <2>1, <2>2, <2>3
<1> QED
  BY <1>4, <1>5 DEF First

-------------------------------------------------------------------------------
(* The free list.                                                          *)

LEMMA BufNumbers == Nil \notin Bufs /\ Contiguous \notin Bufs /\ Nil # Contiguous
BY MsgTxAssumption DEF Nil, Contiguous, Bufs

\* The buffers that the decoders have.
Lent == UNION {{Buffer(d, p) : p \in Places(d)} : d \in Decoders}

LEMMA Pools ==
  ASSUME NEW p \in Seq(Bufs), IsInjective(p)
  PROVE  /\ ToSet(p) = {p[i] : i \in 1 .. Len(p)}
         /\ p # <<>> =>
              /\ Head(p) \in ToSet(p) /\ Head(p) \in Bufs
              /\ Tail(p) \in Seq(Bufs) /\ IsInjective(Tail(p))
              /\ ToSet(Tail(p)) \subseteq ToSet(p) \ {Head(p)}
         /\ \A b \in Bufs \ ToSet(p) :
              /\ Append(p, b) \in Seq(Bufs) /\ IsInjective(Append(p, b))
              /\ ToSet(Append(p, b)) = ToSet(p) \cup {b}
<1>1. DOMAIN p = 1 .. Len(p) /\ Len(p) \in Nat
  OBVIOUS
<1>2. ToSet(p) = {p[i] : i \in 1 .. Len(p)}
  BY DEF ToSet
<1>3. ASSUME p # <<>>
      PROVE /\ Head(p) \in ToSet(p) /\ Head(p) \in Bufs
            /\ Tail(p) \in Seq(Bufs) /\ IsInjective(Tail(p))
            /\ ToSet(Tail(p)) \subseteq ToSet(p) \ {Head(p)}
  <2>1. Len(p) > 0 /\ Head(p) = p[1]
    BY <1>3
  <2>2. /\ Tail(p) \in Seq(Bufs) /\ DOMAIN Tail(p) = 1 .. Len(p) - 1
        /\ \A i \in 1 .. Len(p) - 1 : Tail(p)[i] = p[i + 1]
    BY <1>3
  <2>3. IsInjective(Tail(p))
    BY <1>1, <2>1, <2>2 DEF IsInjective
  <2>4. ToSet(Tail(p)) = {p[i + 1] : i \in 1 .. Len(p) - 1}
    BY <2>2 DEF ToSet
  <2>5. ToSet(Tail(p)) \subseteq ToSet(p) \ {Head(p)}
    BY <1>1, <1>2, <2>1, <2>4 DEF IsInjective
  <2> QED
    BY <1>1, <1>2, <2>1, <2>2, <2>3, <2>5
<1>4. ASSUME NEW b \in Bufs \ ToSet(p)
      PROVE  /\ Append(p, b) \in Seq(Bufs) /\ IsInjective(Append(p, b))
             /\ ToSet(Append(p, b)) = ToSet(p) \cup {b}
  <2>1. /\ Append(p, b) \in Seq(Bufs) /\ DOMAIN Append(p, b) = 1 .. Len(p) + 1
        /\ \A i \in 1 .. Len(p) : Append(p, b)[i] = p[i]
        /\ Append(p, b)[Len(p) + 1] = b
    OBVIOUS
  <2>2. IsInjective(Append(p, b))
    BY <1>1, <1>2, <2>1 DEF IsInjective
  <2>3. ToSet(Append(p, b)) = {Append(p, b)[i] : i \in 1 .. Len(p) + 1}
    BY <2>1 DEF ToSet
  <2>4. ToSet(Append(p, b)) = ToSet(p) \cup {b}
    BY <1>1, <1>2, <2>1, <2>3
  <2> QED
    BY <2>1, <2>2, <2>4
<1> QED
  BY <1>2, <1>3, <1>4

\* Borrow lends a buffer that nobody has.
LEMMA BorrowFree ==
  ASSUME pool \in Seq(Bufs), NoAliasing, Unused # {}, NEW size,
         NEW b, b = Borrow(size)
  PROVE  /\ b.buf \in Bufs \ Lent /\ b.buf \notin ToSet(b.pool)
         /\ b.pool \in Seq(Bufs) /\ IsInjective(b.pool) /\ ToSet(b.pool) \subseteq ToSet(pool)
<1>1. Fresh \in Bufs /\ Fresh \notin Lent /\ Fresh \notin ToSet(pool)
  BY DEF Fresh, Unused, Lent
<1>2. IsInjective(pool) /\ Lent \cap ToSet(pool) = {}
  BY DEF NoAliasing, Lent
<1>3. CASE size > FreeListMaxScriptSize \/ pool = <<>>
  <2>1. b.buf = Fresh /\ b.pool = pool
    BY <1>3 DEF Borrow
  <2> QED
    BY <1>1, <1>2, <2>1
<1>4. CASE ~(size > FreeListMaxScriptSize) /\ pool # <<>>
  <2>1. b.buf = Head(pool) /\ b.pool = Tail(pool)
    BY <1>4 DEF Borrow
  <2>2. /\ Head(pool) \in ToSet(pool) /\ Head(pool) \in Bufs
        /\ Tail(pool) \in Seq(Bufs) /\ IsInjective(Tail(pool))
        /\ ToSet(Tail(pool)) \subseteq ToSet(pool) \ {Head(pool)}
    BY <1>2, <1>4, Pools
  <2> QED
    BY <1>2, <2>1, <2>2
<1> QED
  BY <1>3, <1>4

LEMMA ReturnPool ==
  ASSUME NEW p \in Seq(Bufs), IsInjective(p), NEW b \in Bufs \ ToSet(p), NEW cap
  PROVE  /\ Return(p, b, cap) \in Seq(Bufs) /\ IsInjective(Return(p, b, cap))
         /\ ToSet(Return(p, b, cap)) \subseteq ToSet(p) \cup {b}
BY Pools DEF Return

\* A script that was read is in a buffer that nobody had, and if it was not read
\* nobody has the buffer.
GotScript(script) ==
  /\ script.ok /\ script.lent = 1
  /\ script.ref.buf \in Bufs \ Lent /\ script.ref.buf \notin ToSet(script.pool)

GotNone(script) ==
  /\ ~script.ok /\ script.lent = 0 /\ script.ref.buf = Nil

PoolKept(p) == p \in Seq(Bufs) /\ IsInjective(p) /\ ToSet(p) \cap Lent = {}

LEMMA ScriptRead ==
  ASSUME pool \in Seq(Bufs), NoAliasing, Unused # {}, NEW in, NEW max,
         NEW script, script = readScript(in, max) \/ script = NoScript
  PROVE  PoolKept(script.pool) /\ (GotScript(script) \/ GotNone(script))
<1>1. IsInjective(pool) /\ Lent \cap ToSet(pool) = {}
  BY DEF NoAliasing, Lent
<1>2. CASE script = NoScript
  BY <1>1, <1>2 DEF NoScript, NilRef, PoolKept, GotNone
<1>3. CASE script # NoScript
  <2> DEFINE count == ReadVarInt(in)
             b == Borrow(count.val)
             r == ReadFull(count.rest, count.val)
  <2>1. script = FillScript(b, count, r)
    BY <1>3 DEF readScript
  <2> HIDE DEF count, r
  <2>2. /\ b.buf \in Bufs \ Lent /\ b.buf \notin ToSet(b.pool)
        /\ b.pool \in Seq(Bufs) /\ IsInjective(b.pool) /\ ToSet(b.pool) \subseteq ToSet(pool)
    BY BorrowFree
  <2> HIDE DEF b
  <2>3. CASE r.ok
    <3>1. script.ok /\ script.lent = 1 /\ script.ref.buf = b.buf /\ script.pool = b.pool
      BY <2>1, <2>3 DEF FillScript
    <3> QED
      BY <1>1, <2>2, <3>1 DEF GotScript, PoolKept
  <2>4. CASE ~r.ok
    <3>1. /\ ~script.ok /\ script.lent = 0 /\ script.ref.buf = Nil
          /\ script.pool = Return(b.pool, b.buf, b.cap)
      BY <2>1, <2>4 DEF FillScript, NoScript, NilRef
    <3>2. /\ script.pool \in Seq(Bufs) /\ IsInjective(script.pool)
          /\ ToSet(script.pool) \subseteq ToSet(b.pool) \cup {b.buf}
      BY <2>2, <3>1, ReturnPool
    <3> QED
      BY <1>1, <2>2, <3>1, <3>2 DEF GotNone, PoolKept
  <2> QED
    BY <2>3, <2>4
<1> QED
  BY <1>2, <1>3

\* A step of one decoder.
Alone(d) == DOMAIN dec' = DOMAIN dec /\ \A e \in Decoders \ {d} : dec'[e] = dec[e]

LEMMA Others ==
  ASSUME NEW d, Alone(d), NEW e \in Decoders \ {d}
  PROVE  Places(e)' = Places(e) /\ \A p : Buffer(e, p)' = Buffer(e, p)
BY DEF Alone, Places, Buffer

\* No aliasing after a step of d, if its buffers are its own or were nobody's,
\* and the pool has none that is lent.
LEMMA Aliasing ==
  ASSUME NoAliasing, NEW d \in Decoders, Alone(d), IsInjective(pool'),
         \A p \in Places(d)' :
           /\ Buffer(d, p)' \notin ToSet(pool')
           /\ \/ \E q \in Places(d) : Buffer(d, q) = Buffer(d, p)'
              \/ Buffer(d, p)' \notin Lent
           /\ \A q \in Places(d)' : Buffer(d, q)' = Buffer(d, p)' => q = p,
         \A e \in Decoders \ {d} : \A q \in Places(e) : Buffer(e, q) \notin ToSet(pool')
  PROVE  NoAliasing'
<1>1. ASSUME NEW c \in Decoders, NEW p \in Places(c)'
      PROVE  /\ Buffer(c, p)' \notin ToSet(pool')
             /\ \A e \in Decoders : \A q \in Places(e)' :
                  Buffer(e, q)' = Buffer(c, p)' => e = c /\ q = p
  <2>1. \A e \in Decoders \ {d} :
          Places(e)' = Places(e) /\ \A q : Buffer(e, q)' = Buffer(e, q)
    BY Others, Zenon
  <2>2. \A e \in Decoders \ {d} : \A q \in Places(e) : \A x \in Places(d)' :
          Buffer(e, q) # Buffer(d, x)'
    <3> SUFFICES ASSUME NEW e \in Decoders \ {d}, NEW q \in Places(e), NEW x \in Places(d)',
                        Buffer(e, q) = Buffer(d, x)'
                 PROVE  FALSE
      OBVIOUS
    <3>1. Buffer(e, q) \in Lent
      BY DEF Lent
    <3>2. PICK y \in Places(d) : Buffer(d, y) = Buffer(d, x)'
      BY <3>1
    <3> QED
      BY <3>2 DEF NoAliasing
  <2>3. ASSUME NEW e \in Decoders, NEW q \in Places(e)', Buffer(e, q)' = Buffer(c, p)'
        PROVE  e = c /\ q = p
    <3>1. CASE c = d /\ e = d
      BY <2>3, <3>1
    <3>2. CASE c = d /\ e # d
      BY <2>1, <2>2, <2>3, <3>2
    <3>3. CASE c # d /\ e = d
      BY <2>1, <2>2, <2>3, <3>3
    <3>4. CASE c # d /\ e # d
      <4>1. /\ p \in Places(c) /\ Buffer(c, p)' = Buffer(c, p)
            /\ q \in Places(e) /\ Buffer(e, q)' = Buffer(e, q)
        BY <2>1, <3>4
      <4> QED
        BY <2>3, <4>1 DEF NoAliasing
    <3> QED
      BY <3>1, <3>2, <3>3, <3>4
  <2>4. Buffer(c, p)' \notin ToSet(pool')
    <3>1. CASE c = d
      BY <3>1
    <3>2. CASE c # d
      BY <2>1, <3>2
    <3> QED
      BY <3>1, <3>2
  <2> QED
    BY <2>3, <2>4
<1> QED
  BY <1>1 DEF NoAliasing

\* A step of d keeps the invariant if it does so for what is d's.
LEMMA Local ==
  ASSUME BufferInv, NEW d \in Decoders, Alone(d), pool' \in Seq(Bufs),
         DOMAIN dec'[d] = Locals, Filed(dec'[d]), Reached(dec'[d]), Counted(d)', NoAliasing'
  PROVE  BufferInv'
<1>1. ASSUME NEW e \in Decoders
      PROVE  DOMAIN dec'[e] = Locals /\ Filed(dec'[e]) /\ Reached(dec'[e])
  BY DEF BufferInv, Alone
<1>2. ASSUME NEW e \in Decoders PROVE Counted(e)'
  <2>1. CASE e = d
    BY <2>1
  <2>2. CASE e # d
    BY <2>2, Others DEF BufferInv, Counted, Alone
  <2> QED
    BY <2>1, <2>2
<1> QED
  BY <1>1, <1>2 DEF BufferInv, Alone, Locals

\* A step of d that borrows and returns nothing.
LEMMA Quiet ==
  ASSUME BufferInv, NEW d \in Decoders, Alone(d), pool' = pool,
         DOMAIN dec'[d] = Locals, Filed(dec'[d]), Reached(dec'[d]),
         dec'[d].lent = dec[d].lent, Places(d)' = Places(d),
         \A p \in Places(d) : Buffer(d, p)' = Buffer(d, p)
  PROVE  BufferInv'
<1>1. pool' \in Seq(Bufs) /\ IsInjective(pool')
  BY DEF BufferInv, NoAliasing
<1>2. NoAliasing'
  <2>1. ASSUME NEW p \in Places(d)'
        PROVE  /\ Buffer(d, p)' \notin ToSet(pool')
               /\ \E q \in Places(d) : Buffer(d, q) = Buffer(d, p)'
               /\ \A q \in Places(d)' : Buffer(d, q)' = Buffer(d, p)' => q = p
    BY DEF BufferInv, NoAliasing
  <2>2. \A e \in Decoders \ {d} : \A q \in Places(e) : Buffer(e, q) \notin ToSet(pool')
    BY DEF BufferInv, NoAliasing
  <2> QED
    BY <1>1, <2>1, <2>2, Aliasing DEF BufferInv
<1>3. Counted(d)'
  BY DEF BufferInv, Counted
<1> QED
  BY <1>1, <1>2, <1>3, Local

\* A step of d that gives the buffer at p back.
LEMMA Given ==
  ASSUME BufferInv, NEW d \in Decoders, Alone(d), NEW p \in Places(d), NEW cap,
         pool' = Return(pool, Buffer(d, p), cap),
         DOMAIN dec'[d] = Locals, Filed(dec'[d]), Reached(dec'[d]),
         dec'[d].lent = dec[d].lent - 1, Places(d)' = Places(d) \ {p},
         \A q \in Places(d) \ {p} : Buffer(d, q)' = Buffer(d, q)
  PROVE  BufferInv'
<1>1. /\ IsInjective(pool) /\ pool \in Seq(Bufs)
      /\ Buffer(d, p) \in Bufs \ ToSet(pool)
  BY DEF BufferInv, NoAliasing, Places
<1>2. /\ pool' \in Seq(Bufs) /\ IsInjective(pool')
      /\ ToSet(pool') \subseteq ToSet(pool) \cup {Buffer(d, p)}
  BY <1>1, ReturnPool
<1>3. NoAliasing'
  <2>1. ASSUME NEW q \in Places(d)'
        PROVE  /\ Buffer(d, q)' \notin ToSet(pool')
               /\ \E r \in Places(d) : Buffer(d, r) = Buffer(d, q)'
               /\ \A r \in Places(d)' : Buffer(d, r)' = Buffer(d, q)' => r = q
    BY <1>2 DEF BufferInv, NoAliasing
  <2>2. \A e \in Decoders \ {d} : \A q \in Places(e) : Buffer(e, q) \notin ToSet(pool')
    BY <1>2 DEF BufferInv, NoAliasing
  <2> QED
    BY <1>2, <2>1, <2>2, Aliasing DEF BufferInv
<1>4. Counted(d)'
  BY FS_RemoveElement DEF BufferInv, Counted
<1> QED
  BY <1>2, <1>3, <1>4, Local

\* Places and Buffer, of the state of a decoder.
At(s, place) == IF place = Temporary THEN s.held ELSE s.refs[place].buf
Own(s) ==
  LET slots == IF s.pc \in {"unwind", "error"} THEN s.todo ELSE DOMAIN s.refs
  IN  {p \in slots \cup {Temporary} : At(s, p) \in Bufs}

LEMMA OwnPlaces ==
  ASSUME NEW d
  PROVE  /\ Places(d) = Own(dec[d]) /\ \A p : Buffer(d, p) = At(dec[d], p)
         /\ Places(d)' = Own(dec'[d]) /\ \A p : Buffer(d, p)' = At(dec'[d], p)
BY DEF Places, Own, Buffer, At

LEMMA OwnAt ==
  ASSUME NEW s, Filed(s)
  PROVE  /\ s.pc \in Reading => Own(s) = DOMAIN s.refs
         /\ s.pc \in {"copy", "done", "unwind", "error"} => Own(s) = s.todo
         /\ s.pc = "return" => Own(s) = s.todo \cup {Temporary}
         /\ Temporary \notin DOMAIN s.refs
         /\ \A p \in DOMAIN s.refs : At(s, p) = s.refs[p].buf
         /\ At(s, Temporary) = s.held
<1>1. Temporary \notin Slot
  BY DEF Temporary, Slot
<1>2. Temporary \notin DOMAIN s.refs
  BY <1>1 DEF Filed
<1>3. \A p \in DOMAIN s.refs : At(s, p) = s.refs[p].buf
  BY <1>2 DEF At
<1>4. At(s, Temporary) = s.held
  BY DEF At
<1>5. s.pc # "return" => s.held \notin Bufs
  BY BufNumbers DEF Filed
<1>6. ASSUME s.pc \in Reading PROVE Own(s) = DOMAIN s.refs
  BY <1>2, <1>3, <1>4, <1>5, <1>6 DEF Own, Filed, Reading
<1>7. ASSUME s.pc \in {"copy", "done", "return"}
      PROVE  Own(s) = s.todo \cup IF s.pc = "return" THEN {Temporary} ELSE {}
  <2>1. \A p \in DOMAIN s.refs : At(s, p) \in Bufs <=> p \in s.todo
    BY <1>3, <1>7, BufNumbers DEF Filed
  <2>2. s.todo \subseteq DOMAIN s.refs
    BY DEF Filed
  <2>3. At(s, Temporary) \in Bufs <=> s.pc = "return"
    BY <1>4, <1>5 DEF Filed
  <2>4. Own(s) = {p \in DOMAIN s.refs \cup {Temporary} : At(s, p) \in Bufs}
    BY <1>7 DEF Own
  <2> QED
    BY <1>7, <2>1, <2>2, <2>3, <2>4
<1>8. ASSUME s.pc \in {"unwind", "error"} PROVE Own(s) = s.todo
  BY <1>2, <1>3, <1>4, <1>5, <1>8 DEF Own, Filed
<1> QED
  BY <1>2, <1>3, <1>4, <1>6, <1>7, <1>8

\* returnScriptBuffers begins with the buffers that the message has.
LEMMA Unwinding ==
  ASSUME NEW s, DOMAIN s = Locals, Filed(s), s.pc \in Reading, s.at \in Nat, s.input \in Nat
  PROVE  /\ DOMAIN Unwound(s) = Locals /\ Filed(Unwound(s)) /\ Reached(Unwound(s))
         /\ Unwound(s).lent = s.lent
         /\ Own(Unwound(s)) = Own(s)
         /\ \A p : At(Unwound(s), p) = At(s, p)
<1> DEFINE n == Unwound(s)
<1>1. /\ n.pc = "unwind" /\ n.todo = {p \in DOMAIN s.refs : s.refs[p].buf # Nil}
      /\ n.refs = s.refs /\ n.held = s.held /\ n.lent = s.lent
      /\ n.at = s.at /\ n.input = s.input
      /\ DOMAIN n = Locals
  BY DEF Unwound, Locals
<1>2. n.todo = DOMAIN s.refs
  BY <1>1, BufNumbers DEF Filed
<1> HIDE DEF n
<1>3. Filed(n)
  BY <1>1, <1>2 DEF Filed, PCs, Reading
<1>4. Reached(n)
  BY <1>1 DEF Reached
<1>5. Own(n) = Own(s)
  BY <1>1, <1>2, <1>3, OwnAt
<1>6. \A p : At(n, p) = At(s, p)
  BY <1>1 DEF At
<1> QED
  BY <1>1, <1>3, <1>4, <1>5, <1>6 DEF n

\* Steps that only read.
LEMMA Calm ==
  ASSUME BufferInv, NEW d \in Decoders, NEW n, dec' = [dec EXCEPT ![d] = n], pool' = pool,
         DOMAIN n = Locals, Filed(n), Reached(n), n.lent = dec[d].lent,
         Own(n) = Own(dec[d]), \A p \in Own(n) : At(n, p) = At(dec[d], p)
  PROVE  BufferInv'
<1>1. Alone(d) /\ dec'[d] = n
  BY DEF BufferInv, Alone
<1> QED
  BY <1>1, Quiet, OwnPlaces

LEMMA DecodeStep ==
  ASSUME BufferInv, NEW d \in Decoders, Decode(d)
  PROVE  BufferInv'
<1> USE DEF Locals
<1>1. PICK n : /\ dec' = [dec EXCEPT ![d] = n] /\ pool' = pool
               /\ n.pc \in {"txIn", "error"} /\ n.refs = <<>> /\ n.todo = {} /\ n.held = Nil
               /\ n.at = 0 /\ n.input = 0 /\ n.lent = 0
               /\ DOMAIN n = Locals
  <2>1. PICK job \in Inputs[d] :
          dec' = [dec EXCEPT ![d] =
             [Idle EXCEPT !.pc = IF ReadHeader(job.bytes, job.enc).ok THEN "txIn" ELSE "error",
                          !.job = job,
                          !.in = ReadHeader(job.bytes, job.enc).rest,
                          !.flag = ReadHeader(job.bytes, job.enc).flag,
                          !.count = ReadHeader(job.bytes, job.enc).count,
                          !.msg.version = ReadHeader(job.bytes, job.enc).version]]
    BY DEF Decode
  <2> DEFINE h == ReadHeader(job.bytes, job.enc)
             m == [Idle EXCEPT !.pc = IF h.ok THEN "txIn" ELSE "error",
                          !.job = job, !.in = h.rest, !.flag = h.flag,
                          !.count = h.count, !.msg.version = h.version]
  <2>2. dec' = [dec EXCEPT ![d] = m] /\ pool' = pool
    BY <2>1 DEF Decode
  <2> HIDE DEF h
  <2>3. /\ m.pc \in {"txIn", "error"} /\ m.refs = <<>> /\ m.todo = {} /\ m.held = Nil
        /\ m.at = 0 /\ m.input = 0 /\ m.lent = 0
        /\ DOMAIN m = Locals
    BY DEF Idle
  <2> QED
    BY <2>2, <2>3, ZenonT(60)
<1>2. DOMAIN n.refs = {}
  BY <1>1
<1>3. Filed(n) /\ Reached(n)
  BY <1>1, <1>2 DEF Filed, Reached, PCs, Reading
<1>4. dec[d].pc = "idle" /\ Filed(dec[d]) /\ Reached(dec[d]) /\ Counted(d)
  BY DEF BufferInv, Decode
<1>5. Own(dec[d]) = {} /\ Own(n) = {}
  BY <1>1, <1>2, <1>3, <1>4, OwnAt DEF Reading, Reached
<1>6. dec[d].lent = 0
  BY <1>4, <1>5, OwnPlaces, FS_EmptySet DEF Counted
<1> QED
  BY <1>1, <1>3, <1>5, <1>6, Calm

LEMMA CountStep ==
  ASSUME BufferInv, NEW d \in Decoders, ReadTxOutCount(d) \/ ReadWitnessCount(d)
  PROVE  BufferInv'
<1> DEFINE s == dec[d]
<1>1. DOMAIN s = Locals /\ Filed(s) /\ Reached(s)
  BY DEF BufferInv
<1>2. s.pc \in Reading
  BY DEF ReadTxOutCount, ReadWitnessCount, Reading
<1>3. PICK n : /\ dec' = [dec EXCEPT ![d] = n] /\ pool' = pool
               /\ \/ n = Unwound(s)
                  \/ /\ n.pc \in {"txOut", "witness"} /\ n.at = 0
                     /\ n.input = IF n.pc = "txOut" THEN s.input ELSE s.input + 1
                     /\ s.pc \in IF n.pc = "txOut" THEN {"txIn"} ELSE {"txOut", "witness"}
                     /\ n.refs = s.refs /\ n.todo = s.todo /\ n.held = s.held
                     /\ n.lent = s.lent /\ DOMAIN n = Locals
  <2> DEFINE count == ReadVarInt(s.in)
  <2>1. CASE ReadTxOutCount(d)
    <3> DEFINE out == [s EXCEPT !.pc = "txOut", !.count = count.val, !.at = 0,
                                !.in = count.rest]
               n == IF count.ok /\ count.val <= MaxTxOutPerMessage THEN out ELSE Unwound(s)
    <3>1. dec' = [dec EXCEPT ![d] = n] /\ pool' = pool /\ s.pc = "txIn"
      BY <2>1 DEF ReadTxOutCount
    <3>2. /\ out.pc = "txOut" /\ out.at = 0 /\ out.input = s.input
          /\ out.refs = s.refs /\ out.todo = s.todo /\ out.held = s.held
          /\ out.lent = s.lent /\ DOMAIN out = Locals
      BY <1>1 DEF Locals
    <3> HIDE DEF out, s, count
    <3> QED
      BY <3>1, <3>2
  <2>2. CASE ReadWitnessCount(d)
    <3> DEFINE wit == [s EXCEPT !.pc = "witness", !.input = @ + 1,
                                !.count = count.val, !.at = 0, !.in = count.rest]
               n == IF count.ok /\ count.val <= MaxWitnessItemsPerInput THEN wit ELSE Unwound(s)
    <3>1. dec' = [dec EXCEPT ![d] = n] /\ pool' = pool /\ s.pc \in {"txOut", "witness"}
      BY <2>2 DEF ReadWitnessCount
    <3>2. /\ wit.pc = "witness" /\ wit.at = 0 /\ wit.input = s.input + 1
          /\ wit.refs = s.refs /\ wit.todo = s.todo /\ wit.held = s.held
          /\ wit.lent = s.lent /\ DOMAIN wit = Locals
      BY <1>1 DEF Locals
    <3> HIDE DEF wit, s, count
    <3> QED
      BY <3>1, <3>2
  <2> QED
    BY <2>1, <2>2
<1> HIDE DEF s
<1>4. CASE n = Unwound(s)
  BY <1>1, <1>2, <1>3, <1>4, Unwinding, Calm DEF Reached, s
<1>5. CASE n # Unwound(s)
  <2>1. Filed(n)
    BY <1>1, <1>3, <1>5 DEF Filed, PCs, Reading
  <2>2. Reached(n)
    <3>1. CASE n.pc = "txOut"
      BY <1>1, <1>3, <1>5, <3>1 DEF Reached
    <3>2. CASE n.pc = "witness"
      BY <1>1, <1>3, <1>5, <3>2 DEF Reached, Filed, Slot
    <3> QED
      BY <1>3, <1>5, <3>1, <3>2
  <2>3. Own(n) = Own(s)
    BY <1>1, <1>2, <1>3, <1>5, <2>1, OwnAt DEF Reading
  <2>4. \A p \in Own(n) : At(n, p) = At(s, p)
    BY <1>3, <1>5 DEF At
  <2> QED
    BY <1>3, <1>5, <2>1, <2>2, <2>3, <2>4, Calm DEF s
<1> QED
  BY <1>4, <1>5

LEMMA ReadLockTimeStep ==
  ASSUME BufferInv, NEW d \in Decoders, ReadLockTime(d)
  PROVE  BufferInv'
<1> DEFINE s == dec[d]
<1>1. DOMAIN s = Locals /\ Filed(s) /\ Reached(s)
  BY DEF BufferInv
<1>2. s.pc \in Reading
  BY DEF ReadLockTime, Reading
<1>3. PICK n : /\ dec' = [dec EXCEPT ![d] = n] /\ pool' = pool
               /\ \/ n = Unwound(s)
                  \/ /\ n.pc = IF DOMAIN s.refs = {} THEN "done" ELSE "copy"
                     /\ n.at = s.at /\ n.input = s.input
                     /\ n.refs = s.refs /\ n.todo = DOMAIN s.refs /\ n.held = s.held
                     /\ n.lent = s.lent /\ DOMAIN n = Locals
  <2> DEFINE lockTime == Uint(s.in, 4)
             read == [s EXCEPT !.pc = IF DOMAIN s.refs = {} THEN "done" ELSE "copy",
                               !.todo = DOMAIN s.refs,
                               !.in = lockTime.rest,
                               !.msg.lockTime = lockTime.val]
             n == IF lockTime.ok THEN read ELSE Unwound(s)
  <2>1. dec' = [dec EXCEPT ![d] = n] /\ pool' = pool
    BY DEF ReadLockTime
  <2>2. /\ read.pc = IF DOMAIN s.refs = {} THEN "done" ELSE "copy"
        /\ read.at = s.at /\ read.input = s.input
        /\ read.refs = s.refs /\ read.todo = DOMAIN s.refs /\ read.held = s.held
        /\ read.lent = s.lent /\ DOMAIN read = Locals
    BY <1>1 DEF Locals
  <2> HIDE DEF read, s, lockTime
  <2> QED
    BY <2>1, <2>2
<1> HIDE DEF s
<1>4. CASE n = Unwound(s)
  BY <1>1, <1>2, <1>3, <1>4, Unwinding, Calm DEF Reached, s
<1>5. CASE n # Unwound(s)
  <2>1. Filed(n)
    BY <1>1, <1>2, <1>3, <1>5 DEF Filed, PCs, Reading
  <2>2. Reached(n)
    BY <1>1, <1>3, <1>5 DEF Reached
  <2>3. Own(n) = Own(s)
    BY <1>1, <1>2, <1>3, <1>5, <2>1, OwnAt DEF Reading
  <2>4. \A p \in Own(n) : At(n, p) = At(s, p)
    BY <1>3, <1>5 DEF At
  <2> QED
    BY <1>3, <1>5, <2>1, <2>2, <2>3, <2>4, Calm DEF s
<1> QED
  BY <1>4, <1>5

LEMMA UnwindEndStep ==
  ASSUME BufferInv, NEW d \in Decoders, UnwindEnd(d)
  PROVE  BufferInv'
<1> DEFINE s == dec[d]
           n == [s EXCEPT !.pc = "error"]
<1>1. /\ DOMAIN s = Locals /\ Filed(s) /\ Reached(s) /\ s.pc = "unwind" /\ s.todo = {}
      /\ dec' = [dec EXCEPT ![d] = n] /\ pool' = pool
  BY DEF BufferInv, UnwindEnd
<1>2. /\ n.pc = "error" /\ n.at = s.at /\ n.input = s.input /\ n.refs = s.refs
      /\ n.todo = s.todo /\ n.held = s.held /\ n.lent = s.lent /\ DOMAIN n = Locals
  BY <1>1 DEF Locals
<1> HIDE DEF s, n
<1>3. Filed(n)
  BY <1>1, <1>2 DEF Filed, PCs, Reading
<1>4. Reached(n)
  BY <1>1, <1>2 DEF Reached
<1>5. Own(n) = {} /\ Own(s) = {}
  BY <1>1, <1>2, <1>3, OwnAt
<1> QED
  BY <1>1, <1>2, <1>3, <1>4, <1>5, Calm DEF s

\* A buffer moves from the message to the copier.
LEMMA CopyScriptStep ==
  ASSUME BufferInv, NEW d \in Decoders, CopyScript(d)
  PROVE  BufferInv'
<1> DEFINE s == dec[d]
           slot == First(s.todo)
           ref == s.refs[slot]
           n == [s EXCEPT !.pc = "return",
                     !.held = ref.buf,
                     !.todo = @ \ {slot},
                     !.scripts = @ \o SubSeq(mem[ref.buf].data, 1, ref.len),
                     !.refs[slot] =
                       [buf |-> Contiguous, off |-> Len(s.scripts), len |-> ref.len]]
<1>1. /\ DOMAIN s = Locals /\ Filed(s) /\ Reached(s) /\ s.pc = "copy"
      /\ dec' = [dec EXCEPT ![d] = n] /\ pool' = pool /\ NoAliasing /\ Counted(d)
  BY DEF BufferInv, CopyScript
<1>2. slot \in s.todo /\ s.todo \subseteq DOMAIN s.refs /\ ref.buf \in Bufs
  BY <1>1, FirstSlot DEF Filed
<1>3. /\ n.pc = "return" /\ n.at = s.at /\ n.input = s.input
      /\ n.todo = s.todo \ {slot} /\ n.held = ref.buf /\ n.lent = s.lent
      /\ DOMAIN n = Locals /\ DOMAIN n.refs = DOMAIN s.refs
      /\ n.refs[slot].buf = Contiguous
      /\ \A p \in DOMAIN s.refs \ {slot} : n.refs[p] = s.refs[p]
  BY <1>1, <1>2 DEF Locals
<1>4. Alone(d) /\ dec'[d] = n
  BY <1>1 DEF BufferInv, Alone
<1> HIDE DEF s, n, slot
<1>5. Filed(n)
  BY <1>1, <1>2, <1>3 DEF Filed, PCs, Reading
<1>6. Reached(n)
  BY <1>1, <1>3 DEF Reached
<1>7. /\ Own(s) = s.todo /\ Own(n) = (s.todo \ {slot}) \cup {Temporary}
      /\ Temporary \notin s.todo
      /\ At(n, Temporary) = ref.buf /\ At(s, slot) = ref.buf
      /\ \A p \in s.todo \ {slot} : At(n, p) = At(s, p)
  BY <1>1, <1>2, <1>3, <1>5, OwnAt
<1>8. /\ Places(d) = s.todo /\ Places(d)' = (s.todo \ {slot}) \cup {Temporary}
      /\ Buffer(d, Temporary)' = Buffer(d, slot)
      /\ \A p \in s.todo \ {slot} : Buffer(d, p)' = Buffer(d, p)
  BY <1>4, <1>7, OwnPlaces DEF s
<1>9. NoAliasing'
  <2>1. IsInjective(pool')
    BY <1>1 DEF NoAliasing
  <2>2. ASSUME NEW p \in Places(d)'
        PROVE  /\ Buffer(d, p)' \notin ToSet(pool')
               /\ \E q \in Places(d) : Buffer(d, q) = Buffer(d, p)'
               /\ \A q \in Places(d)' : Buffer(d, q)' = Buffer(d, p)' => q = p
    BY <1>1, <1>2, <1>8 DEF NoAliasing
  <2>3. \A e \in Decoders \ {d} : \A q \in Places(e) : Buffer(e, q) \notin ToSet(pool')
    BY <1>1 DEF NoAliasing
  <2> QED
    BY <1>1, <1>4, <2>1, <2>2, <2>3, Aliasing
<1>10. Counted(d)'
  <2>1. IsFiniteSet(s.todo) /\ s.lent = Cardinality(s.todo)
    BY <1>1, <1>8 DEF Counted, s
  <2>2. IsFiniteSet(s.todo \ {slot}) /\ Cardinality(s.todo \ {slot}) = Cardinality(s.todo) - 1
    BY <1>2, <2>1, FS_RemoveElement
  <2>3. /\ IsFiniteSet((s.todo \ {slot}) \cup {Temporary})
        /\ Cardinality((s.todo \ {slot}) \cup {Temporary}) = Cardinality(s.todo \ {slot}) + 1
    BY <1>7, <2>2, FS_AddElement
  <2>4. Cardinality(s.todo) \in Nat
    BY <2>1, FS_CardinalityType
  <2> QED
    BY <1>3, <1>4, <1>8, <2>1, <2>2, <2>3, <2>4 DEF Counted
<1> QED
  BY <1>1, <1>3, <1>4, <1>5, <1>6, <1>9, <1>10, Local DEF BufferInv

LEMMA ReturnScriptStep ==
  ASSUME BufferInv, NEW d \in Decoders, ReturnScript(d)
  PROVE  BufferInv'
<1> DEFINE s == dec[d]
           n == [s EXCEPT !.pc = IF s.todo = {} THEN "done" ELSE "copy",
                          !.held = Nil, !.lent = @ - 1]
           cap == mem[s.held].cap
<1>1. /\ DOMAIN s = Locals /\ Filed(s) /\ Reached(s) /\ s.pc = "return"
      /\ dec' = [dec EXCEPT ![d] = n] /\ pool' = Return(pool, s.held, cap)
  BY DEF BufferInv, ReturnScript
<1>2. /\ n.pc = IF s.todo = {} THEN "done" ELSE "copy"
      /\ n.at = s.at /\ n.input = s.input /\ n.refs = s.refs
      /\ n.todo = s.todo /\ n.held = Nil /\ n.lent = s.lent - 1 /\ DOMAIN n = Locals
  BY <1>1 DEF Locals
<1>3. Alone(d) /\ dec'[d] = n
  BY <1>1 DEF BufferInv, Alone
<1> HIDE DEF s, n, cap
<1>4. Filed(n)
  BY <1>1, <1>2 DEF Filed, PCs, Reading
<1>5. Reached(n)
  BY <1>1, <1>2 DEF Reached
<1>6. /\ Own(s) = s.todo \cup {Temporary} /\ Own(n) = s.todo
      /\ Temporary \notin s.todo /\ At(s, Temporary) = s.held
      /\ \A p \in s.todo : At(n, p) = At(s, p)
  <2>1. s.todo \subseteq DOMAIN s.refs
    BY <1>1 DEF Filed
  <2> QED
    BY <1>1, <1>2, <1>4, <2>1, OwnAt
<1>7. /\ Temporary \in Places(d) /\ Places(d)' = Places(d) \ {Temporary}
      /\ Buffer(d, Temporary) = s.held
      /\ \A q \in Places(d) \ {Temporary} : Buffer(d, q)' = Buffer(d, q)
  BY <1>3, <1>6, OwnPlaces DEF s
<1> QED
  BY <1>1, <1>2, <1>3, <1>4, <1>5, <1>7, Given DEF s

LEMMA UnwindScriptStep ==
  ASSUME BufferInv, NEW d \in Decoders, UnwindScript(d)
  PROVE  BufferInv'
<1> DEFINE s == dec[d]
           slot == First(s.todo)
           buf == s.refs[slot].buf
           n == [s EXCEPT !.todo = @ \ {slot}, !.lent = @ - 1]
           cap == mem[buf].cap
<1>1. /\ DOMAIN s = Locals /\ Filed(s) /\ Reached(s) /\ s.pc = "unwind" /\ s.todo # {}
      /\ dec' = [dec EXCEPT ![d] = n] /\ pool' = Return(pool, buf, cap)
  BY DEF BufferInv, UnwindScript
<1>2. slot \in s.todo /\ s.todo \subseteq DOMAIN s.refs
  BY <1>1, FirstSlot DEF Filed
<1>3. /\ n.pc = s.pc /\ n.at = s.at /\ n.input = s.input /\ n.refs = s.refs
      /\ n.todo = s.todo \ {slot} /\ n.held = s.held /\ n.lent = s.lent - 1
      /\ DOMAIN n = Locals
  BY <1>1 DEF Locals
<1>4. Alone(d) /\ dec'[d] = n
  BY <1>1 DEF BufferInv, Alone
<1> HIDE DEF s, n, cap, slot
<1>5. Filed(n)
  BY <1>1, <1>3 DEF Filed, PCs, Reading
<1>6. Reached(n)
  BY <1>1, <1>3 DEF Reached
<1>7. /\ Own(s) = s.todo /\ Own(n) = s.todo \ {slot} /\ At(s, slot) = buf
      /\ \A p : At(n, p) = At(s, p)
  <2>1. \A p : At(n, p) = At(s, p)
    BY <1>3 DEF At
  <2> QED
    BY <1>1, <1>2, <1>3, <1>5, <2>1, OwnAt
<1>8. /\ slot \in Places(d) /\ Places(d)' = Places(d) \ {slot}
      /\ Buffer(d, slot) = buf
      /\ \A q \in Places(d) \ {slot} : Buffer(d, q)' = Buffer(d, q)
  BY <1>2, <1>4, <1>7, OwnPlaces DEF s
<1> QED
  BY <1>1, <1>3, <1>4, <1>5, <1>6, <1>8, Given DEF s

\* The state of a decoder with one more script, or one that could not be read.
LEMMA Extending ==
  ASSUME BufferInv, NEW d \in Decoders, dec[d].pc \in Reading,
         NEW slot \in Slot \ DOMAIN dec[d].refs, NEW script,
         PoolKept(script.pool), GotScript(script) \/ GotNone(script), pool' = script.pool,
         NEW m, DOMAIN m = Locals, m.pc = dec[d].pc,
         DOMAIN m.refs = DOMAIN dec[d].refs \cup {slot}, m.refs[slot] = script.ref,
         \A p \in DOMAIN dec[d].refs : m.refs[p] = dec[d].refs[p],
         m.todo = dec[d].todo, m.held = dec[d].held, m.lent = dec[d].lent + script.lent,
         m.at \in Nat, m.input \in Nat,
         NEW n, dec' = [dec EXCEPT ![d] = n],
         n = Unwound(m) \/ (n = m /\ script.ok /\ Reached(m))
  PROVE  BufferInv'
<1> DEFINE s == dec[d]
<1>1. /\ DOMAIN s = Locals /\ Filed(s) /\ Reached(s) /\ NoAliasing /\ Counted(d)
      /\ Alone(d) /\ dec'[d] = n
  BY DEF BufferInv, Alone
<1> HIDE DEF s
<1>2. /\ DOMAIN m.refs = DOMAIN s.refs \cup {slot} /\ m.refs[slot] = script.ref
      /\ \A p \in DOMAIN s.refs : m.refs[p] = s.refs[p]
  BY DEF s
<1>3. Own(s) = DOMAIN s.refs /\ \A p \in DOMAIN s.refs : At(s, p) = s.refs[p].buf /\ At(s, p) \in Bufs
  BY <1>1, OwnAt DEF Filed, s
<1>4. Own(s) = Places(d) /\ \A p : Buffer(d, p) = At(s, p)
  BY OwnPlaces DEF s
<1>5. CASE script.ok
  <2>1. /\ script.lent = 1 /\ script.ref.buf \in Bufs \ Lent
        /\ script.ref.buf \notin ToSet(script.pool)
    BY <1>5 DEF GotScript, GotNone
  <2>2. Filed(m)
    BY <1>1, <1>2, <2>1 DEF Filed, Reading, s
  <2>3. /\ DOMAIN n = Locals /\ Filed(n) /\ Reached(n) /\ n.lent = m.lent
        /\ Own(n) = Own(m) /\ \A p : At(n, p) = At(m, p)
    BY <2>2, Unwinding
  <2>4. /\ Own(m) = DOMAIN s.refs \cup {slot}
        /\ At(m, slot) = script.ref.buf
        /\ \A p \in DOMAIN s.refs : At(m, p) = At(s, p)
    <3>1. Own(m) = DOMAIN m.refs /\ \A p \in DOMAIN m.refs : At(m, p) = m.refs[p].buf
      BY <2>2, OwnAt
    <3> QED
      BY <1>2, <1>3, <3>1
  <2>5. /\ Places(d)' = Places(d) \cup {slot} /\ slot \notin Places(d)
        /\ Buffer(d, slot)' = script.ref.buf
        /\ \A p \in Places(d) : Buffer(d, p)' = Buffer(d, p)
    <3>1. Places(d)' = Own(n) /\ \A p : Buffer(d, p)' = At(n, p)
      BY <1>1, OwnPlaces
    <3>2. slot \notin DOMAIN s.refs
      BY DEF s
    <3> QED
      BY <1>3, <1>4, <2>3, <2>4, <3>1, <3>2
  <2>6. NoAliasing'
    <3>1. IsInjective(pool') /\ ToSet(pool') \cap Lent = {}
      BY DEF PoolKept
    <3>2. \A e \in Decoders : \A p \in Places(e) : Buffer(e, p) \in Lent
      BY DEF Lent
    <3>3. ASSUME NEW p \in Places(d)'
          PROVE  /\ Buffer(d, p)' \notin ToSet(pool')
                 /\ \/ \E q \in Places(d) : Buffer(d, q) = Buffer(d, p)'
                    \/ Buffer(d, p)' \notin Lent
                 /\ \A q \in Places(d)' : Buffer(d, q)' = Buffer(d, p)' => q = p
      <4>1. CASE p = slot
        BY <2>1, <2>5, <3>2, <4>1
      <4>2. CASE p \in Places(d)
        BY <1>1, <2>1, <2>5, <3>1, <3>2, <4>2 DEF NoAliasing
      <4> QED
        BY <2>5, <4>1, <4>2
    <3>4. \A e \in Decoders \ {d} : \A q \in Places(e) : Buffer(e, q) \notin ToSet(pool')
      BY <3>1, <3>2
    <3> QED
      BY <1>1, <3>1, <3>3, <3>4, Aliasing
  <2>7. Counted(d)'
    <3>1. IsFiniteSet(Places(d)) /\ s.lent = Cardinality(Places(d))
      BY <1>1 DEF Counted, s
    <3>2. IsFiniteSet(Places(d)') /\ Cardinality(Places(d)') = Cardinality(Places(d)) + 1
      BY <2>5, <3>1, FS_AddElement
    <3>3. dec'[d].lent = s.lent + 1
      BY <1>1, <2>1, <2>3 DEF s
    <3> QED
      BY <3>1, <3>2, <3>3 DEF Counted
  <2> QED
    BY <1>1, <2>3, <2>6, <2>7, Local DEF PoolKept
<1>6. CASE ~script.ok
  <2>1. script.lent = 0 /\ script.ref.buf = Nil /\ n = Unwound(m)
    BY <1>6 DEF GotScript, GotNone
  <2>2. /\ n.pc = "unwind" /\ n.refs = m.refs /\ n.held = m.held /\ n.lent = m.lent
        /\ n.todo = {p \in DOMAIN m.refs : m.refs[p].buf # Nil}
        /\ n.at = m.at /\ n.input = m.input /\ DOMAIN n = Locals
    BY <2>1 DEF Unwound, Locals
  <2>3. n.todo = DOMAIN s.refs
    BY <1>1, <1>2, <1>3, <2>1, <2>2, BufNumbers DEF s
  <2>4. Filed(n)
    <3>1. DOMAIN n.refs \subseteq Slot /\ n.todo \subseteq DOMAIN n.refs
      BY <1>1, <1>2, <2>2, <2>3 DEF Filed
    <3>2. n.held = Nil
      BY <1>1, <2>2 DEF Filed, Reading, s
    <3>3. \A p \in n.todo : n.refs[p].buf \in Bufs
      BY <1>2, <1>3, <2>2, <2>3
    <3> QED
      BY <2>2, <3>1, <3>2, <3>3 DEF Filed, PCs, Reading
  <2>5. Reached(n)
    BY <2>2 DEF Reached
  <2>6. Own(n) = Own(s) /\ \A p \in Own(s) : At(n, p) = At(s, p)
    <3>1. Own(n) = n.todo /\ \A p \in DOMAIN n.refs : At(n, p) = n.refs[p].buf
      BY <2>2, <2>4, OwnAt
    <3> QED
      BY <1>2, <1>3, <2>2, <2>3, <3>1
  <2>7. Places(d)' = Places(d) /\ \A p \in Places(d) : Buffer(d, p)' = Buffer(d, p)
    BY <1>1, <1>4, <2>6, OwnPlaces
  <2>8. NoAliasing'
    <3>1. IsInjective(pool') /\ ToSet(pool') \cap Lent = {}
      BY DEF PoolKept
    <3>2. \A e \in Decoders : \A p \in Places(e) : Buffer(e, p) \in Lent
      BY DEF Lent
    <3>3. ASSUME NEW p \in Places(d)'
          PROVE  /\ Buffer(d, p)' \notin ToSet(pool')
                 /\ \E q \in Places(d) : Buffer(d, q) = Buffer(d, p)'
                 /\ \A q \in Places(d)' : Buffer(d, q)' = Buffer(d, p)' => q = p
      BY <1>1, <2>7, <3>1, <3>2 DEF NoAliasing
    <3>4. \A e \in Decoders \ {d} : \A q \in Places(e) : Buffer(e, q) \notin ToSet(pool')
      BY <3>1, <3>2
    <3> QED
      BY <1>1, <3>1, <3>3, <3>4, Aliasing
  <2>9. Counted(d)'
    <3>1. IsFiniteSet(Places(d)) /\ s.lent = Cardinality(Places(d)) /\ n.lent = s.lent + 0
      BY <1>1, <2>1, <2>2 DEF Counted, s
    <3>2. Cardinality(Places(d)) \in Nat
      BY <3>1, FS_CardinalityType
    <3> QED
      BY <1>1, <2>7, <3>1, <3>2 DEF Counted
  <2> QED
    BY <1>1, <2>2, <2>4, <2>5, <2>8, <2>9, Local DEF PoolKept
<1> QED
  BY <1>5, <1>6

\* The three readers of scripts.
LEMMA DecodeTxInStep ==
  ASSUME BufferInv, NEW d \in Decoders, DecodeTxIn(d)
  PROVE  BufferInv'
<1> DEFINE s == dec[d]
           r == readTxIn(s.in)
           slot == <<"in", s.at + 1, 0>>
           m == [Extended(s, slot, r.script, r.rest) EXCEPT !.msg.txIn = Append(@, r.ti)]
           n == IF r.ok THEN m ELSE Unwound(m)
<1>1. /\ DOMAIN s = Locals /\ Filed(s) /\ Reached(s) /\ s.pc = "txIn" /\ Unused # {}
      /\ dec' = [dec EXCEPT ![d] = n] /\ pool' = r.script.pool
  BY DEF BufferInv, DecodeTxIn
<1>2. r.ok => r.script.ok
  BY DEF readTxIn
<1>3. PoolKept(r.script.pool) /\ (GotScript(r.script) \/ GotNone(r.script))
  <2> DEFINE op == readOutPoint(s.in)
  <2>1. r.script = IF op.ok THEN readScript(op.rest, MaxMessagePayload) ELSE NoScript
    BY DEF readTxIn
  <2> HIDE DEF r, op
  <2> QED
    BY <1>1, <2>1, ScriptRead DEF BufferInv
<1> HIDE DEF r
<1>4. /\ DOMAIN m = Locals /\ m.pc = s.pc
      /\ DOMAIN m.refs = DOMAIN s.refs \cup {slot} /\ m.refs[slot] = r.script.ref
      /\ \A p \in DOMAIN s.refs \ {slot} : m.refs[p] = s.refs[p]
      /\ m.todo = s.todo /\ m.held = s.held /\ m.lent = s.lent + r.script.lent
      /\ m.at = s.at + 1 /\ m.input = s.input
  BY <1>1 DEF Extended, Locals
<1> HIDE DEF m, s
<1>5. slot \in Slot \ DOMAIN s.refs
  BY <1>1 DEF Reached, Filed, Slot
<1>6. Reached(m)
  BY <1>1, <1>4 DEF Reached, Filed, Slot
<1>7. /\ m.at \in Nat /\ m.input \in Nat /\ s.pc \in Reading
      /\ \A p \in DOMAIN s.refs : m.refs[p] = s.refs[p]
  BY <1>1, <1>4, <1>5, <1>6 DEF Reached, Reading
<1>8. n = Unwound(m) \/ (n = m /\ r.script.ok /\ Reached(m))
  BY <1>2, <1>6
<1> HIDE DEF slot, n
<1> QED
  BY <1>1, <1>3, <1>4, <1>5, <1>7, <1>8, Extending DEF s

LEMMA DecodeTxOutStep ==
  ASSUME BufferInv, NEW d \in Decoders, DecodeTxOut(d)
  PROVE  BufferInv'
<1> DEFINE s == dec[d]
           r == readTxOut(s.in)
           slot == <<"out", s.at + 1, 0>>
           m == [Extended(s, slot, r.script, r.rest) EXCEPT !.msg.txOut = Append(@, r.to)]
           n == IF r.ok THEN m ELSE Unwound(m)
<1>1. /\ DOMAIN s = Locals /\ Filed(s) /\ Reached(s) /\ s.pc = "txOut" /\ Unused # {}
      /\ dec' = [dec EXCEPT ![d] = n] /\ pool' = r.script.pool
  BY DEF BufferInv, DecodeTxOut
<1>2. r.ok => r.script.ok
  BY DEF readTxOut
<1>3. PoolKept(r.script.pool) /\ (GotScript(r.script) \/ GotNone(r.script))
  <2> DEFINE value == ReadElement(s.in, "int64")
  <2>1. r.script = IF value.ok THEN readScript(value.rest, MaxMessagePayload) ELSE NoScript
    BY DEF readTxOut
  <2> HIDE DEF r, value
  <2> QED
    BY <1>1, <2>1, ScriptRead DEF BufferInv
<1> HIDE DEF r
<1>4. /\ DOMAIN m = Locals /\ m.pc = s.pc
      /\ DOMAIN m.refs = DOMAIN s.refs \cup {slot} /\ m.refs[slot] = r.script.ref
      /\ \A p \in DOMAIN s.refs \ {slot} : m.refs[p] = s.refs[p]
      /\ m.todo = s.todo /\ m.held = s.held /\ m.lent = s.lent + r.script.lent
      /\ m.at = s.at + 1 /\ m.input = s.input
  BY <1>1 DEF Extended, Locals
<1> HIDE DEF m, s
<1>5. slot \in Slot \ DOMAIN s.refs
  BY <1>1 DEF Reached, Filed, Slot
<1>6. Reached(m)
  BY <1>1, <1>4 DEF Reached, Filed, Slot
<1>7. /\ m.at \in Nat /\ m.input \in Nat /\ s.pc \in Reading
      /\ \A p \in DOMAIN s.refs : m.refs[p] = s.refs[p]
  BY <1>1, <1>4, <1>5, <1>6 DEF Reached, Reading
<1>8. n = Unwound(m) \/ (n = m /\ r.script.ok /\ Reached(m))
  BY <1>2, <1>6
<1> HIDE DEF slot, n
<1> QED
  BY <1>1, <1>3, <1>4, <1>5, <1>7, <1>8, Extending DEF s

LEMMA ReadWitnessItemStep ==
  ASSUME BufferInv, NEW d \in Decoders, ReadWitnessItem(d)
  PROVE  BufferInv'
<1> DEFINE s == dec[d]
           item == readScript(s.in, MaxWitnessItemSize)
           slot == <<"in", s.input, s.at + 1>>
           m == Extended(s, slot, item, item.rest)
           n == IF item.ok THEN m ELSE Unwound(m)
<1>1. /\ DOMAIN s = Locals /\ Filed(s) /\ Reached(s) /\ s.pc = "witness" /\ Unused # {}
      /\ dec' = [dec EXCEPT ![d] = n] /\ pool' = item.pool
  BY DEF BufferInv, ReadWitnessItem
<1>2. PoolKept(item.pool) /\ (GotScript(item) \/ GotNone(item))
  BY <1>1, ScriptRead DEF BufferInv
<1> HIDE DEF item
<1>3. /\ DOMAIN m = Locals /\ m.pc = s.pc
      /\ DOMAIN m.refs = DOMAIN s.refs \cup {slot} /\ m.refs[slot] = item.ref
      /\ \A p \in DOMAIN s.refs \ {slot} : m.refs[p] = s.refs[p]
      /\ m.todo = s.todo /\ m.held = s.held /\ m.lent = s.lent + item.lent
      /\ m.at = s.at + 1 /\ m.input = s.input
  BY <1>1 DEF Extended, Locals
<1> HIDE DEF m, s
<1>4. slot \in Slot \ DOMAIN s.refs
  BY <1>1 DEF Reached, Filed, Slot
<1>5. Reached(m)
  BY <1>1, <1>3 DEF Reached, Filed, Slot
<1>6. /\ m.at \in Nat /\ m.input \in Nat /\ s.pc \in Reading
      /\ \A p \in DOMAIN s.refs : m.refs[p] = s.refs[p]
  BY <1>1, <1>3, <1>4, <1>5 DEF Reached, Reading
<1>7. n = Unwound(m) \/ (n = m /\ item.ok /\ Reached(m))
  BY <1>5
<1> HIDE DEF slot, n
<1> QED
  BY <1>1, <1>2, <1>3, <1>4, <1>6, <1>7, Extending DEF s

LEMMA BufferInvInit == Init => BufferInv
<1> SUFFICES ASSUME Init PROVE BufferInv
  OBVIOUS
<1>1. pool = <<>> /\ pool \in Seq(Bufs) /\ DOMAIN dec = Decoders
  BY DEF Init
<1>2. ASSUME NEW d \in Decoders
      PROVE  DOMAIN dec[d] = Locals /\ Filed(dec[d]) /\ Reached(dec[d]) /\ Own(dec[d]) = {}
             /\ dec[d].lent = 0
  <2>1. /\ DOMAIN dec[d] = Locals /\ dec[d].pc = "idle" /\ dec[d].refs = <<>>
        /\ dec[d].todo = {} /\ dec[d].held = Nil /\ dec[d].at = 0 /\ dec[d].input = 0
        /\ dec[d].lent = 0
    BY DEF Init, Idle, Locals
  <2>2. DOMAIN dec[d].refs = {}
    BY <2>1
  <2>3. Filed(dec[d]) /\ Reached(dec[d])
    BY <2>1, <2>2 DEF Filed, Reached, PCs, Reading
  <2> QED
    BY <2>1, <2>2, <2>3, OwnAt DEF Reading
<1>3. \A d \in Decoders : Places(d) = {}
  BY <1>2, OwnPlaces
<1>4. NoAliasing
  BY <1>1, <1>3 DEF NoAliasing, IsInjective
<1>5. \A d \in Decoders : Counted(d)
  BY <1>2, <1>3, FS_EmptySet DEF Counted
<1> QED
  BY <1>1, <1>2, <1>4, <1>5 DEF BufferInv

LEMMA BufferInvStep == BufferInv /\ [Next]_vars => BufferInv'
<1> SUFFICES ASSUME BufferInv, [Next]_vars PROVE BufferInv'
  OBVIOUS
<1>1. CASE UNCHANGED vars
  BY <1>1 DEF vars, BufferInv, NoAliasing, Counted, Places, Buffer
<1>2. CASE Next
  <2>1. PICK d \in Decoders :
          \/ Decode(d) \/ DecodeTxIn(d) \/ ReadTxOutCount(d) \/ DecodeTxOut(d)
          \/ ReadWitnessCount(d) \/ ReadWitnessItem(d) \/ ReadLockTime(d) \/ CopyScript(d)
          \/ ReturnScript(d) \/ UnwindScript(d) \/ UnwindEnd(d)
    BY <1>2 DEF Next
  <2> QED
    BY <2>1, DecodeStep, DecodeTxInStep, CountStep, DecodeTxOutStep, ReadWitnessItemStep,
       ReadLockTimeStep, CopyScriptStep, ReturnScriptStep, UnwindScriptStep, UnwindEndStep
<1> QED
  BY <1>1, <1>2

(***************************************************************************)
(* For every number of decoders, every size of the free list, every        *)
(* message and every way in which BtcDecode fails: no script buffer is in  *)
(* use twice.                                                              *)
(***************************************************************************)
THEOREM NoAliasingCorrect == Spec => []NoAliasing
<1>1. BufferInv => NoAliasing
  BY DEF BufferInv
<1> QED
  BY <1>1, BufferInvInit, BufferInvStep, PTL DEF Spec

(***************************************************************************)
(* And BtcDecode has returned every buffer that it borrowed, each of them  *)
(* once, when it ends.                                                     *)
(***************************************************************************)
THEOREM BuffersReturnedCorrect == Spec => []BuffersReturned
<1>1. BufferInv => BuffersReturned
  <2> SUFFICES ASSUME BufferInv, NEW d \in Decoders
               PROVE  /\ dec[d].lent = Cardinality(Places(d))
                      /\ dec[d].pc \in {"done", "error"} => Places(d) = {}
    BY DEF BuffersReturned
  <2>1. Counted(d) /\ Filed(dec[d])
    BY DEF BufferInv
  <2>2. dec[d].pc \in {"done", "error"} => Own(dec[d]) = {}
    BY <2>1, OwnAt DEF Filed
  <2> QED
    BY <2>1, <2>2, OwnPlaces DEF Counted
<1> QED
  BY <1>1, BufferInvInit, BufferInvStep, PTL DEF Spec

-------------------------------------------------------------------------------
(* What the decoders read.                                                 *)

\* A decoder reads bytes, and what it reads are the bytes that it was given.
StreamInv ==
  \A d \in Decoders : dec[d].in \in Seq(Byte) /\ dec[d].job.bytes \in Seq(Byte)

\* The end of a stream.
LEMMA NoBytes == <<>> \in Seq(Byte)
OBVIOUS

\* What a reader leaves of a stream of bytes are bytes: a script,
LEMMA ScriptRest ==
  ASSUME NEW s \in Seq(Byte), NEW max, NEW script, script = readScript(s, max) \/ script = NoScript
  PROVE  script.rest \in Seq(Byte)
<1>1. CASE script = NoScript
  BY <1>1, NoBytes DEF NoScript
<1>2. CASE script # NoScript
  <2> DEFINE count == ReadVarInt(s)
             b == Borrow(count.val)
             r == ReadFull(count.rest, count.val)
  <2>1. script = FillScript(b, count, r) /\ count.ok
    BY <1>2 DEF readScript
  <2>2. count.ok => count.val \in Unsigneds(8)
    BY VarIntExact
  <2>3. count.rest \in Seq(Byte)
    BY VarIntExact
  <2>4. count.val \in Nat
    BY <2>1, <2>2, VarIntWritten
  <2> HIDE DEF count
  <2>5. r.rest \in Seq(Byte)
    BY <2>3, <2>4, ReadFullExact
  <2> HIDE DEF r, b
  <2> QED
    BY <2>1, <2>5, NoBytes DEF FillScript, NoScript
<1> QED
  BY <1>1, <1>2

\* So does an input,
LEMMA TxInRest ==
  ASSUME NEW s \in Seq(Byte)
  PROVE  readTxIn(s).rest \in Seq(Byte)
<1> DEFINE r == readTxIn(s)
           op == readOutPoint(s)
           script == IF op.ok THEN readScript(op.rest, MaxMessagePayload) ELSE NoScript
           sequence == ReadElement(script.rest, "uint32")
<1>1. r.rest = sequence.rest
  BY DEF readTxIn
<1>2. op.rest \in Seq(Byte)
  <2> DEFINE hash  == ReadFull(s, HashSize)
             index == Uint(hash.rest, 4)
  <2>1. op.rest = index.rest \/ op.rest = <<>>
    BY DEF readOutPoint
  <2>2. hash.rest \in Seq(Byte)
    BY ReadFullExact, WireAssumption
  <2> HIDE DEF hash
  <2>3. index.rest \in Seq(Byte)
    BY <2>2, UintExact
  <2> HIDE DEF index
  <2> QED
    BY <2>1, <2>3, NoBytes
<1> HIDE DEF op
<1>3. script.rest \in Seq(Byte)
  BY <1>2, ScriptRest
<1> HIDE DEF script
<1>4. sequence.rest \in Seq(Byte)
  <2>1. "uint32" \in Kinds
    BY DEF Kinds
  <2> QED
    BY <1>3, <2>1, ElementExact
<1> QED
  BY <1>1, <1>4

\* a value (readElement of an int64),
LEMMA Int64Read ==
  ASSUME NEW s
  PROVE  ReadElement(s, "int64")
           = IF ReadFull(s, 8).ok
               THEN Found(Signed(Len(ReadFull(s, 8).val), Value(ReadFull(s, 8).val)), ReadFull(s, 8).rest)
               ELSE Failed
BY DEF ReadElement, ElementSize, Element, ByteArrays

\* an output,
LEMMA TxOutRest ==
  ASSUME NEW s \in Seq(Byte)
  PROVE  readTxOut(s).rest \in Seq(Byte)
<1> DEFINE r == readTxOut(s)
           value == ReadElement(s, "int64")
           script == IF value.ok THEN readScript(value.rest, MaxMessagePayload) ELSE NoScript
<1>1. r.rest = script.rest
  BY DEF readTxOut
<1>2. value.rest \in Seq(Byte)
  <2> DEFINE f == ReadFull(s, 8)
  <2>1. f.rest \in Seq(Byte)
    BY ReadFullExact
  <2>2. value.rest = f.rest \/ value.rest = <<>>
    <3> HIDE DEF f
    <3>1. value = IF f.ok THEN Found(Signed(Len(f.val), Value(f.val)), f.rest) ELSE Failed
      BY Int64Read DEF f
    <3> QED
      BY <3>1 DEF Found, Failed
  <2> QED
    BY <2>1, <2>2, NoBytes
<1> HIDE DEF value
<1>3. script.rest \in Seq(Byte)
  BY <1>2, ScriptRest
<1> QED
  BY <1>1, <1>3

\* and what precedes the inputs.
LEMMA HeaderRest ==
  ASSUME NEW s \in Seq(Byte), NEW enc
  PROVE  ReadHeader(s, enc).rest \in Seq(Byte)
<1> DEFINE h == ReadHeader(s, enc)
           version == Uint(s, 4)
           count == ReadVarInt(version.rest)
           flag == Uint(count.rest, 1)
           second == ReadVarInt(flag.rest)
<1>1. h.rest \in {count.rest, second.rest, <<>>}
  BY DEF ReadHeader
<1>2. version.rest \in Seq(Byte)
  BY UintExact
<1> HIDE DEF version
<1>3. count.rest \in Seq(Byte)
  BY <1>2, VarIntExact
<1> HIDE DEF count
<1>4. flag.rest \in Seq(Byte)
  BY <1>3, UintExact
<1> HIDE DEF flag
<1>5. second.rest \in Seq(Byte)
  BY <1>4, VarIntExact
<1> HIDE DEF second
<1> QED
  BY <1>1, <1>3, <1>5, NoBytes

\* The invariant, initially and step by step.
LEMMA StreamInvInit == Init => StreamInv
<1> SUFFICES ASSUME Init, NEW d \in Decoders
             PROVE  dec[d].in \in Seq(Byte) /\ dec[d].job.bytes \in Seq(Byte)
  BY DEF StreamInv
<1>1. dec[d] = Idle
  BY DEF Init
<1>2. Idle.in = <<>> /\ Idle.job.bytes = <<>>
  BY DEF Idle, NoJob
<1> QED
  BY <1>1, <1>2, NoBytes

\* A step of d that goes on with the stream n.in and the same job.
LEMMA StreamGoesOn ==
  ASSUME BufferInv, StreamInv, NEW d \in Decoders, NEW n, dec' = [dec EXCEPT ![d] = n],
         n.in \in Seq(Byte), n.job.bytes \in Seq(Byte)
  PROVE  StreamInv'
BY DEF BufferInv, StreamInv

\* Unwound keeps the stream and the job.
LEMMA UnwoundStream ==
  ASSUME NEW s, DOMAIN s = Locals
  PROVE  Unwound(s).in = s.in /\ Unwound(s).job = s.job
BY DEF Unwound, Locals

\* Every step keeps it.
LEMMA StreamInvStep == BufferInv /\ StreamInv /\ [Next]_vars => StreamInv'
<1> SUFFICES ASSUME BufferInv, StreamInv, [Next]_vars PROVE StreamInv'
  OBVIOUS
<1>1. CASE UNCHANGED vars
  BY <1>1 DEF vars, StreamInv
<1>2. ASSUME NEW d \in Decoders,
             \/ Decode(d) \/ DecodeTxIn(d) \/ ReadTxOutCount(d) \/ DecodeTxOut(d)
             \/ ReadWitnessCount(d) \/ ReadWitnessItem(d) \/ ReadLockTime(d) \/ CopyScript(d)
             \/ ReturnScript(d) \/ UnwindScript(d) \/ UnwindEnd(d)
      PROVE  StreamInv'
  <2> DEFINE s == dec[d]
  <2>1. DOMAIN s = Locals /\ s.in \in Seq(Byte) /\ s.job.bytes \in Seq(Byte)
    BY DEF BufferInv, StreamInv
  <2>2. CASE Decode(d)
    <3>1. PICK job \in Inputs[d] :
            dec' = [dec EXCEPT ![d] =
               [Idle EXCEPT !.pc = IF ReadHeader(job.bytes, job.enc).ok THEN "txIn" ELSE "error",
                            !.job = job,
                            !.in = ReadHeader(job.bytes, job.enc).rest,
                            !.flag = ReadHeader(job.bytes, job.enc).flag,
                            !.count = ReadHeader(job.bytes, job.enc).count,
                            !.msg.version = ReadHeader(job.bytes, job.enc).version]]
      BY <2>2 DEF Decode
    <3> DEFINE h == ReadHeader(job.bytes, job.enc)
               n == [Idle EXCEPT !.pc = IF h.ok THEN "txIn" ELSE "error",
                            !.job = job, !.in = h.rest, !.flag = h.flag,
                            !.count = h.count, !.msg.version = h.version]
    <3>2. job.bytes \in Seq(Byte)
      BY InputsAssumption
    <3>3. h.rest \in Seq(Byte)
      BY <3>2, HeaderRest
    <3> HIDE DEF h
    <3>4. n.in = h.rest /\ n.job = job
      BY DEF Idle
    <3>5. dec' = [dec EXCEPT ![d] = n]
      BY <3>1 DEF h
    <3> HIDE DEF n
    <3> QED
      BY <3>2, <3>3, <3>4, <3>5, StreamGoesOn
  <2>3. CASE DecodeTxIn(d)
    <3> DEFINE r == readTxIn(s.in)
               m == [Extended(s, <<"in", s.at + 1, 0>>, r.script, r.rest) EXCEPT
                       !.msg.txIn = Append(@, r.ti)]
               n == IF r.ok THEN m ELSE Unwound(m)
    <3>1. dec' = [dec EXCEPT ![d] = n]
      BY <2>3 DEF DecodeTxIn
    <3>2. r.rest \in Seq(Byte)
      BY <2>1, TxInRest
    <3> HIDE DEF r
    <3>3. m.in = r.rest /\ m.job = s.job /\ DOMAIN m = Locals
      BY <2>1 DEF Extended, Locals
    <3> HIDE DEF m, s
    <3>4. n.in = r.rest /\ n.job = s.job
      BY <3>3, UnwoundStream
    <3> HIDE DEF n
    <3> QED
      BY <2>1, <3>1, <3>2, <3>4, StreamGoesOn
  <2>4. CASE DecodeTxOut(d)
    <3> DEFINE r == readTxOut(s.in)
               m == [Extended(s, <<"out", s.at + 1, 0>>, r.script, r.rest) EXCEPT
                       !.msg.txOut = Append(@, r.to)]
               n == IF r.ok THEN m ELSE Unwound(m)
    <3>1. dec' = [dec EXCEPT ![d] = n]
      BY <2>4 DEF DecodeTxOut
    <3>2. r.rest \in Seq(Byte)
      BY <2>1, TxOutRest
    <3> HIDE DEF r
    <3>3. m.in = r.rest /\ m.job = s.job /\ DOMAIN m = Locals
      BY <2>1 DEF Extended, Locals
    <3> HIDE DEF m, s
    <3>4. n.in = r.rest /\ n.job = s.job
      BY <3>3, UnwoundStream
    <3> HIDE DEF n
    <3> QED
      BY <2>1, <3>1, <3>2, <3>4, StreamGoesOn
  <2>5. CASE ReadWitnessItem(d)
    <3> DEFINE r == readScript(s.in, MaxWitnessItemSize)
               m == Extended(s, <<"in", s.input, s.at + 1>>, r, r.rest)
               n == IF r.ok THEN m ELSE Unwound(m)
    <3>1. dec' = [dec EXCEPT ![d] = n]
      BY <2>5 DEF ReadWitnessItem
    <3>2. r.rest \in Seq(Byte)
      BY <2>1, ScriptRest
    <3> HIDE DEF r
    <3>3. m.in = r.rest /\ m.job = s.job /\ DOMAIN m = Locals
      BY <2>1 DEF Extended, Locals
    <3> HIDE DEF m, s
    <3>4. n.in = r.rest /\ n.job = s.job
      BY <3>3, UnwoundStream
    <3> HIDE DEF n
    <3> QED
      BY <2>1, <3>1, <3>2, <3>4, StreamGoesOn
  <2>6. CASE ReadTxOutCount(d) \/ ReadWitnessCount(d)
    <3> DEFINE count == ReadVarInt(s.in)
    <3>1. count.rest \in Seq(Byte)
      BY <2>1, VarIntExact
    <3>2. Unwound(s).in = s.in /\ Unwound(s).job = s.job
      BY <2>1, UnwoundStream
    <3>3. PICK n : /\ dec' = [dec EXCEPT ![d] = n] /\ n.job = s.job /\ n.in \in {s.in, count.rest}
      <4>1. CASE ReadTxOutCount(d)
        <5> DEFINE out == [s EXCEPT !.pc = "txOut", !.count = count.val, !.at = 0,
                                    !.in = count.rest]
                   n == IF count.ok /\ count.val <= MaxTxOutPerMessage THEN out ELSE Unwound(s)
        <5>1. dec' = [dec EXCEPT ![d] = n]
          BY <4>1 DEF ReadTxOutCount
        <5>2. out.in = count.rest /\ out.job = s.job
          BY <2>1 DEF Locals
        <5> HIDE DEF out, s, count
        <5>3. n.job = s.job /\ n.in \in {s.in, count.rest}
          BY <3>2, <5>2
        <5> QED
          BY <5>1, <5>3
      <4>2. CASE ReadWitnessCount(d)
        <5> DEFINE wit == [s EXCEPT !.pc = "witness", !.input = @ + 1,
                                    !.count = count.val, !.at = 0, !.in = count.rest]
                   n == IF count.ok /\ count.val <= MaxWitnessItemsPerInput THEN wit ELSE Unwound(s)
        <5>1. dec' = [dec EXCEPT ![d] = n]
          BY <4>2 DEF ReadWitnessCount
        <5>2. wit.in = count.rest /\ wit.job = s.job
          BY <2>1 DEF Locals
        <5> HIDE DEF wit, s, count
        <5>3. n.job = s.job /\ n.in \in {s.in, count.rest}
          BY <3>2, <5>2
        <5> QED
          BY <5>1, <5>3
      <4> QED
        BY <2>6, <4>1, <4>2
    <3> HIDE DEF count, s
    <3>4. n.in \in Seq(Byte) /\ n.job.bytes \in Seq(Byte)
      BY <2>1, <3>1, <3>3
    <3> QED
      BY <3>3, <3>4, StreamGoesOn
  <2>7. CASE ReadLockTime(d)
    <3> DEFINE lockTime == Uint(s.in, 4)
               m == [s EXCEPT !.pc = IF DOMAIN s.refs = {} THEN "done" ELSE "copy",
                              !.todo = DOMAIN s.refs,
                              !.in = lockTime.rest,
                              !.msg.lockTime = lockTime.val]
               n == IF lockTime.ok THEN m ELSE Unwound(s)
    <3>1. dec' = [dec EXCEPT ![d] = n]
      BY <2>7 DEF ReadLockTime
    <3>2. lockTime.rest \in Seq(Byte)
      BY <2>1, UintExact
    <3>3. Unwound(s).in = s.in /\ Unwound(s).job = s.job
      BY <2>1, UnwoundStream
    <3>4. m.in = lockTime.rest /\ m.job = s.job
      BY <2>1 DEF Locals
    <3> HIDE DEF m, s, lockTime
    <3>5. n.in \in Seq(Byte) /\ n.job = s.job
      BY <2>1, <3>2, <3>3, <3>4
    <3> HIDE DEF n
    <3> QED
      BY <2>1, <3>1, <3>5, StreamGoesOn
  <2>8. CASE CopyScript(d) \/ ReturnScript(d) \/ UnwindScript(d) \/ UnwindEnd(d)
    <3>1. PICK n : dec' = [dec EXCEPT ![d] = n] /\ n.in = s.in /\ n.job = s.job
      <4>1. CASE CopyScript(d)
        <5> DEFINE slot == First(s.todo)
                   ref == s.refs[slot]
                   n == [s EXCEPT !.pc = "return",
                           !.held = ref.buf,
                           !.todo = @ \ {slot},
                           !.scripts = @ \o SubSeq(mem[ref.buf].data, 1, ref.len),
                           !.refs[slot] =
                             [buf |-> Contiguous, off |-> Len(s.scripts), len |-> ref.len]]
        <5>1. dec' = [dec EXCEPT ![d] = n]
          BY <4>1 DEF CopyScript
        <5>2. n.in = s.in /\ n.job = s.job
          BY <2>1 DEF Locals
        <5> HIDE DEF n, s
        <5> QED
          BY <5>1, <5>2
      <4>2. CASE ReturnScript(d)
        <5> DEFINE n == [s EXCEPT !.pc = IF s.todo = {} THEN "done" ELSE "copy",
                                  !.held = Nil, !.lent = @ - 1]
        <5>1. dec' = [dec EXCEPT ![d] = n]
          BY <4>2 DEF ReturnScript
        <5>2. n.in = s.in /\ n.job = s.job
          BY <2>1 DEF Locals
        <5> HIDE DEF n, s
        <5> QED
          BY <5>1, <5>2
      <4>3. CASE UnwindScript(d)
        <5> DEFINE n == [s EXCEPT !.todo = @ \ {First(s.todo)}, !.lent = @ - 1]
        <5>1. dec' = [dec EXCEPT ![d] = n]
          BY <4>3 DEF UnwindScript
        <5>2. n.in = s.in /\ n.job = s.job
          BY <2>1 DEF Locals
        <5> HIDE DEF n, s
        <5> QED
          BY <5>1, <5>2
      <4>4. CASE UnwindEnd(d)
        <5> DEFINE n == [s EXCEPT !.pc = "error"]
        <5>1. dec' = [dec EXCEPT ![d] = n]
          BY <4>4 DEF UnwindEnd
        <5>2. n.in = s.in /\ n.job = s.job
          BY <2>1 DEF Locals
        <5> HIDE DEF n, s
        <5> QED
          BY <5>1, <5>2
      <4> QED
        BY <2>8, <4>1, <4>2, <4>3, <4>4
    <3> HIDE DEF s
    <3> QED
      BY <2>1, <3>1, StreamGoesOn
  <2> QED
    BY <1>2, <2>2, <2>3, <2>4, <2>5, <2>6, <2>7, <2>8
<1> QED
  BY <1>1, <1>2 DEF Next

(***************************************************************************)
(* For every width of a byte and of a hash, and for every stream, be it    *)
(* what some decoder has left to read or not: a variable length integer    *)
(* and a block header have one form.                                       *)
(***************************************************************************)
THEOREM WireCanonicalCorrect == Spec => []WireCanonical
<1>1. StreamInv => WireCanonical
  <2> SUFFICES ASSUME StreamInv, NEW d \in Decoders
               PROVE  VarIntFirst(dec[d].in) /\ HeaderFirst(dec[d].job.bytes)
    BY Primitives DEF WireCanonical
  <2>1. dec[d].in \in Seq(Byte) /\ dec[d].job.bytes \in Seq(Byte)
    BY DEF StreamInv
  <2> QED
    BY <2>1, HeaderExact, VarIntExact DEF VarIntFirst
<1> QED
  BY <1>1, BufferInvInit, BufferInvStep, StreamInvInit, StreamInvStep, PTL DEF Spec

-------------------------------------------------------------------------------
(* Sums.  What Total computes does not depend on the order.                *)

Some(s) == CHOOSE x \in s : TRUE

\* t[s] is the sum of f over s, for every set s of its domain.
Sums(t, f) ==
  t = [s \in SUBSET DOMAIN f |-> IF s = {} THEN 0 ELSE f[Some(s)] + t[s \ {Some(s)}]]

\* Functions whose values can be summed up.
Summand(f) == IsFiniteSet(DOMAIN f) /\ f = [x \in DOMAIN f |-> f[x]] /\ \A x \in DOMAIN f : f[x] \in Nat

\* There is such a t.
LEMMA SumRec ==
  ASSUME NEW f, Summand(f)
  PROVE  \E t : Sums(t, f)
<1> DEFINE S == DOMAIN f
           V == [SUBSET S -> Nat]
           AllZero == [s \in SUBSET S |-> 0]
           Next1(v) == [s \in SUBSET S |-> IF s = {} THEN 0 ELSE f[Some(s)] + v[s \ {Some(s)}]]
           g == [n \in Nat |-> [v \in V |-> Next1(v)]]
<1>1. \A s \in SUBSET S : s # {} => Some(s) \in s
  BY DEF Some
<1>2. ASSUME NEW v \in V PROVE Next1(v) \in V
  <2>1. ASSUME NEW s \in SUBSET S, s # {} PROVE f[Some(s)] + v[s \ {Some(s)}] \in Nat
    <3>1. Some(s) \in S /\ f[Some(s)] \in Nat
      BY <1>1, <2>1 DEF Summand
    <3>2. v[s \ {Some(s)}] \in Nat
      OBVIOUS
    <3> QED
      BY <3>1, <3>2
  <2> QED
    BY <2>1
<1>3. g \in [Nat -> [V -> V]]
  BY <1>2
<1>4. AllZero \in V
  OBVIOUS
<1>5. PICK h : Iterates(h, V, AllZero, g)
  <2> HIDE DEF g, V, AllZero
  <2> QED
    BY <1>3, <1>4, Recursion, Zenon
<1>6. h \in [Nat -> V] /\ \A n \in Nat : h[n + 1] = g[n][h[n]]
  <2> HIDE DEF g, V, AllZero
  <2> QED
    BY <1>5 DEF Iterates
<1>7. \A n \in Nat : h[n + 1] = Next1(h[n])
  <2> SUFFICES ASSUME NEW n \in Nat PROVE h[n + 1] = Next1(h[n])
    OBVIOUS
  <2>1. h[n] \in V /\ h[n + 1] = g[n][h[n]]
    BY <1>6
  <2> HIDE DEF V, Next1
  <2> QED
    BY <2>1
<1> DEFINE t == [s \in SUBSET S |-> h[Cardinality(s)][s]]
<1>8. ASSUME NEW s \in SUBSET S
      PROVE  t[s] = IF s = {} THEN 0 ELSE f[Some(s)] + t[s \ {Some(s)}]
  <2>1. IsFiniteSet(s) /\ Cardinality(s) \in Nat
    BY FS_Subset, FS_CardinalityType DEF Summand
  <2>2. CASE s = {}
    <3>1. h[0][s] = 0
      <4>1. h[0] = AllZero
        <5> HIDE DEF g, V, AllZero
        <5> QED
          BY <1>5 DEF Iterates
      <4> QED
        BY <4>1
    <3> QED
      BY <2>2, <3>1, FS_EmptySet
  <2>3. CASE s # {}
    <3> DEFINE x == Some(s)
               r == s \ {x}
    <3>1. x \in s
      BY <1>1, <2>3
    <3>2. Cardinality(r) = Cardinality(s) - 1 /\ IsFiniteSet(r)
      BY <2>1, <3>1, FS_RemoveElement
    <3>3. Cardinality(r) \in Nat
      BY <3>2, FS_CardinalityType
    <3>4. Cardinality(s) = Cardinality(r) + 1
      BY <2>1, <3>2, <3>3
    <3>5. h[Cardinality(r) + 1] = Next1(h[Cardinality(r)])
      BY <1>7, <3>3
    <3>6. Next1(h[Cardinality(r)])[s] = f[x] + h[Cardinality(r)][r]
      BY <2>3
    <3>7. t[s] = h[Cardinality(s)][s] /\ t[r] = h[Cardinality(r)][r]
      OBVIOUS
    <3> HIDE DEF t, x, r, Next1
    <3>8. t[s] = f[x] + t[r]
      BY <3>4, <3>5, <3>6, <3>7
    <3> QED
      BY <2>3, <3>8 DEF x, r
  <2> QED
    BY <2>2, <2>3
<1>9. t = [s \in SUBSET S |-> IF s = {} THEN 0 ELSE f[Some(s)] + t[s \ {Some(s)}]]
  <2>1. \A s \in SUBSET S : t[s] = IF s = {} THEN 0 ELSE f[Some(s)] + t[s \ {Some(s)}]
    BY <1>8
  <2>2. t = [s \in SUBSET S |-> t[s]]
    OBVIOUS
  <2> HIDE DEF t
  <2> QED
    BY <2>1, <2>2
<1> HIDE DEF t
<1> QED
  BY <1>9 DEF Sums

\* Total computes it.
LEMMA TotalSums ==
  ASSUME NEW f, Summand(f)
  PROVE  \E t : Sums(t, f) /\ Total(f) = t[DOMAIN f]
<1> DEFINE t == CHOOSE t : Sums(t, f)
<1>1. Sums(t, f)
  <2>1. \E x : Sums(x, f)
    BY SumRec
  <2> QED
    BY <2>1, Zenon
<1>2. Total(f) = t[DOMAIN f]
  BY DEF Total, FoldFunction, FoldFunctionOnSet, MapThenFoldSet, Sums, Some
<1> HIDE DEF t
<1> QED
  BY <1>1, <1>2

\* What t says of one set.
LEMMA SumStep ==
  ASSUME NEW f, NEW t, Sums(t, f), NEW s \in SUBSET DOMAIN f
  PROVE  /\ s = {} => t[s] = 0
         /\ s # {} => Some(s) \in s /\ t[s] = f[Some(s)] + t[s \ {Some(s)}]
<1>1. s # {} => Some(s) \in s
  BY DEF Some
<1>2. t[s] = IF s = {} THEN 0 ELSE f[Some(s)] + t[s \ {Some(s)}]
  <2> DEFINE Step(v) == IF v = {} THEN 0 ELSE f[Some(v)] + t[v \ {Some(v)}]
  <2>1. t = [v \in SUBSET DOMAIN f |-> Step(v)]
    BY DEF Sums
  <2> HIDE DEF Step
  <2>2. t[s] = Step(s)
    BY <2>1
  <2> QED
    BY <2>2 DEF Step
<1> QED
  BY <1>1, <1>2

\* A finite set and one of its elements.
LEMMA Without ==
  ASSUME NEW s, IsFiniteSet(s), NEW x \in s, NEW n \in Nat, Cardinality(s) = n + 1
  PROVE  IsFiniteSet(s \ {x}) /\ Cardinality(s \ {x}) = n
<1>1. IsFiniteSet(s \ {x}) /\ Cardinality(s \ {x}) = Cardinality(s) - 1
  BY FS_RemoveElement
<1> QED
  BY <1>1

\* Induction over the subsets of a finite set, for the set of those that have the property.
LEMMA SubsetInd ==
  ASSUME NEW S, IsFiniteSet(S), NEW A, {} \in A,
         \A s \in SUBSET S : s # {} /\ (\A x \in s : s \ {x} \in A) => s \in A
  PROVE  S \in A
<1> DEFINE B == {n \in Nat : \A s \in SUBSET S : Cardinality(s) = n => s \in A}
<1>0. ASSUME NEW s \in SUBSET S PROVE IsFiniteSet(s) /\ Cardinality(s) \in Nat /\ (Cardinality(s) = 0 => s = {})
  BY FS_Subset, FS_CardinalityType, FS_EmptySet
<1>1. 0 \in B
  BY <1>0
<1>2. ASSUME NEW n \in Nat, n \in B PROVE n + 1 \in B
  <2>1. ASSUME NEW s \in SUBSET S, Cardinality(s) = n + 1 PROVE s \in A
    <3>1. s # {}
      BY <2>1, FS_EmptySet
    <3>2. ASSUME NEW x \in s PROVE s \ {x} \in A
      <4>1. Cardinality(s \ {x}) = n /\ s \ {x} \in SUBSET S
        BY <1>0, <2>1, Without
      <4> QED
        BY <1>2, <4>1
    <3> QED
      BY <3>1, <3>2
  <2>2. n + 1 \in Nat
    OBVIOUS
  <2> QED
    BY <2>1, <2>2
<1>3. Nat \subseteq B
  <2> HIDE DEF B
  <2> QED
    BY <1>1, <1>2, NatInd
<1> QED
  BY <1>0, <1>3

\* Any element may be counted first.
SumsAny(t, f) ==
  \A s \in SUBSET DOMAIN f :
    /\ t[s] \in Nat
    /\ s = {} => t[s] = 0
    /\ \A x \in s : t[s] = f[x] + t[s \ {x}]

\* Every sum is a number.
LEMMA SumNat ==
  ASSUME NEW f, Summand(f), NEW t, Sums(t, f), NEW s \in SUBSET DOMAIN f
  PROVE  t[s] \in Nat
<1> DEFINE A == {v \in SUBSET DOMAIN f : t[v] \in Nat}
<1>0. Sums(t, f)
  OBVIOUS
<1>1. {} \in A
  <2>1. {} \in SUBSET DOMAIN f
    OBVIOUS
  <2>2. t[{}] = 0
    <3> HIDE DEF A
    <3> QED
      BY <1>0, <2>1, SumStep
  <2> QED
    BY <2>1, <2>2
<1>2. ASSUME NEW v \in SUBSET s, v # {}, \A x \in v : v \ {x} \in A PROVE v \in A
  <2>1. v \in SUBSET DOMAIN f
    OBVIOUS
  <2>2. Some(v) \in v /\ t[v] = f[Some(v)] + t[v \ {Some(v)}]
    <3>1. v # {}
      BY <1>2
    <3> HIDE DEF A
    <3> QED
      BY <1>0, <2>1, <3>1, SumStep
  <2>3. t[v \ {Some(v)}] \in Nat /\ f[Some(v)] \in Nat
    BY <1>2, <2>1, <2>2 DEF Summand
  <2> QED
    BY <2>1, <2>2, <2>3
<1>3. IsFiniteSet(s)
  BY FS_Subset DEF Summand
<1>4. s \in A
  <2> HIDE DEF A
  <2> QED
    BY <1>1, <1>2, <1>3, SubsetInd
<1> QED
  BY <1>4

\* The sums of f may be taken in any order.
LEMMA SumAnyOrder ==
  ASSUME NEW f, Summand(f), NEW t, Sums(t, f)
  PROVE  SumsAny(t, f)
<1> SUFFICES ASSUME NEW s \in SUBSET DOMAIN f
             PROVE  \A x \in s : t[s] = f[x] + t[s \ {x}]
  BY SumNat, SumStep DEF SumsAny
<1> DEFINE A == {v \in SUBSET DOMAIN f : \A x \in v : t[v] = f[x] + t[v \ {x}]}
<1>1. {} \in A
  OBVIOUS
<1>2. ASSUME NEW v \in SUBSET s, v # {}, \A x \in v : v \ {x} \in A PROVE v \in A
  <2>1. v \in SUBSET DOMAIN f
    OBVIOUS
  <2> DEFINE y == Some(v)
  <2>2. y \in v /\ t[v] = f[y] + t[v \ {y}]
    BY <1>2, <2>1, SumStep
  <2> HIDE DEF y
  <2>3. ASSUME NEW x \in v PROVE t[v] = f[x] + t[v \ {x}]
    <3>1. CASE x = y
      BY <2>2, <3>1
    <3>2. CASE x # y
      <4> DEFINE r == v \ {x, y}
      <4>1. v \ {y} \in A /\ x \in v \ {y} /\ v \ {x} \in A /\ y \in v \ {x}
        BY <1>2, <2>2, <3>2
      <4>2. (v \ {y}) \ {x} = r /\ (v \ {x}) \ {y} = r
        OBVIOUS
      <4>3. t[v \ {y}] = f[x] + t[r] /\ t[v \ {x}] = f[y] + t[r]
        <5> HIDE DEF r
        <5> QED
          BY <4>1, <4>2
      <4>4. t[r] \in Nat /\ f[x] \in Nat /\ f[y] \in Nat
        <5>1. r \in SUBSET DOMAIN f
          BY <2>1
        <5>2. t[r] \in Nat
          BY <5>1, SumNat
        <5> QED
          BY <2>1, <2>2, <5>2 DEF Summand
      <4> HIDE DEF r, A
      <4> QED
        BY <2>2, <4>3, <4>4
    <3> QED
      BY <3>1, <3>2
  <2> QED
    BY <2>1, <2>3
<1>3. IsFiniteSet(s)
  BY FS_Subset DEF Summand
<1>4. s \in A
  <2> HIDE DEF A
  <2> QED
    BY <1>1, <1>2, <1>3, SubsetInd
<1> QED
  BY <1>4

\* The sums of two functions over a set on which they agree are the same.
LEMMA SumsAgree ==
  ASSUME NEW f, NEW t, SumsAny(t, f), NEW g, NEW u, SumsAny(u, g),
         NEW s, IsFiniteSet(s), s \subseteq DOMAIN f, s \subseteq DOMAIN g, \A x \in s : f[x] = g[x]
  PROVE  t[s] = u[s]
<1> DEFINE A == {v \in SUBSET s : t[v] = u[v]}
<1>1. {} \in A
  BY DEF SumsAny
<1>2. ASSUME NEW v \in SUBSET s, v # {}, \A x \in v : v \ {x} \in A PROVE v \in A
  <2>1. PICK x \in v : TRUE
    BY <1>2
  <2>2. v \in SUBSET DOMAIN f /\ v \in SUBSET DOMAIN g /\ f[x] = g[x] /\ v \ {x} \in A
    BY <1>2
  <2>3. t[v] = f[x] + t[v \ {x}] /\ u[v] = g[x] + u[v \ {x}]
    BY <2>2 DEF SumsAny
  <2> QED
    BY <2>2, <2>3
<1>3. s \in A
  <2> HIDE DEF A
  <2> QED
    BY <1>1, <1>2, SubsetInd
<1> QED
  BY <1>3

\* Total is a sum that may be taken in any order.
LEMMA TotalAny ==
  ASSUME NEW f, Summand(f)
  PROVE  \E t : SumsAny(t, f) /\ Total(f) = t[DOMAIN f]
BY TotalSums, SumAnyOrder

\* The sum of numbers.
LEMMA TotalNat ==
  ASSUME NEW f, Summand(f)
  PROVE  /\ Total(f) \in Nat
         /\ DOMAIN f = {} => Total(f) = 0
         /\ \A x \in DOMAIN f : f[x] <= Total(f)
<1>1. PICK t : SumsAny(t, f) /\ Total(f) = t[DOMAIN f]
  BY TotalAny
<1>2. DOMAIN f \in SUBSET DOMAIN f
  OBVIOUS
<1>3. Total(f) \in Nat /\ (DOMAIN f = {} => Total(f) = 0)
  BY <1>1, <1>2 DEF SumsAny
<1>4. ASSUME NEW x \in DOMAIN f PROVE f[x] <= Total(f)
  <2>1. Total(f) = f[x] + t[DOMAIN f \ {x}]
    BY <1>1, <1>2 DEF SumsAny
  <2>2. DOMAIN f \ {x} \in SUBSET DOMAIN f
    OBVIOUS
  <2>3. t[DOMAIN f \ {x}] \in Nat /\ f[x] \in Nat
    BY <1>1, <2>2 DEF SumsAny, Summand
  <2> QED
    BY <2>1, <2>3
<1> QED
  BY <1>3, <1>4

\* One more number.
LEMMA TotalAdd ==
  ASSUME NEW f, Summand(f), NEW g, Summand(g), NEW x, x \notin DOMAIN f,
         DOMAIN g = DOMAIN f \cup {x}, \A y \in DOMAIN f : g[y] = f[y]
  PROVE  Total(g) = Total(f) + g[x]
<1>1. PICK t : SumsAny(t, f) /\ Total(f) = t[DOMAIN f]
  BY TotalAny
<1>2. PICK u : SumsAny(u, g) /\ Total(g) = u[DOMAIN g]
  BY TotalAny
<1>3. Total(g) = g[x] + u[DOMAIN f]
  <2>1. DOMAIN g \in SUBSET DOMAIN g /\ x \in DOMAIN g /\ DOMAIN g \ {x} = DOMAIN f
    OBVIOUS
  <2> QED
    BY <1>2, <2>1 DEF SumsAny
<1>4. t[DOMAIN f] = u[DOMAIN f]
  <2>1. IsFiniteSet(DOMAIN f) /\ DOMAIN f \subseteq DOMAIN g
    BY DEF Summand
  <2> QED
    BY <1>1, <1>2, <2>1, SumsAgree
<1>5. Total(f) \in Nat /\ g[x] \in Nat
  BY TotalNat DEF Summand
<1> QED
  BY <1>1, <1>3, <1>4, <1>5

\* The first n elements of a sequence.
Upto(s, n) == [i \in 1 .. n |-> s[i]]

\* One element more.
LEMMA UptoGrows ==
  ASSUME NEW X, NEW s \in Seq(X)
  PROVE  /\ Upto(s, 0) = <<>> /\ Upto(s, Len(s)) = s
         /\ \A n \in 0 .. Len(s) : Upto(s, n) \in Seq(X) /\ Len(Upto(s, n)) = n
         /\ \A n \in Nat : n < Len(s) =>
              s[n + 1] \in X /\ Upto(s, n + 1) = Append(Upto(s, n), s[n + 1])
<1>1. Upto(s, 0) = <<>> /\ Upto(s, Len(s)) = s
  BY DEF Upto
<1>2. ASSUME NEW n \in 0 .. Len(s) PROVE Upto(s, n) \in Seq(X) /\ Len(Upto(s, n)) = n
  BY DEF Upto
<1>3. ASSUME NEW n \in Nat, n < Len(s)
      PROVE  s[n + 1] \in X /\ Upto(s, n + 1) = Append(Upto(s, n), s[n + 1])
  <2>1. s[n + 1] \in X
    BY <1>3
  <2>2. Upto(s, n) \in Seq(X) /\ Len(Upto(s, n)) = n /\ Upto(s, n + 1) \in Seq(X) /\ Len(Upto(s, n + 1)) = n + 1
    BY <1>2, <1>3
  <2> DEFINE a == Append(Upto(s, n), s[n + 1])
             b == Upto(s, n + 1)
  <2>3. a \in Seq(X) /\ Len(a) = n + 1
    BY <2>1, <2>2
  <2>4. ASSUME NEW i \in 1 .. n + 1 PROVE a[i] = b[i]
    <3>1. b[i] = s[i]
      BY DEF Upto
    <3>2. CASE i = n + 1
      <4>1. a[n + 1] = s[n + 1]
        BY <2>1, <2>2
      <4> QED
        BY <3>1, <3>2, <4>1
    <3>3. CASE i \in 1 .. n
      <4>1. a[i] = Upto(s, n)[i]
        BY <2>1, <2>2, <3>3
      <4>2. Upto(s, n)[i] = s[i]
        BY <3>3 DEF Upto
      <4> QED
        BY <3>1, <4>1, <4>2
    <3>4. i = n + 1 \/ i \in 1 .. n
      OBVIOUS
    <3> HIDE DEF a, b
    <3> QED
      BY <3>2, <3>3, <3>4
  <2>5. a = b
    <3> HIDE DEF a, b
    <3>1. b \in Seq(X) /\ Len(b) = n + 1
      BY <2>2 DEF b
    <3> QED
      BY <2>3, <2>4, <3>1, SeqEqual
  <2> QED
    BY <2>1, <2>5
<1> QED
  BY <1>1, <1>2, <1>3

\* The numbers of a sequence, one after the other.
LEMMA TotalSeq ==
  ASSUME NEW s \in Seq(Nat)
  PROVE  /\ Total(s) \in Nat /\ Total(Upto(s, 0)) = 0
         /\ \A n \in 0 .. Len(s) : Total(Upto(s, n)) \in Nat
         /\ \A n \in Nat : n < Len(s) => Total(Upto(s, n + 1)) = Total(Upto(s, n)) + s[n + 1]
         /\ \A i \in 1 .. Len(s) : s[i] <= Total(s)
<1>1. ASSUME NEW n \in 0 .. Len(s) PROVE Summand(Upto(s, n)) /\ DOMAIN Upto(s, n) = 1 .. n
  <2>1. DOMAIN Upto(s, n) = 1 .. n /\ Upto(s, n) = [i \in 1 .. n |-> Upto(s, n)[i]]
    BY DEF Upto
  <2>2. IsFiniteSet(1 .. n)
    BY FS_Interval
  <2>3. \A i \in 1 .. n : Upto(s, n)[i] \in Nat
    BY DEF Upto
  <2> QED
    BY <2>1, <2>2, <2>3 DEF Summand
<1>2. ASSUME NEW n \in 0 .. Len(s) PROVE Total(Upto(s, n)) \in Nat /\ (n = 0 => Total(Upto(s, n)) = 0)
  <2>1. n = 0 => DOMAIN Upto(s, n) = {}
    BY <1>1
  <2> QED
    BY <1>1, <2>1, TotalNat
<1>3. ASSUME NEW n \in Nat, n < Len(s)
      PROVE  Total(Upto(s, n + 1)) = Total(Upto(s, n)) + s[n + 1]
  <2> DEFINE f == Upto(s, n)
             g == Upto(s, n + 1)
  <2>1. n \in 0 .. Len(s) /\ n + 1 \in 0 .. Len(s)
    BY <1>3
  <2>2. Summand(f) /\ Summand(g) /\ DOMAIN f = 1 .. n /\ DOMAIN g = 1 .. n + 1
    BY <1>1, <2>1
  <2>3. n + 1 \notin DOMAIN f /\ DOMAIN g = DOMAIN f \cup {n + 1}
    <3>1. n + 1 \notin 1 .. n /\ 1 .. n + 1 = (1 .. n) \cup {n + 1}
      OBVIOUS
    <3> HIDE DEF f, g
    <3> QED
      BY <2>2, <3>1
  <2>4. (\A y \in DOMAIN f : g[y] = f[y]) /\ g[n + 1] = s[n + 1]
    BY <2>2 DEF Upto
  <2> HIDE DEF f, g
  <2>5. Total(g) = Total(f) + g[n + 1]
    BY <2>2, <2>3, <2>4, TotalAdd, SMTT(30)
  <2> QED
    BY <2>4, <2>5 DEF f, g
<1>4. Upto(s, Len(s)) = s /\ Len(s) \in 0 .. Len(s)
  BY UptoGrows
<1>5. \A i \in 1 .. Len(s) : s[i] <= Total(s)
  <2>1. Summand(s) /\ DOMAIN s = 1 .. Len(s)
    BY <1>1, <1>4
  <2> QED
    BY <2>1, TotalNat
<1> QED
  BY <1>2, <1>3, <1>4, <1>5

-------------------------------------------------------------------------------
(* The steps of a decoder: s is its state before a step, n the one after.  *)

\* A message under construction.
MsgFields == {"version", "txIn", "txOut", "lockTime"}

\* BtcDecode begins with the header h of the bytes of job.
Starts(n, job, h) ==
  /\ n.pc = IF h.ok THEN "txIn" ELSE "error"
  /\ n.job = job /\ n.in = h.rest /\ n.flag = h.flag /\ n.count = h.count
  /\ n.at = 0 /\ n.input = 0
  /\ n.msg.version = h.version /\ n.msg.txIn = <<>> /\ n.msg.txOut = <<>>
  /\ DOMAIN n.msg = MsgFields
  /\ DOMAIN n.refs = {} /\ n.total = 0 /\ n.scripts = <<>>

\* The message has one more script.
Grown(s, n, slot, script, rest) ==
  /\ n.pc = s.pc /\ n.job = s.job /\ n.flag = s.flag /\ n.count = s.count
  /\ n.input = s.input /\ n.at = s.at + 1 /\ n.in = rest
  /\ DOMAIN n.refs = DOMAIN s.refs \cup {slot} /\ n.refs[slot] = script.ref
  /\ \A p \in DOMAIN s.refs \ {slot} : n.refs[p] = s.refs[p]
  /\ n.total = s.total + script.ref.len /\ n.scripts = s.scripts

\* It has one more input, one more output, or neither.
Messages(s, n, ins, outs) ==
  /\ n.msg.version = s.msg.version /\ n.msg.txIn = ins /\ n.msg.txOut = outs
  /\ DOMAIN n.msg = MsgFields

\* BtcDecode gives up.
Fails(s, n) == n.pc = "unwind" /\ n.job = s.job

\* No script is read, copied or returned.
SameScripts(s, n) ==
  /\ n.job = s.job /\ n.flag = s.flag /\ n.refs = s.refs
  /\ n.total = s.total /\ n.scripts = s.scripts

\* A step that changes dec[d] and nothing else.
LEMMA Goes ==
  ASSUME BufferInv, NEW d \in Decoders, NEW n, dec' = [dec EXCEPT ![d] = n]
  PROVE  dec'[d] = n /\ Alone(d)
BY DEF BufferInv, Alone

\* returnScriptBuffers.
LEMMA UnwoundFails ==
  ASSUME NEW s, DOMAIN s = Locals
  PROVE  Fails(s, Unwound(s))
BY DEF Fails, Unwound, Locals

\* BtcDecode starts with the header.
LEMMA DecodeMoves ==
  ASSUME BufferInv, NEW d \in Decoders, Decode(d)
  PROVE  /\ Alone(d) /\ mem' = mem /\ dec[d].pc = "idle"
         /\ \E job \in Inputs[d] : Starts(dec'[d], job, ReadHeader(job.bytes, job.enc))
<1>1. PICK job \in Inputs[d] :
        dec' = [dec EXCEPT ![d] =
           [Idle EXCEPT !.pc = IF ReadHeader(job.bytes, job.enc).ok THEN "txIn" ELSE "error",
                        !.job = job,
                        !.in = ReadHeader(job.bytes, job.enc).rest,
                        !.flag = ReadHeader(job.bytes, job.enc).flag,
                        !.count = ReadHeader(job.bytes, job.enc).count,
                        !.msg.version = ReadHeader(job.bytes, job.enc).version]]
  BY DEF Decode
<1> DEFINE h == ReadHeader(job.bytes, job.enc)
           n == [Idle EXCEPT !.pc = IF h.ok THEN "txIn" ELSE "error",
                        !.job = job, !.in = h.rest, !.flag = h.flag,
                        !.count = h.count, !.msg.version = h.version]
<1>2. dec' = [dec EXCEPT ![d] = n]
  BY <1>1 DEF h
<1> HIDE DEF h
<1>3. Starts(n, job, h)
  <2>1. /\ n.pc = IF h.ok THEN "txIn" ELSE "error"
        /\ n.job = job /\ n.in = h.rest /\ n.flag = h.flag /\ n.count = h.count
        /\ n.at = 0 /\ n.input = 0
    BY DEF Idle
  <2>2. n.refs = <<>> /\ n.total = 0 /\ n.scripts = <<>>
    BY DEF Idle
  <2>3. n.msg = [EmptyMsg EXCEPT !.version = h.version]
    BY DEF Idle
  <2> HIDE DEF n
  <2>4. n.msg.version = h.version /\ n.msg.txIn = <<>> /\ n.msg.txOut = <<>> /\ DOMAIN n.msg = MsgFields
    BY <2>3 DEF EmptyMsg, MsgFields
  <2>5. DOMAIN n.refs = {}
    BY <2>2
  <2> QED
    BY <2>1, <2>2, <2>4, <2>5 DEF Starts
<1> HIDE DEF n
<1>4. dec'[d] = n /\ Alone(d)
  BY <1>2, Goes
<1> QED
  BY <1>3, <1>4 DEF Decode, h

\* Extended as a predicate.
LEMMA ExtendedGrown ==
  ASSUME NEW s, DOMAIN s = Locals, NEW slot, NEW script, NEW rest,
         NEW n, n = Extended(s, slot, script, rest)
  PROVE  Grown(s, n, slot, script, rest) /\ n.msg = s.msg /\ DOMAIN n = Locals
<1>1. /\ n.pc = s.pc /\ n.job = s.job /\ n.flag = s.flag /\ n.count = s.count
      /\ n.input = s.input /\ n.at = s.at + 1 /\ n.in = rest
      /\ n.total = s.total + script.ref.len /\ n.scripts = s.scripts
      /\ n.msg = s.msg /\ DOMAIN n = Locals
  BY DEF Extended, Locals
<1>2. n.refs = [p \in DOMAIN s.refs \cup {slot} |-> IF p = slot THEN script.ref ELSE s.refs[p]]
  BY DEF Extended, Locals
<1> QED
  BY <1>1, <1>2 DEF Grown

\* A new input or output does not concern the rest.
LEMMA GrownToo ==
  ASSUME NEW s, NEW e, NEW n, NEW slot, NEW script, NEW rest,
         Grown(s, e, slot, script, rest),
         n.pc = e.pc, n.job = e.job, n.flag = e.flag, n.count = e.count, n.input = e.input,
         n.at = e.at, n.in = e.in, n.refs = e.refs, n.total = e.total, n.scripts = e.scripts
  PROVE  Grown(s, n, slot, script, rest)
BY DEF Grown

\* One input.
LEMMA TxInMoves ==
  ASSUME BufferInv, NEW d \in Decoders, DecodeTxIn(d), DOMAIN dec[d].msg = MsgFields,
         NEW s, s = dec[d], NEW r, r = readTxIn(s.in)
  PROVE  /\ Alone(d) /\ mem' = r.script.mem /\ s.pc = "txIn" /\ s.at < s.count /\ Unused # {}
         /\ r.ok => /\ Grown(s, dec'[d], <<"in", s.at + 1, 0>>, r.script, r.rest)
                    /\ Messages(s, dec'[d], Append(s.msg.txIn, r.ti), s.msg.txOut)
         /\ ~ r.ok => Fails(s, dec'[d])
<1> DEFINE slot == <<"in", s.at + 1, 0>>
           e == Extended(s, slot, r.script, r.rest)
           m == [e EXCEPT !.msg.txIn = Append(@, r.ti)]
           n == IF r.ok THEN m ELSE Unwound(m)
<1>1. /\ dec' = [dec EXCEPT ![d] = n] /\ mem' = r.script.mem
      /\ s.pc = "txIn" /\ s.at < s.count /\ Unused # {} /\ DOMAIN s = Locals
  BY DEF DecodeTxIn, BufferInv
<1>2. Grown(s, e, slot, r.script, r.rest) /\ e.msg = s.msg /\ DOMAIN e = Locals
  <2>1. DOMAIN s = Locals /\ e = Extended(s, slot, r.script, r.rest)
    BY <1>1
  <2> HIDE DEF slot, e, m, n
  <2> QED
    BY <2>1, ExtendedGrown, SMTT(30)
<1>3. /\ m.pc = e.pc /\ m.job = e.job /\ m.flag = e.flag /\ m.count = e.count /\ m.input = e.input
      /\ m.at = e.at /\ m.in = e.in /\ m.refs = e.refs /\ m.total = e.total /\ m.scripts = e.scripts
      /\ DOMAIN m = Locals /\ m.msg = [e.msg EXCEPT !.txIn = Append(@, r.ti)]
  <2> HIDE DEF e
  <2> QED
    BY <1>2 DEF Locals
<1> HIDE DEF e, m
<1>4. Grown(s, m, slot, r.script, r.rest)
  <2> HIDE DEF slot
  <2> QED
    BY <1>2, <1>3, GrownToo
<1>5. Messages(s, m, Append(s.msg.txIn, r.ti), s.msg.txOut)
  BY <1>2, <1>3 DEF Messages, MsgFields
<1>6. ~ r.ok => Fails(s, n)
  <2>1. Fails(m, Unwound(m)) /\ m.job = s.job
    BY <1>3, <1>4, UnwoundFails DEF Grown
  <2> QED
    BY <2>1 DEF Fails
<1> HIDE DEF n
<1>7. dec'[d] = n /\ Alone(d)
  BY <1>1, Goes
<1> QED
  BY <1>1, <1>4, <1>5, <1>6, <1>7, SMTT(30) DEF n

\* One output.
LEMMA TxOutMoves ==
  ASSUME BufferInv, NEW d \in Decoders, DecodeTxOut(d), DOMAIN dec[d].msg = MsgFields,
         NEW s, s = dec[d], NEW r, r = readTxOut(s.in)
  PROVE  /\ Alone(d) /\ mem' = r.script.mem /\ s.pc = "txOut" /\ s.at < s.count /\ Unused # {}
         /\ r.ok => /\ Grown(s, dec'[d], <<"out", s.at + 1, 0>>, r.script, r.rest)
                    /\ Messages(s, dec'[d], s.msg.txIn, Append(s.msg.txOut, r.to))
         /\ ~ r.ok => Fails(s, dec'[d])
<1> DEFINE slot == <<"out", s.at + 1, 0>>
           e == Extended(s, slot, r.script, r.rest)
           m == [e EXCEPT !.msg.txOut = Append(@, r.to)]
           n == IF r.ok THEN m ELSE Unwound(m)
<1>1. /\ dec' = [dec EXCEPT ![d] = n] /\ mem' = r.script.mem
      /\ s.pc = "txOut" /\ s.at < s.count /\ Unused # {} /\ DOMAIN s = Locals
  BY SMTT(30) DEF DecodeTxOut, BufferInv
<1>2. Grown(s, e, slot, r.script, r.rest) /\ e.msg = s.msg /\ DOMAIN e = Locals
  <2>1. DOMAIN s = Locals /\ e = Extended(s, slot, r.script, r.rest)
    BY <1>1
  <2> HIDE DEF slot, e, m, n
  <2> QED
    BY <2>1, ExtendedGrown
<1>3. /\ m.pc = e.pc /\ m.job = e.job /\ m.flag = e.flag /\ m.count = e.count /\ m.input = e.input
      /\ m.at = e.at /\ m.in = e.in /\ m.refs = e.refs /\ m.total = e.total /\ m.scripts = e.scripts
      /\ DOMAIN m = Locals /\ m.msg = [e.msg EXCEPT !.txOut = Append(@, r.to)]
  <2> HIDE DEF e
  <2> QED
    BY <1>2 DEF Locals
<1> HIDE DEF e, m
<1>4. Grown(s, m, slot, r.script, r.rest)
  <2> HIDE DEF slot
  <2> QED
    BY <1>2, <1>3, GrownToo
<1>5. Messages(s, m, s.msg.txIn, Append(s.msg.txOut, r.to))
  BY <1>2, <1>3 DEF Messages, MsgFields
<1>6. ~ r.ok => Fails(s, n)
  <2>1. Fails(m, Unwound(m)) /\ m.job = s.job
    BY <1>3, <1>4, UnwoundFails DEF Grown
  <2> QED
    BY <2>1 DEF Fails
<1> HIDE DEF n
<1>7. dec'[d] = n /\ Alone(d)
  BY <1>1, Goes
<1> QED
  BY <1>1, <1>4, <1>5, <1>6, <1>7 DEF n

\* One item of a witness.
LEMMA ItemMoves ==
  ASSUME BufferInv, NEW d \in Decoders, ReadWitnessItem(d), DOMAIN dec[d].msg = MsgFields,
         NEW s, s = dec[d], NEW r, r = readScript(s.in, MaxWitnessItemSize)
  PROVE  /\ Alone(d) /\ mem' = r.mem /\ s.pc = "witness" /\ s.at < s.count /\ Unused # {}
         /\ r.ok => /\ Grown(s, dec'[d], <<"in", s.input, s.at + 1>>, r, r.rest)
                    /\ Messages(s, dec'[d], s.msg.txIn, s.msg.txOut)
         /\ ~ r.ok => Fails(s, dec'[d])
<1> DEFINE slot == <<"in", s.input, s.at + 1>>
           m == Extended(s, slot, r, r.rest)
           n == IF r.ok THEN m ELSE Unwound(m)
<1>1. /\ dec' = [dec EXCEPT ![d] = n] /\ mem' = r.mem
      /\ s.pc = "witness" /\ s.at < s.count /\ Unused # {} /\ DOMAIN s = Locals
  BY DEF ReadWitnessItem, BufferInv
<1>2. Grown(s, m, slot, r, r.rest) /\ m.msg = s.msg /\ DOMAIN m = Locals
  <2>1. DOMAIN s = Locals /\ m = Extended(s, slot, r, r.rest)
    BY <1>1
  <2> HIDE DEF slot, m, n
  <2> QED
    BY <2>1, ExtendedGrown
<1> HIDE DEF m
<1>5. Messages(s, m, s.msg.txIn, s.msg.txOut)
  BY <1>2 DEF Messages
<1>6. ~ r.ok => Fails(s, n)
  <2>1. Fails(m, Unwound(m)) /\ m.job = s.job
    BY <1>2, UnwoundFails DEF Grown
  <2> QED
    BY <2>1 DEF Fails
<1> HIDE DEF n
<1>7. dec'[d] = n /\ Alone(d)
  BY <1>1, Goes
<1> QED
  BY <1>1, <1>2, <1>5, <1>6, <1>7 DEF n

\* The number of outputs, and the number of items of a witness.
LEMMA OutCountMoves ==
  ASSUME BufferInv, NEW d \in Decoders, ReadTxOutCount(d),
         NEW s, s = dec[d], NEW n, n = dec'[d], NEW count, count = ReadVarInt(s.in)
  PROVE  /\ Alone(d) /\ mem' = mem /\ s.pc = "txIn" /\ s.at = s.count
         /\ count.ok /\ count.val <= MaxTxOutPerMessage =>
              /\ SameScripts(s, n) /\ n.msg = s.msg /\ n.pc = "txOut" /\ n.input = s.input
              /\ n.count = count.val /\ n.at = 0 /\ n.in = count.rest
         /\ ~ (count.ok /\ count.val <= MaxTxOutPerMessage) => Fails(s, n)
<1> DEFINE ok == count.ok /\ count.val <= MaxTxOutPerMessage
           m == [s EXCEPT !.pc = "txOut", !.count = count.val, !.at = 0, !.in = count.rest]
           x == IF ok THEN m ELSE Unwound(s)
<1>1. /\ dec' = [dec EXCEPT ![d] = x] /\ mem' = mem /\ s.pc = "txIn" /\ s.at = s.count
      /\ DOMAIN s = Locals
  BY DEF ReadTxOutCount, BufferInv
<1>2. /\ m.job = s.job /\ m.flag = s.flag /\ m.refs = s.refs
      /\ m.total = s.total /\ m.scripts = s.scripts /\ m.msg = s.msg /\ m.pc = "txOut"
      /\ m.input = s.input /\ m.count = count.val /\ m.at = 0 /\ m.in = count.rest
  BY <1>1 DEF Locals
<1>3. Fails(s, Unwound(s))
  BY <1>1, UnwoundFails
<1> HIDE DEF m, ok, x
<1>4. n = x /\ Alone(d)
  BY <1>1, Goes
<1>5. ok => n = m
  BY <1>4 DEF x
<1>6. ~ ok => n = Unwound(s)
  BY <1>4 DEF x
<1>7. ok => /\ SameScripts(s, n) /\ n.msg = s.msg /\ n.pc = "txOut" /\ n.input = s.input
            /\ n.count = count.val /\ n.at = 0 /\ n.in = count.rest
  BY <1>2, <1>5 DEF SameScripts
<1>8. ~ ok => Fails(s, n)
  BY <1>3, <1>6
<1> QED
  BY <1>1, <1>4, <1>7, <1>8 DEF ok

\* The number of the items of a witness.
LEMMA ItemCountMoves ==
  ASSUME BufferInv, NEW d \in Decoders, ReadWitnessCount(d),
         NEW s, s = dec[d], NEW n, n = dec'[d], NEW count, count = ReadVarInt(s.in)
  PROVE  /\ Alone(d) /\ mem' = mem /\ s.pc \in {"txOut", "witness"} /\ s.at = s.count
         /\ s.flag /\ s.input < Len(s.msg.txIn)
         /\ count.ok /\ count.val <= MaxWitnessItemsPerInput =>
              /\ SameScripts(s, n) /\ n.msg = s.msg /\ n.pc = "witness" /\ n.input = s.input + 1
              /\ n.count = count.val /\ n.at = 0 /\ n.in = count.rest
         /\ ~ (count.ok /\ count.val <= MaxWitnessItemsPerInput) => Fails(s, n)
<1> DEFINE ok == count.ok /\ count.val <= MaxWitnessItemsPerInput
           m == [s EXCEPT !.pc = "witness", !.input = @ + 1, !.count = count.val, !.at = 0,
                          !.in = count.rest]
           x == IF ok THEN m ELSE Unwound(s)
<1>1. /\ dec' = [dec EXCEPT ![d] = x] /\ mem' = mem /\ s.pc \in {"txOut", "witness"}
      /\ s.at = s.count /\ s.flag /\ s.input < Len(s.msg.txIn) /\ DOMAIN s = Locals
  BY DEF ReadWitnessCount, BufferInv
<1>2. /\ m.job = s.job /\ m.flag = s.flag /\ m.refs = s.refs
      /\ m.total = s.total /\ m.scripts = s.scripts /\ m.msg = s.msg /\ m.pc = "witness"
      /\ m.input = s.input + 1 /\ m.count = count.val /\ m.at = 0 /\ m.in = count.rest
  BY <1>1 DEF Locals
<1>3. Fails(s, Unwound(s))
  BY <1>1, UnwoundFails
<1> HIDE DEF m, ok, x
<1>4. n = x /\ Alone(d)
  BY <1>1, Goes
<1>5. ok => n = m
  BY <1>4 DEF x
<1>6. ~ ok => n = Unwound(s)
  BY <1>4 DEF x
<1>7. ok => /\ SameScripts(s, n) /\ n.msg = s.msg /\ n.pc = "witness" /\ n.input = s.input + 1
            /\ n.count = count.val /\ n.at = 0 /\ n.in = count.rest
  BY <1>2, <1>5 DEF SameScripts
<1>8. ~ ok => Fails(s, n)
  BY <1>3, <1>6
<1> QED
  BY <1>1, <1>4, <1>7, <1>8 DEF ok

\* The lock time, after which the scripts are copied.
LEMMA LockTimeMoves ==
  ASSUME BufferInv, NEW d \in Decoders, ReadLockTime(d), DOMAIN dec[d].msg = MsgFields,
         NEW s, s = dec[d], NEW n, n = dec'[d], NEW r, r = Uint(s.in, 4)
  PROVE  /\ Alone(d) /\ mem' = mem /\ s.pc \in {"txOut", "witness"} /\ s.at = s.count
         /\ s.flag => s.input = Len(s.msg.txIn)
         /\ r.ok =>
              /\ SameScripts(s, n) /\ Messages(s, n, s.msg.txIn, s.msg.txOut) /\ n.msg.lockTime = r.val
              /\ n.pc = IF DOMAIN s.refs = {} THEN "done" ELSE "copy"
              /\ n.todo = DOMAIN s.refs /\ n.in = r.rest
         /\ ~ r.ok => Fails(s, n)
<1> DEFINE m == [s EXCEPT !.pc = IF DOMAIN s.refs = {} THEN "done" ELSE "copy",
                          !.todo = DOMAIN s.refs,
                          !.in = r.rest,
                          !.msg.lockTime = r.val]
           x == IF r.ok THEN m ELSE Unwound(s)
<1>1. /\ dec' = [dec EXCEPT ![d] = x] /\ mem' = mem /\ s.pc \in {"txOut", "witness"}
      /\ s.at = s.count /\ (s.flag => s.input = Len(s.msg.txIn)) /\ DOMAIN s = Locals
  BY DEF ReadLockTime, BufferInv
<1>2. /\ m.job = s.job /\ m.flag = s.flag /\ m.refs = s.refs
      /\ m.total = s.total /\ m.scripts = s.scripts /\ m.msg = [s.msg EXCEPT !.lockTime = r.val]
      /\ m.pc = IF DOMAIN s.refs = {} THEN "done" ELSE "copy"
      /\ m.todo = DOMAIN s.refs /\ m.in = r.rest
  BY <1>1 DEF Locals
<1>3. Fails(s, Unwound(s))
  BY <1>1, UnwoundFails
<1> HIDE DEF m, x
<1>4. n = x /\ Alone(d)
  BY <1>1, Goes
<1>5. r.ok => n = m
  BY <1>4 DEF x
<1>6. ~ r.ok => n = Unwound(s)
  BY <1>4 DEF x
<1>7. Messages(s, m, s.msg.txIn, s.msg.txOut) /\ m.msg.lockTime = r.val
  BY <1>2 DEF Messages, MsgFields
<1>8. r.ok => /\ SameScripts(s, n) /\ Messages(s, n, s.msg.txIn, s.msg.txOut) /\ n.msg.lockTime = r.val
              /\ n.pc = IF DOMAIN s.refs = {} THEN "done" ELSE "copy"
              /\ n.todo = DOMAIN s.refs /\ n.in = r.rest
  BY <1>2, <1>5, <1>7 DEF SameScripts
<1>9. ~ r.ok => Fails(s, n)
  BY <1>3, <1>6
<1> QED
  BY <1>1, <1>4, <1>8, <1>9

\* One value of a function is replaced.
LEMMA Replaced ==
  ASSUME NEW f, NEW x \in DOMAIN f, NEW v, NEW g, g = [f EXCEPT ![x] = v]
  PROVE  DOMAIN g = DOMAIN f /\ g[x] = v /\ \A y \in DOMAIN f \ {x} : g[y] = f[y]
OBVIOUS

\* What is left of a script once it is copied: a part of the contiguous buffer.
Copied(s, n, slot, text) ==
  /\ slot \in s.todo /\ n.todo = s.todo \ {slot} /\ n.scripts = s.scripts \o text
  /\ DOMAIN n.refs = DOMAIN s.refs
  /\ n.refs[slot].buf = Contiguous /\ n.refs[slot].off = Len(s.scripts)
  /\ n.refs[slot].len = s.refs[slot].len
  /\ \A p \in DOMAIN s.refs \ {slot} : n.refs[p] = s.refs[p]

\* A script is copied into the contiguous buffer.
LEMMA CopyMoves ==
  ASSUME BufferInv, NEW d \in Decoders, CopyScript(d),
         NEW s, s = dec[d], NEW n, n = dec'[d], NEW slot, slot = First(s.todo)
  PROVE  /\ Alone(d) /\ mem' = mem /\ s.pc = "copy" /\ n.pc = "return"
         /\ n.job = s.job /\ n.flag = s.flag /\ n.in = s.in /\ n.msg = s.msg /\ n.total = s.total
         /\ s.refs[slot].buf \in Bufs
         /\ Copied(s, n, slot, SubSeq(mem[s.refs[slot].buf].data, 1, s.refs[slot].len))
<1> DEFINE ref == s.refs[slot]
           text == SubSeq(mem[ref.buf].data, 1, ref.len)
           new == [buf |-> Contiguous, off |-> Len(s.scripts), len |-> ref.len]
           x == [s EXCEPT !.pc = "return",
                     !.held = ref.buf,
                     !.todo = @ \ {slot},
                     !.scripts = @ \o text,
                     !.refs[slot] = new]
<1>1. /\ dec' = [dec EXCEPT ![d] = x] /\ mem' = mem /\ s.pc = "copy"
      /\ DOMAIN s = Locals /\ Filed(s)
  BY DEF CopyScript, BufferInv
<1>2. slot \in s.todo /\ s.todo \subseteq DOMAIN s.refs /\ ref.buf \in Bufs
  BY <1>1, FirstSlot DEF Filed
<1>3. /\ x.pc = "return" /\ x.job = s.job /\ x.flag = s.flag /\ x.in = s.in /\ x.msg = s.msg
      /\ x.total = s.total /\ x.todo = s.todo \ {slot} /\ x.scripts = s.scripts \o text
      /\ x.refs = [s.refs EXCEPT ![slot] = new]
  <2> HIDE DEF text, new
  <2> QED
    BY <1>1 DEF Locals
<1>4. n = x /\ Alone(d)
  <2> HIDE DEF x
  <2> QED
    BY <1>1, Goes
<1> HIDE DEF x
<1>5. /\ DOMAIN n.refs = DOMAIN s.refs /\ n.refs[slot] = new
      /\ \A p \in DOMAIN s.refs \ {slot} : n.refs[p] = s.refs[p]
  <2> HIDE DEF new
  <2>1. slot \in DOMAIN s.refs
    BY <1>2
  <2>2. n.refs = [s.refs EXCEPT ![slot] = new]
    BY <1>3, <1>4
  <2> QED
    BY <2>1, <2>2, Replaced
<1>6. Copied(s, n, slot, text)
  <2> HIDE DEF text
  <2>1. new.buf = Contiguous /\ new.off = Len(s.scripts) /\ new.len = ref.len
    OBVIOUS
  <2> HIDE DEF new
  <2> QED
    BY <1>2, <1>3, <1>4, <1>5, <2>1 DEF Copied
<1> QED
  BY <1>1, <1>2, <1>3, <1>4, <1>6

\* The buffer of the script goes back.
LEMMA ReturnMoves ==
  ASSUME BufferInv, NEW d \in Decoders, ReturnScript(d), NEW s, s = dec[d], NEW n, n = dec'[d]
  PROVE  /\ Alone(d) /\ mem' = mem /\ s.pc = "return"
         /\ n.pc = IF s.todo = {} THEN "done" ELSE "copy"
         /\ SameScripts(s, n) /\ n.in = s.in /\ n.msg = s.msg /\ n.todo = s.todo
<1> DEFINE x == [s EXCEPT !.pc = IF s.todo = {} THEN "done" ELSE "copy",
                          !.held = Nil, !.lent = @ - 1]
<1>1. /\ dec' = [dec EXCEPT ![d] = x] /\ mem' = mem /\ s.pc = "return" /\ DOMAIN s = Locals
  BY DEF ReturnScript, BufferInv
<1>2. /\ x.pc = (IF s.todo = {} THEN "done" ELSE "copy") /\ x.job = s.job /\ x.flag = s.flag
      /\ x.refs = s.refs /\ x.total = s.total /\ x.scripts = s.scripts
      /\ x.in = s.in /\ x.msg = s.msg /\ x.todo = s.todo
  BY <1>1 DEF Locals
<1> HIDE DEF x
<1>3. n = x /\ Alone(d)
  BY <1>1, Goes
<1> QED
  BY <1>1, <1>2, <1>3 DEF SameScripts

\* What is left after an error.
LEMMA UnwindMoves ==
  ASSUME BufferInv, NEW d \in Decoders, UnwindScript(d) \/ UnwindEnd(d), NEW s, s = dec[d], NEW n, n = dec'[d]
  PROVE  /\ Alone(d) /\ mem' = mem /\ s.pc = "unwind" /\ n.pc \in {"unwind", "error"}
         /\ n.job = s.job
<1>1. CASE UnwindScript(d)
  <2> DEFINE x == [s EXCEPT !.todo = @ \ {First(s.todo)}, !.lent = @ - 1]
  <2>1. /\ dec' = [dec EXCEPT ![d] = x] /\ mem' = mem /\ s.pc = "unwind" /\ DOMAIN s = Locals
    BY <1>1 DEF UnwindScript, BufferInv
  <2>2. x.pc = s.pc /\ x.job = s.job
    BY <2>1 DEF Locals
  <2> HIDE DEF x
  <2>3. n = x /\ Alone(d)
    BY <2>1, Goes
  <2> QED
    BY <2>1, <2>2, <2>3
<1>2. CASE UnwindEnd(d)
  <2> DEFINE x == [s EXCEPT !.pc = "error"]
  <2>1. /\ dec' = [dec EXCEPT ![d] = x] /\ mem' = mem /\ s.pc = "unwind" /\ DOMAIN s = Locals
    BY <1>2 DEF UnwindEnd, BufferInv
  <2>2. x.pc = "error" /\ x.job = s.job
    BY <2>1 DEF Locals
  <2> HIDE DEF x
  <2>3. n = x /\ Alone(d)
    BY <2>1, Goes
  <2> QED
    BY <2>1, <2>2, <2>3
<1> QED
  BY <1>1, <1>2

-------------------------------------------------------------------------------
(* The scripts that a decoder has read.                                    *)

\* text is what readScript has read from s.
Reads(script, s, max, text) ==
  /\ text \in Seq(Byte) /\ Len(text) < Power(8) /\ Len(text) <= max
  /\ script.ref.len = Len(text) /\ script.ref.buf \in Bufs \ Lent
  /\ script.mem[script.ref.buf].data = text
  /\ script.rest \in Seq(Byte) /\ WriteVarBytes(text) \o script.rest = s

\* What is lent is not written.
Untouched(script) == DOMAIN script.mem = Bufs /\ \A b \in Lent : script.mem[b] = mem[b]

\* readScript is exact and writes into no buffer that is lent.
LEMMA ScriptExact ==
  ASSUME BufferInv, DOMAIN mem = Bufs, Unused # {}, NEW s \in Seq(Byte), NEW max,
         NEW script, script = readScript(s, max) \/ script = NoScript
  PROVE  /\ Untouched(script)
         /\ script.ok => \E text : Reads(script, s, max, text)
<1>1. CASE script = NoScript
  BY <1>1 DEF NoScript, Untouched
<1>2. CASE script # NoScript
  <2> DEFINE count == ReadVarInt(s)
             b == Borrow(count.val)
             r == ReadFull(count.rest, count.val)
  <2>1. script = FillScript(b, count, r) /\ count.ok /\ count.val <= max
    BY <1>2 DEF readScript
  <2>2. /\ count.rest \in Seq(Byte) /\ count.val \in Unsigneds(8)
        /\ WriteVarInt(count.val) \o count.rest = s
    BY <2>1, VarIntExact
  <2> HIDE DEF count
  <2>3. count.val \in Nat /\ count.val < Power(8)
    <3>1. Power(8) \in Nat
      BY PowerValues
    <3> QED
      BY <2>2, <3>1 DEF Unsigneds
  <2>4. /\ r.ok \in BOOLEAN /\ r.rest \in Seq(Byte)
        /\ r.ok => /\ r.val \in Seq(Byte) /\ Len(r.val) = count.val
                   /\ r.val \o r.rest = count.rest
    BY <2>2, <2>3, ReadFullExact
  <2> HIDE DEF r
  <2>5. b.buf \in Bufs \ Lent
    BY BorrowFree DEF BufferInv
  <2> HIDE DEF b
  <2>6. CASE r.ok
    <3>1. /\ script.ref.buf = b.buf /\ script.ref.len = count.val /\ script.rest = r.rest
          /\ script.mem = [mem EXCEPT ![b.buf] = [cap |-> b.cap, data |-> r.val]]
      BY <2>1, <2>6 DEF FillScript
    <3>2. DOMAIN script.mem = Bufs /\ \A c \in Lent : script.mem[c] = mem[c]
      BY <2>5, <3>1
    <3>3. script.mem[script.ref.buf].data = r.val
      BY <2>5, <3>1
    <3>4. WriteVarBytes(r.val) \o script.rest = s
      <4> DEFINE w == WriteVarInt(count.val)
                 t == r.val
                 e == r.rest
      <4>1. w \in Seq(Byte) /\ t \in Seq(Byte) /\ e \in Seq(Byte)
        BY <2>2, <2>4, <2>6, VarIntWritten
      <4>2. WriteVarBytes(r.val) = w \o t /\ script.rest = e /\ w \o (t \o e) = s
        BY <2>2, <2>4, <2>6, <3>1 DEF WriteVarBytes
      <4> HIDE DEF w, t, e
      <4>3. (w \o t) \o e = w \o (t \o e)
        BY <4>1, Assoc, SMTT(30)
      <4> QED
        BY <4>2, <4>3
    <3>5. Reads(script, s, max, r.val)
      BY <2>1, <2>3, <2>4, <2>5, <2>6, <3>1, <3>3, <3>4 DEF Reads
    <3> QED
      BY <3>2, <3>5 DEF Untouched
  <2>7. CASE ~ r.ok
    <3>1. ~ script.ok /\ script.mem = [mem EXCEPT ![b.buf] = [cap |-> b.cap, data |-> count.rest]]
      BY <2>1, <2>7 DEF FillScript, NoScript
    <3> QED
      BY <2>5, <3>1 DEF Untouched
  <2> QED
    BY <2>4, <2>6, <2>7
<1> QED
  BY <1>1, <1>2

\* The points at which nothing has gone wrong.
Live == {"txIn", "txOut", "witness", "copy", "return", "done"}

\* A script that was read: r says where it is.
Lies(r, m, scripts) ==
  /\ r.len \in Nat
  /\ r.buf \in Bufs => m[r.buf].data \in Seq(Byte) /\ Len(m[r.buf].data) = r.len
  /\ r.buf = Contiguous => r.off \in Nat /\ r.off + r.len <= Len(scripts)

Lens(s, S) == [p \in S |-> s.refs[p].len]

\* Where the scripts lie and how long they are together.
Sized(s, m) ==
  /\ s.pc \in Live \cup {"idle"} => DOMAIN s.msg = MsgFields
  /\ s.pc \in Live =>
       /\ s.scripts \in Seq(Byte) /\ IsFiniteSet(DOMAIN s.refs)
       /\ \A p \in DOMAIN s.refs : Lies(s.refs[p], m, s.scripts)
       /\ s.pc \in Reading => s.scripts = <<>> /\ s.total = Total(Lens(s, DOMAIN s.refs))
       /\ s.pc \notin Reading => Len(s.scripts) + Total(Lens(s, s.todo)) = s.total

SumInv == DOMAIN mem = Bufs /\ \A d \in Decoders : Sized(dec[d], mem)

\* The scripts of a decoder are where the others do not write.
LEMMA LentRefs ==
  ASSUME BufferInv, NEW d \in Decoders, dec[d].pc \in Live, NEW p \in DOMAIN dec[d].refs,
         dec[d].refs[p].buf \in Bufs
  PROVE  dec[d].refs[p].buf \in Lent
<1>1. Filed(dec[d])
  BY DEF BufferInv
<1>2. p # Temporary
  BY <1>1 DEF Filed, Temporary, Slot
<1>3. Buffer(d, p) = dec[d].refs[p].buf
  BY <1>2 DEF Buffer
<1>4. p \in Places(d)
  BY <1>3 DEF Places, Live
<1> QED
  BY <1>3, <1>4 DEF Lent

\* What lies in lent buffers stays there.
LEMMA SizedOn ==
  ASSUME BufferInv, NEW d \in Decoders, Sized(dec[d], mem),
         \A b \in Lent : mem'[b] = mem[b]
  PROVE  Sized(dec[d], mem')
<1> DEFINE s == dec[d]
<1>1. s.pc \in Live => \A p \in DOMAIN s.refs : s.refs[p].buf \in Bufs => mem'[s.refs[p].buf] = mem[s.refs[p].buf]
  BY LentRefs
<1> HIDE DEF s
<1>2. Sized(s, mem)
  BY DEF s
<1>3. Sized(s, mem')
  BY <1>1, <1>2 DEF Sized, Lies
<1> QED
  BY <1>3 DEF s

\* A step of one decoder.
LEMMA SizedStep ==
  ASSUME BufferInv, SumInv, NEW d \in Decoders, Alone(d), DOMAIN mem' = Bufs,
         \A b \in Lent : mem'[b] = mem[b], Sized(dec'[d], mem')
  PROVE  SumInv'
<1>1. ASSUME NEW e \in Decoders, e # d PROVE Sized(dec'[e], mem')
  <2>1. dec'[e] = dec[e] /\ Sized(dec[e], mem)
    BY <1>1 DEF Alone, SumInv
  <2> QED
    BY <2>1, SizedOn
<1>2. \A e \in Decoders : Sized(dec'[e], mem')
  BY <1>1
<1> QED
  BY <1>2 DEF SumInv

\* The lengths of scripts are numbers that can be summed up.
LEMMA LensSummand ==
  ASSUME NEW s, NEW S, IsFiniteSet(S), \A p \in S : s.refs[p].len \in Nat
  PROVE  Summand(Lens(s, S)) /\ DOMAIN Lens(s, S) = S /\ \A p \in S : Lens(s, S)[p] = s.refs[p].len
BY DEF Summand, Lens

\* At the start there is no script.
LEMMA StartsSized ==
  ASSUME NEW n, NEW job, NEW h, Starts(n, job, h), NEW m
  PROVE  Sized(n, m)
<1>1. DOMAIN n.refs = {} /\ n.scripts = <<>> /\ n.total = 0 /\ DOMAIN n.msg = MsgFields
      /\ n.pc \in {"txIn", "error"}
  BY DEF Starts
<1>2. IsFiniteSet(DOMAIN n.refs)
  BY <1>1, FS_EmptySet
<1>3. Total(Lens(n, DOMAIN n.refs)) = 0
  <2>1. Summand(Lens(n, DOMAIN n.refs)) /\ DOMAIN Lens(n, DOMAIN n.refs) = {}
    BY <1>1, <1>2, LensSummand
  <2> QED
    BY <2>1, TotalNat
<1>4. n.scripts \in Seq(Byte)
  BY <1>1
<1> QED
  BY <1>1, <1>2, <1>3, <1>4 DEF Sized, Live, Reading

\* After an error nothing is claimed.
LEMMA FailsSized ==
  ASSUME NEW s, NEW n, Fails(s, n), NEW m
  PROVE  Sized(n, m)
BY DEF Fails, Sized, Live

\* One more script.
LEMMA GrownSized ==
  ASSUME NEW s, NEW m, Sized(s, m), s.pc \in {"txIn", "txOut", "witness"},
         NEW n, NEW slot, NEW script, NEW rest, Grown(s, n, slot, script, rest),
         slot \notin DOMAIN s.refs, DOMAIN n.msg = MsgFields, script.ref.buf \in Bufs,
         m[script.ref.buf].data \in Seq(Byte), Len(m[script.ref.buf].data) = script.ref.len
  PROVE  Sized(n, m)
<1>1. /\ s.scripts = <<>> /\ s.total = Total(Lens(s, DOMAIN s.refs)) /\ IsFiniteSet(DOMAIN s.refs)
      /\ \A p \in DOMAIN s.refs : Lies(s.refs[p], m, s.scripts)
  BY DEF Sized, Live, Reading
<1>2. /\ n.pc = s.pc /\ DOMAIN n.refs = DOMAIN s.refs \cup {slot} /\ n.refs[slot] = script.ref
      /\ \A p \in DOMAIN s.refs : n.refs[p] = s.refs[p]
      /\ n.total = s.total + script.ref.len /\ n.scripts = s.scripts
  BY DEF Grown
<1>3. script.ref.len \in Nat /\ script.ref.buf # Contiguous
  BY BufNumbers
<1>4. IsFiniteSet(DOMAIN n.refs)
  BY <1>1, <1>2, FS_AddElement
<1>5. \A p \in DOMAIN n.refs : Lies(n.refs[p], m, n.scripts)
  <2>1. Lies(script.ref, m, n.scripts)
    BY <1>3 DEF Lies
  <2> QED
    BY <1>1, <1>2, <2>1
<1>6. n.total = Total(Lens(n, DOMAIN n.refs))
  <2>1. (\A p \in DOMAIN s.refs : s.refs[p].len \in Nat) /\ \A p \in DOMAIN n.refs : n.refs[p].len \in Nat
    BY <1>1, <1>5 DEF Lies
  <2> DEFINE f == Lens(s, DOMAIN s.refs)
             g == Lens(n, DOMAIN n.refs)
  <2>2. Summand(f) /\ DOMAIN f = DOMAIN s.refs /\ \A p \in DOMAIN s.refs : f[p] = s.refs[p].len
    BY <1>1, <2>1, LensSummand
  <2>3. Summand(g) /\ DOMAIN g = DOMAIN n.refs /\ \A p \in DOMAIN n.refs : g[p] = n.refs[p].len
    BY <1>4, <2>1, LensSummand
  <2> HIDE DEF f, g
  <2>4. /\ slot \notin DOMAIN f /\ DOMAIN g = DOMAIN f \cup {slot} /\ \A p \in DOMAIN f : g[p] = f[p]
        /\ g[slot] = script.ref.len
    BY <1>2, <2>2, <2>3
  <2>5. Total(g) = Total(f) + g[slot]
    BY <2>2, <2>3, <2>4, TotalAdd
  <2> QED
    BY <1>1, <1>2, <2>4, <2>5 DEF f, g
<1> QED
  BY <1>1, <1>2, <1>4, <1>5, <1>6 DEF Sized, Live, Reading

\* A number of outputs or items, the return of a buffer.
LEMMA KeptSized ==
  ASSUME NEW s, NEW m, Sized(s, m), s.pc \in Live, NEW n, SameScripts(s, n), DOMAIN n.msg = MsgFields,
         \/ s.pc \in Reading /\ n.pc \in {"txOut", "witness"}
         \/ s.pc \notin Reading /\ n.pc \in {"copy", "done"} /\ n.todo = s.todo
  PROVE  Sized(n, m)
<1>1. Lens(n, n.todo) = Lens(s, n.todo) /\ Lens(n, DOMAIN n.refs) = Lens(s, DOMAIN n.refs)
  BY DEF SameScripts, Lens
<1> QED
  BY <1>1 DEF SameScripts, Sized, Live, Reading

\* The end of what is read.
LEMMA ReadSized ==
  ASSUME NEW s, NEW m, Sized(s, m), s.pc \in {"txOut", "witness"}, NEW n, SameScripts(s, n),
         DOMAIN n.msg = MsgFields, n.pc \in {"copy", "done"}, n.todo = DOMAIN s.refs
  PROVE  Sized(n, m)
<1>1. Lens(n, n.todo) = Lens(s, DOMAIN s.refs)
  BY DEF SameScripts, Lens
<1>2. s.scripts = <<>> /\ s.total = Total(Lens(s, DOMAIN s.refs)) /\ IsFiniteSet(DOMAIN s.refs)
      /\ \A p \in DOMAIN s.refs : Lies(s.refs[p], m, s.scripts)
  BY DEF Sized, Live, Reading
<1>3. \A p \in DOMAIN s.refs : s.refs[p].len \in Nat
  BY <1>2 DEF Lies
<1>4. s.total \in Nat
  <2>1. Summand(Lens(s, DOMAIN s.refs))
    BY <1>2, <1>3, LensSummand
  <2> QED
    BY <1>2, <2>1, TotalNat
<1>5. Len(n.scripts) + Total(Lens(n, n.todo)) = n.total
  <2>1. Len(n.scripts) = 0 /\ n.total = s.total
    BY <1>2 DEF SameScripts
  <2> QED
    BY <1>1, <1>2, <1>4, <2>1
<1> QED
  BY <1>2, <1>5 DEF SameScripts, Sized, Live, Reading

\* A script is copied.
LEMMA CopiedSized ==
  ASSUME NEW s, NEW m, Sized(s, m), s.pc = "copy", NEW n, NEW slot, s.todo \subseteq DOMAIN s.refs,
         NEW text, Copied(s, n, slot, text), n.pc = "return", n.msg = s.msg, n.total = s.total,
         text \in Seq(Byte), Len(text) = s.refs[slot].len
  PROVE  Sized(n, m)
<1>1. /\ s.scripts \in Seq(Byte) /\ IsFiniteSet(DOMAIN s.refs)
      /\ \A p \in DOMAIN s.refs : Lies(s.refs[p], m, s.scripts)
      /\ Len(s.scripts) + Total(Lens(s, s.todo)) = s.total /\ DOMAIN s.msg = MsgFields
  BY DEF Sized, Live, Reading
<1>2. /\ slot \in s.todo /\ n.todo = s.todo \ {slot} /\ n.scripts = s.scripts \o text
      /\ DOMAIN n.refs = DOMAIN s.refs
      /\ n.refs[slot].buf = Contiguous /\ n.refs[slot].off = Len(s.scripts)
      /\ n.refs[slot].len = s.refs[slot].len
      /\ \A p \in DOMAIN s.refs \ {slot} : n.refs[p] = s.refs[p]
  BY DEF Copied
<1>3. n.scripts \in Seq(Byte) /\ Len(n.scripts) = Len(s.scripts) + s.refs[slot].len
      /\ Len(s.scripts) \in Nat /\ s.refs[slot].len \in Nat
  <2>1. Len(s.scripts \o text) = Len(s.scripts) + Len(text) /\ s.scripts \o text \in Seq(Byte)
    BY <1>1, PartsOf
  <2> QED
    BY <1>1, <1>2, <2>1
<1>4. \A p \in DOMAIN n.refs : Lies(n.refs[p], m, n.scripts)
  <2>1. ASSUME NEW p \in DOMAIN n.refs, p # slot PROVE Lies(n.refs[p], m, n.scripts)
    <3>1. n.refs[p] = s.refs[p] /\ Lies(s.refs[p], m, s.scripts)
      BY <1>1, <1>2, <2>1
    <3>2. Len(n.scripts) >= Len(s.scripts) /\ Len(n.scripts) \in Nat
      BY <1>3
    <3> QED
      BY <1>3, <3>1, <3>2, SMTT(30) DEF Lies
  <2>2. Lies(n.refs[slot], m, n.scripts)
    BY <1>2, <1>3, BufNumbers DEF Lies
  <2> QED
    BY <2>1, <2>2
<1>5. Len(n.scripts) + Total(Lens(n, n.todo)) = n.total
  <2> DEFINE f == Lens(n, n.todo)
             g == Lens(s, s.todo)
  <2>1. IsFiniteSet(s.todo) /\ IsFiniteSet(n.todo)
    BY <1>1, <1>2, FS_Subset
  <2>2. (\A p \in s.todo : s.refs[p].len \in Nat) /\ \A p \in n.todo : n.refs[p].len = s.refs[p].len
    BY <1>1, <1>2 DEF Lies
  <2>3. Summand(f) /\ DOMAIN f = n.todo /\ \A p \in n.todo : f[p] = s.refs[p].len
    <3>1. \A p \in n.todo : n.refs[p].len \in Nat
      BY <1>2, <2>2
    <3>2. Summand(f) /\ DOMAIN f = n.todo /\ \A p \in n.todo : f[p] = n.refs[p].len
      BY <2>1, <3>1, LensSummand
    <3> HIDE DEF f
    <3> QED
      BY <2>2, <3>2
  <2>4. Summand(g) /\ DOMAIN g = s.todo /\ \A p \in s.todo : g[p] = s.refs[p].len
    BY <2>1, <2>2, LensSummand
  <2> HIDE DEF f, g
  <2>5. /\ slot \notin DOMAIN f /\ DOMAIN g = DOMAIN f \cup {slot} /\ \A p \in DOMAIN f : g[p] = f[p]
        /\ g[slot] = s.refs[slot].len
    BY <1>2, <2>3, <2>4
  <2>6. Total(g) = Total(f) + g[slot] /\ Total(f) \in Nat
    BY <2>3, <2>4, <2>5, TotalAdd, TotalNat
  <2>7. Len(s.scripts) + Total(g) = s.total
    BY <1>1 DEF g
  <2>8. Len(n.scripts) + Total(f) = n.total
    BY <1>3, <2>5, <2>6, <2>7
  <2> QED
    BY <2>8 DEF f
<1>6. n.pc \in Live /\ n.pc \notin Reading /\ IsFiniteSet(DOMAIN n.refs) /\ DOMAIN n.msg = MsgFields
  BY <1>1, <1>2 DEF Live, Reading
<1> QED
  BY <1>3, <1>4, <1>5, <1>6 DEF Sized

\* The next script is a new one.
LEMMA NewSlot ==
  ASSUME BufferInv, NEW d \in Decoders, NEW s, s = dec[d]
  PROVE  /\ s.at \in Nat /\ s.input \in Nat
         /\ s.pc = "txIn" => <<"in", s.at + 1, 0>> \notin DOMAIN s.refs
         /\ s.pc = "txOut" => <<"out", s.at + 1, 0>> \notin DOMAIN s.refs
         /\ s.pc = "witness" => <<"in", s.input, s.at + 1>> \notin DOMAIN s.refs
<1>1. Reached(s)
  BY DEF BufferInv
<1>2. s.at \in Nat /\ s.input \in Nat
  BY <1>1 DEF Reached
<1>3. ASSUME s.pc = "txIn" PROVE <<"in", s.at + 1, 0>> \notin DOMAIN s.refs
  <2>1. \A p \in DOMAIN s.refs : p[2] <= s.at
    BY <1>1, <1>3 DEF Reached
  <2>2. <<"in", s.at + 1, 0>>[2] = s.at + 1
    OBVIOUS
  <2> QED
    BY <1>2, <2>1, <2>2
<1>4. ASSUME s.pc = "txOut" PROVE <<"out", s.at + 1, 0>> \notin DOMAIN s.refs
  <2>1. \A p \in DOMAIN s.refs : p[1] = "out" => p[2] <= s.at
    BY <1>1, <1>4 DEF Reached
  <2>2. <<"out", s.at + 1, 0>>[1] = "out" /\ <<"out", s.at + 1, 0>>[2] = s.at + 1
    OBVIOUS
  <2> QED
    BY <1>2, <2>1, <2>2
<1>5. ASSUME s.pc = "witness" PROVE <<"in", s.input, s.at + 1>> \notin DOMAIN s.refs
  <2>1. \A p \in DOMAIN s.refs : p[1] = "in" => p[3] = 0 \/ p[2] < s.input \/ p[3] <= s.at
    BY <1>1, <1>5 DEF Reached
  <2> DEFINE q == <<"in", s.input, s.at + 1>>
  <2>2. q[1] = "in" /\ q[2] = s.input /\ q[3] = s.at + 1
    OBVIOUS
  <2> HIDE DEF q
  <2>3. q \notin DOMAIN s.refs
    BY <1>2, <2>1, <2>2
  <2> QED
    BY <2>3 DEF q
<1> QED
  BY <1>2, <1>3, <1>4, <1>5

\* One more script, read from what some reader has left of the stream.
LEMMA ReadsSized ==
  ASSUME BufferInv, SumInv, NEW d \in Decoders, dec[d].pc \in {"txIn", "txOut", "witness"},
         NEW script, Untouched(script), mem' = script.mem,
         \E text, in, max : Reads(script, in, max, text),
         NEW slot, slot \notin DOMAIN dec[d].refs,
         NEW rest, Grown(dec[d], dec'[d], slot, script, rest), DOMAIN dec'[d].msg = MsgFields
  PROVE  Sized(dec'[d], mem')
<1> DEFINE s == dec[d]
           n == dec'[d]
           m == mem'
<1>1. Sized(dec[d], mem) /\ \A b \in Lent : mem'[b] = mem[b]
  BY DEF SumInv, Untouched
<1>2. Sized(s, m)
  BY <1>1, SizedOn
<1>3. /\ script.ref.buf \in Bufs /\ m[script.ref.buf].data \in Seq(Byte)
      /\ Len(m[script.ref.buf].data) = script.ref.len
  BY DEF Reads
<1>4. /\ s.pc \in {"txIn", "txOut", "witness"} /\ slot \notin DOMAIN s.refs
      /\ Grown(s, n, slot, script, rest) /\ DOMAIN n.msg = MsgFields
  OBVIOUS
<1> HIDE DEF s, n, m
<1>5. Sized(n, m)
  BY <1>2, <1>3, <1>4, GrownSized
<1> QED
  BY <1>5 DEF n, m

\* An input without its witness, and what is kept of it apart from the script.
InParts ==
  [hash : [1 .. HashSize -> Byte], index : Unsigneds(4), script : Slices(Byte),
   sequence : Unsigneds(4)]

HeadOf(x) == [hash |-> x.hash, index |-> x.index, sequence |-> x.sequence]

\* x is the input, or the output, that r has read from s.
TxInReads(r, s, x) ==
  /\ x \in InParts /\ r.ti = HeadOf(x)
  /\ \E in : Reads(r.script, in, MaxMessagePayload, x.script)
  /\ r.rest \in Seq(Byte) /\ writeTxIn(x) \o r.rest = s

TxOutReads(r, s, x) ==
  /\ x \in TxOuts /\ r.to = [value |-> x.value]
  /\ \E in : Reads(r.script, in, MaxMessagePayload, x.script)
  /\ r.rest \in Seq(Byte) /\ WriteTxOut(x) \o r.rest = s

\* An element of four bytes is a number.
LEMMA UintRead ==
  ASSUME NEW s
  PROVE  ReadElement(s, "uint32") = Uint(s, 4)
BY DEF ReadElement, ElementSize, Element, ByteArrays, Uint

\* Four parts and what follows them, from the left and from the right.
Regrouped(a, b, c, d, e) == (a \o b \o c \o d) \o e = a \o (b \o (c \o (d \o e)))

\* Five streams, grouped either way.
LEMMA FourParts ==
  ASSUME NEW a \in Seq(Byte), NEW b \in Seq(Byte), NEW c \in Seq(Byte), NEW d \in Seq(Byte),
         NEW e \in Seq(Byte)
  PROVE  Regrouped(a, b, c, d, e)
<1> DEFINE p == a \o b
           q == p \o c
           y == d \o e
           z == c \o y
<1>1. p \in Seq(Byte) /\ y \in Seq(Byte)
  OBVIOUS
<1>2. y \in Seq(Byte) => z \in Seq(Byte)
  <2> HIDE DEF y
  <2> QED
    OBVIOUS
<1>3. p \in Seq(Byte) => q \in Seq(Byte)
  <2> HIDE DEF p
  <2> QED
    OBVIOUS
<1>4. z \in Seq(Byte) => p \o z = a \o (b \o z)
  <2> HIDE DEF z
  <2> QED
    BY Assoc, ZenonT(60) DEF p
<1>5. (q \o d) \o e = q \o y
  <2>1. q \in Seq(Byte)
    BY <1>1, <1>3
  <2> HIDE DEF q
  <2> QED
    BY <2>1, Assoc, Zenon DEF y
<1> HIDE DEF p, y
<1>6. q \o y = p \o z
  <2>1. p \in Seq(Byte)
    BY <1>1
  <2>2. y \in Seq(Byte)
    BY <1>1
  <2> HIDE DEF q, z
  <2>3. \A x \in Seq(Byte) : (p \o c) \o x = p \o (c \o x)
    BY <2>1, Assoc, Zenon
  <2>4. (p \o c) \o y = p \o (c \o y)
    BY <2>2, <2>3, Zenon
  <2> QED
    BY <2>4 DEF q, z
<1> HIDE DEF q, z
<1>7. (q \o d) \o e = a \o (b \o z)
  BY <1>1, <1>2, <1>4, <1>5, <1>6
<1> QED
  BY <1>7 DEF p, q, y, z, Regrouped

\* readTxIn is exact.
LEMMA TxInExact ==
  ASSUME BufferInv, DOMAIN mem = Bufs, Unused # {}, NEW s \in Seq(Byte),
         NEW r, r = readTxIn(s)
  PROVE  /\ Untouched(r.script)
         /\ r.ok => \E x : TxInReads(r, s, x)
<1> DEFINE hash == ReadFull(s, HashSize)
           index == Uint(hash.rest, 4)
           op == readOutPoint(s)
           script == IF op.ok THEN readScript(op.rest, MaxMessagePayload) ELSE NoScript
           seq == ReadElement(script.rest, "uint32")
<1>1. /\ r.ok = (script.ok /\ seq.ok) /\ r.script = script /\ r.rest = seq.rest
      /\ r.ti = [hash |-> op.hash, index |-> op.index, sequence |-> seq.val]
  BY DEF readTxIn
<1>2. op = IF hash.ok /\ index.ok
             THEN [ok |-> TRUE, hash |-> hash.val, index |-> index.val, rest |-> index.rest]
             ELSE [ok |-> FALSE, hash |-> <<>>, index |-> 0, rest |-> <<>>]
  BY DEF readOutPoint
<1>3. /\ HashSize \in Nat /\ hash.ok \in BOOLEAN /\ hash.rest \in Seq(Byte)
      /\ hash.ok => hash.val \in Seq(Byte) /\ Len(hash.val) = HashSize /\ hash.val \o hash.rest = s
  BY WireAssumption, ReadFullExact
<1> HIDE DEF hash
<1>4. /\ index.ok \in BOOLEAN /\ index.rest \in Seq(Byte)
      /\ index.ok => index.val \in Unsigneds(4) /\ Put(4, index.val) \o index.rest = hash.rest
  BY <1>3, UintExact
<1> HIDE DEF index
<1>5. op.rest \in Seq(Byte)
  BY <1>2, <1>4
<1>6. /\ op.ok <=> hash.ok /\ index.ok
      /\ op.ok => op.hash = hash.val /\ op.index = index.val /\ op.rest = index.rest
  BY <1>2
<1> HIDE DEF op
<1>7. script = readScript(op.rest, MaxMessagePayload) \/ script = NoScript
  OBVIOUS
<1>8. script.ok => op.ok
  BY DEF NoScript
<1> HIDE DEF script
<1>9. /\ Untouched(script)
      /\ script.ok => \E text : Reads(script, op.rest, MaxMessagePayload, text)
  BY <1>5, <1>7, ScriptExact
<1>10. ASSUME r.ok PROVE \E x : TxInReads(r, s, x)
  <2>1. script.ok /\ seq.ok /\ op.ok /\ hash.ok /\ index.ok
    BY <1>1, <1>3, <1>4, <1>6, <1>8, <1>10
  <2>2. PICK text : Reads(script, op.rest, MaxMessagePayload, text)
    BY <1>9, <2>1
  <2>3. /\ text \in Seq(Byte) /\ script.rest \in Seq(Byte)
        /\ WriteVarBytes(text) \o script.rest = op.rest /\ Len(text) \in Unsigneds(8)
    <3>1. Power(8) \in Nat
      BY PowerValues
    <3> QED
      BY <2>2, <3>1 DEF Reads, Unsigneds
  <2>4. seq = Uint(script.rest, 4)
    BY <2>3, UintRead
  <2>5. seq.val \in Unsigneds(4) /\ seq.rest \in Seq(Byte) /\ Put(4, seq.val) \o seq.rest = script.rest
    BY <2>1, <2>3, <2>4, UintExact, ZenonT(60)
  <2> HIDE DEF seq
  <2> DEFINE h == op.hash
             i == Put(4, op.index)
             v == WriteVarBytes(text)
             q == Put(4, seq.val)
             e == seq.rest
  <2>6. h \in Seq(Byte) /\ Len(h) = HashSize /\ h \o hash.rest = s
    BY <1>3, <1>6, <2>1
  <2>7. op.index \in Unsigneds(4) /\ i \o op.rest = hash.rest
    BY <1>4, <1>6, <2>1
  <2>8. i \in Seq(Byte) /\ q \in Seq(Byte)
    <3>1. 4 \in Nat /\ op.index \in Int /\ seq.val \in Int
      BY <2>5, <2>7, Numbers
    <3> QED
      BY <3>1, Puts
  <2>9. v \in Seq(Byte)
    BY <2>3, VarIntWritten DEF WriteVarBytes
  <2>10. e \in Seq(Byte) /\ q \o e = script.rest /\ v \o script.rest = op.rest
    BY <2>3, <2>5
  <2> DEFINE ti == [hash |-> op.hash, index |-> op.index, script |-> text,
                    sequence |-> seq.val]
  <2>11. r.ti = HeadOf(ti) /\ r.rest = e /\ r.script = script
    BY <1>1 DEF HeadOf, seq
  <2>12. ti.hash = h /\ ti.index = op.index /\ ti.script = text /\ ti.sequence = seq.val
    OBVIOUS
  <2>14. ti \in InParts
    <3>1. h \in [1 .. HashSize -> Byte] /\ text \in Slices(Byte)
      BY <2>2, <2>6 DEF Slices, Reads
    <3> QED
      BY <2>5, <2>7, <3>1 DEF InParts
  <2> HIDE DEF ti
  <2>13. writeTxIn(ti) = h \o i \o v \o q
    BY <2>12 DEF writeTxIn
  <2> HIDE DEF h, i, v, q, e
  <2>15. (h \o i \o v \o q) \o e = h \o (i \o (v \o (q \o e)))
    <3>1. h \in Seq(Byte)
      BY <2>6
    <3>2. i \in Seq(Byte) /\ q \in Seq(Byte)
      BY <2>8
    <3>3. v \in Seq(Byte)
      BY <2>9
    <3>4. e \in Seq(Byte)
      BY <2>10
    <3>5. Regrouped(h, i, v, q, e)
      BY <3>1, <3>2, <3>3, <3>4, FourParts, Zenon
    <3> QED
      BY <3>5 DEF Regrouped
  <2>16. writeTxIn(ti) \o e = s
    BY <2>6, <2>7, <2>10, <2>13, <2>15
  <2>17. TxInReads(r, s, ti)
    <3>1. \E in : Reads(r.script, in, MaxMessagePayload, ti.script)
      BY <2>2, <2>11, <2>12
    <3> QED
      BY <2>10, <2>11, <2>14, <2>16, <3>1 DEF TxInReads
  <2> QED
    BY <2>17
<1> QED
  BY <1>1, <1>9, <1>10

\* readTxOut is exact.
LEMMA TxOutExact ==
  ASSUME BufferInv, DOMAIN mem = Bufs, Unused # {}, NEW s \in Seq(Byte),
         NEW r, r = readTxOut(s)
  PROVE  /\ Untouched(r.script)
         /\ r.ok => \E x : TxOutReads(r, s, x)
<1> DEFINE f == ReadFull(s, 8)
           value == ReadElement(s, "int64")
           script == IF value.ok THEN readScript(value.rest, MaxMessagePayload) ELSE NoScript
<1>1. /\ r.ok = script.ok /\ r.script = script /\ r.rest = script.rest
      /\ r.to = [value |-> value.val]
  BY DEF readTxOut
<1>2. /\ f.ok \in BOOLEAN /\ f.rest \in Seq(Byte)
      /\ f.ok => f.val \in Seq(Byte) /\ Len(f.val) = 8 /\ f.val \o f.rest = s
  BY ReadFullExact
<1>3. value = IF f.ok THEN Found(Signed(Len(f.val), Value(f.val)), f.rest) ELSE Failed
  BY Int64Read
<1> HIDE DEF f, value
<1>4. value.rest \in Seq(Byte)
  BY <1>2, <1>3, NoBytes DEF Found, Failed
<1>5. value.ok => f.ok /\ value.val = Signed(8, Value(f.val)) /\ value.rest = f.rest
  BY <1>2, <1>3 DEF Found, Failed
<1>6. script = readScript(value.rest, MaxMessagePayload) \/ script = NoScript
  OBVIOUS
<1>7. script.ok => value.ok
  BY DEF NoScript
<1> HIDE DEF script
<1>8. /\ Untouched(script)
      /\ script.ok => \E text : Reads(script, value.rest, MaxMessagePayload, text)
  BY <1>4, <1>6, ScriptExact
<1>9. ASSUME r.ok PROVE \E x : TxOutReads(r, s, x)
  <2>1. script.ok /\ value.ok /\ f.ok
    BY <1>1, <1>5, <1>7, <1>9
  <2>2. PICK text : Reads(script, value.rest, MaxMessagePayload, text)
    BY <1>8, <2>1
  <2>3. /\ text \in Seq(Byte) /\ script.rest \in Seq(Byte)
        /\ WriteVarBytes(text) \o script.rest = value.rest /\ Len(text) \in Unsigneds(8)
    <3>1. Power(8) \in Nat
      BY PowerValues
    <3> QED
      BY <2>2, <3>1 DEF Reads, Unsigneds
  <2>4. f.val \in Seq(Byte) /\ Len(f.val) = 8 /\ f.val \o f.rest = s
    BY <1>2, <2>1
  <2>5. value.val \in Ints(8) /\ Put(8, value.val) = f.val
    <3>1. 8 \in Nat /\ Power(8) % 2 = 0
      BY PowerValues
    <3>2. Signed(8, Value(f.val)) \in Ints(8) /\ Put(8, Signed(8, Value(f.val))) = f.val
      BY <2>4, <3>1, SignedNumbers
    <3> QED
      BY <1>5, <2>1, <3>2
  <2>6. WriteVarBytes(text) \in Seq(Byte)
    BY <2>3, VarIntWritten DEF WriteVarBytes
  <2> DEFINE i == f.val
             v == WriteVarBytes(text)
             e == script.rest
             to == [value |-> value.val, script |-> text]
  <2>7. to.value = value.val /\ to.script = text /\ r.to = [value |-> to.value]
    BY <1>1
  <2>15. to \in TxOuts
    BY <2>2, <2>5 DEF TxOuts, Slices, Reads
  <2> HIDE DEF to
  <2>8. WriteTxOut(to) = i \o v
    BY <2>5, <2>7 DEF WriteTxOut
  <2>9. (i \o v) \o e = i \o (v \o e)
    <3>1. i \in Seq(Byte) /\ v \in Seq(Byte) /\ e \in Seq(Byte)
      BY <2>3, <2>4, <2>6
    <3> HIDE DEF i, v, e
    <3> QED
      BY <3>1, Assoc, SMTT(30)
  <2>10. v \o e = f.rest
    BY <1>5, <2>1, <2>3
  <2> HIDE DEF i, v, e
  <2>11. WriteTxOut(to) \o e = i \o f.rest
    BY <2>8, <2>9, <2>10
  <2>12. WriteTxOut(to) \o script.rest = s
    BY <2>4, <2>11 DEF i, e
  <2>13. \E in : Reads(r.script, in, MaxMessagePayload, to.script)
    BY <1>1, <2>2, <2>7
  <2>14. TxOutReads(r, s, to)
    BY <1>1, <2>3, <2>7, <2>12, <2>13, <2>15 DEF TxOutReads
  <2> QED
    BY <2>14
<1> QED
  BY <1>1, <1>8, <1>9

\* Initially no decoder has a script.
LEMMA SumInvInit == Init => SumInv
<1> SUFFICES ASSUME Init PROVE SumInv
  OBVIOUS
<1>1. DOMAIN mem = Bufs
  BY DEF Init
<1>2. ASSUME NEW d \in Decoders PROVE Sized(dec[d], mem)
  <2>1. dec[d].pc = "idle" /\ dec[d].msg = EmptyMsg
    BY DEF Init, Idle
  <2> QED
    BY <2>1 DEF Sized, Live, EmptyMsg, MsgFields
<1> QED
  BY <1>1, <1>2 DEF SumInv

\* The steps that leave the buffers alone.
LEMMA SizedQuiet ==
  ASSUME BufferInv, SumInv, NEW d \in Decoders, Alone(d), mem' = mem, Sized(dec'[d], mem)
  PROVE  SumInv'
<1>1. DOMAIN mem' = Bufs /\ \A b \in Lent : mem'[b] = mem[b]
  BY DEF SumInv
<1>2. Sized(dec'[d], mem')
  BY Zenon
<1> QED
  BY <1>1, <1>2, SizedStep

\* An input adds its script.
LEMMA SumInvTxIn ==
  ASSUME BufferInv, StreamInv, SumInv, NEW d \in Decoders, DecodeTxIn(d)
  PROVE  SumInv'
<1> DEFINE s == dec[d]
           n == dec'[d]
           r == readTxIn(s.in)
           slot == <<"in", s.at + 1, 0>>
<1>1. /\ s.in \in Seq(Byte) /\ Sized(s, mem) /\ DOMAIN mem = Bufs /\ s.pc = "txIn"
      /\ DOMAIN s.msg = MsgFields
  BY DEF StreamInv, SumInv, DecodeTxIn, Sized, Live
<1>2. /\ Alone(d) /\ mem' = r.script.mem /\ Unused # {}
      /\ r.ok => Grown(s, n, slot, r.script, r.rest) /\ DOMAIN n.msg = MsgFields
      /\ ~ r.ok => Fails(s, n)
  BY <1>1, TxInMoves DEF Messages
<1>3. /\ Untouched(r.script)
      /\ r.ok => \E x : TxInReads(r, s.in, x)
  BY <1>1, <1>2, TxInExact
<1>4. s.pc = "txIn" => slot \notin DOMAIN s.refs
  BY NewSlot
<1> HIDE DEF r, slot
<1>5. CASE r.ok
  <2>1. PICK text, in : Reads(r.script, in, MaxMessagePayload, text)
    BY <1>3, <1>5 DEF TxInReads
  <2>2. Sized(n, mem')
    <3> DEFINE script == r.script
    <3>1. Untouched(script) /\ mem' = script.mem
      BY <1>2, <1>3
    <3>2. slot \notin DOMAIN dec[d].refs /\ dec[d].pc \in {"txIn", "txOut", "witness"}
      BY <1>1, <1>4
    <3>3. Grown(dec[d], dec'[d], slot, script, r.rest) /\ DOMAIN dec'[d].msg = MsgFields
      BY <1>2, <1>5
    <3>4. \E x, y, z : Reads(script, y, z, x)
      BY <2>1
    <3> HIDE DEF script
    <3> QED
      BY <3>1, <3>2, <3>3, <3>4, ReadsSized
  <2> QED
    BY <1>2, <1>3, <2>2, SizedStep DEF Untouched
<1>6. CASE ~ r.ok
  <2>1. Sized(n, mem')
    BY <1>2, <1>6, FailsSized, SMTT(30)
  <2> QED
    BY <1>2, <1>3, <2>1, SizedStep DEF Untouched
<1> QED
  BY <1>5, <1>6, SMTT(30)

\* An output adds its script.
LEMMA SumInvTxOut ==
  ASSUME BufferInv, StreamInv, SumInv, NEW d \in Decoders, DecodeTxOut(d)
  PROVE  SumInv'
<1> DEFINE s == dec[d]
           n == dec'[d]
           r == readTxOut(s.in)
           slot == <<"out", s.at + 1, 0>>
<1>1. /\ s.in \in Seq(Byte) /\ Sized(s, mem) /\ DOMAIN mem = Bufs /\ s.pc = "txOut"
      /\ DOMAIN s.msg = MsgFields
  BY DEF StreamInv, SumInv, DecodeTxOut, Sized, Live
<1>2. /\ Alone(d) /\ mem' = r.script.mem /\ Unused # {}
      /\ r.ok => Grown(s, n, slot, r.script, r.rest) /\ DOMAIN n.msg = MsgFields
      /\ ~ r.ok => Fails(s, n)
  BY <1>1, TxOutMoves DEF Messages
<1>3. /\ Untouched(r.script)
      /\ r.ok => \E x : TxOutReads(r, s.in, x)
  BY <1>1, <1>2, TxOutExact
<1>4. s.pc = "txOut" => slot \notin DOMAIN s.refs
  BY NewSlot
<1> HIDE DEF r, slot
<1>5. CASE r.ok
  <2>1. PICK text, in : Reads(r.script, in, MaxMessagePayload, text)
    BY <1>3, <1>5 DEF TxOutReads
  <2>2. Sized(n, mem')
    <3> DEFINE script == r.script
    <3>1. Untouched(script) /\ mem' = script.mem
      BY <1>2, <1>3
    <3>2. slot \notin DOMAIN dec[d].refs /\ dec[d].pc \in {"txIn", "txOut", "witness"}
      BY <1>1, <1>4
    <3>3. Grown(dec[d], dec'[d], slot, script, r.rest) /\ DOMAIN dec'[d].msg = MsgFields
      BY <1>2, <1>5
    <3>4. \E x, y, z : Reads(script, y, z, x)
      BY <2>1
    <3> HIDE DEF script
    <3> QED
      BY <3>1, <3>2, <3>3, <3>4, ReadsSized
  <2> QED
    BY <1>2, <1>3, <2>2, SizedStep DEF Untouched
<1>6. CASE ~ r.ok
  <2>1. Sized(n, mem')
    BY <1>2, <1>6, FailsSized
  <2> QED
    BY <1>2, <1>3, <2>1, SizedStep DEF Untouched
<1> QED
  BY <1>5, <1>6

\* An item of a witness adds its script.
LEMMA SumInvItem ==
  ASSUME BufferInv, StreamInv, SumInv, NEW d \in Decoders, ReadWitnessItem(d)
  PROVE  SumInv'
<1> DEFINE s == dec[d]
           n == dec'[d]
           r == readScript(s.in, MaxWitnessItemSize)
           slot == <<"in", s.input, s.at + 1>>
<1>1. /\ s.in \in Seq(Byte) /\ Sized(s, mem) /\ DOMAIN mem = Bufs /\ s.pc = "witness"
      /\ DOMAIN s.msg = MsgFields
  BY DEF StreamInv, SumInv, ReadWitnessItem, Sized, Live
<1>2. /\ Alone(d) /\ mem' = r.mem /\ Unused # {}
      /\ r.ok => Grown(s, n, slot, r, r.rest) /\ DOMAIN n.msg = MsgFields
      /\ ~ r.ok => Fails(s, n)
  BY <1>1, ItemMoves DEF Messages
<1>3. /\ Untouched(r)
      /\ r.ok => \E text : Reads(r, s.in, MaxWitnessItemSize, text)
  BY <1>1, <1>2, ScriptExact
<1>4. s.pc = "witness" => slot \notin DOMAIN s.refs
  BY NewSlot
<1> HIDE DEF r, slot
<1>5. CASE r.ok
  <2>1. PICK text : Reads(r, s.in, MaxWitnessItemSize, text)
    BY <1>3, <1>5
  <2>2. Sized(n, mem')
    <3> DEFINE script == r
    <3>1. Untouched(script) /\ mem' = script.mem
      BY <1>2, <1>3
    <3>2. slot \notin DOMAIN dec[d].refs /\ dec[d].pc \in {"txIn", "txOut", "witness"}
      BY <1>1, <1>4
    <3>3. Grown(dec[d], dec'[d], slot, script, r.rest) /\ DOMAIN dec'[d].msg = MsgFields
      BY <1>2, <1>5
    <3>4. \E x, y, z : Reads(script, y, z, x)
      BY <2>1
    <3> HIDE DEF script
    <3> QED
      BY <3>1, <3>2, <3>3, <3>4, ReadsSized
  <2> QED
    BY <1>2, <1>3, <2>2, SizedStep DEF Untouched
<1>6. CASE ~ r.ok
  <2>1. Sized(n, mem')
    BY <1>2, <1>6, FailsSized
  <2> QED
    BY <1>2, <1>3, <2>1, SizedStep DEF Untouched
<1> QED
  BY <1>5, <1>6

\* The decoders that do not read a script.
LEMMA SumInvQuiet ==
  ASSUME BufferInv, SumInv, NEW d \in Decoders,
         \/ Decode(d) \/ ReadTxOutCount(d) \/ ReadWitnessCount(d) \/ ReadLockTime(d)
         \/ CopyScript(d) \/ ReturnScript(d) \/ UnwindScript(d) \/ UnwindEnd(d)
  PROVE  SumInv'
<1> DEFINE s == dec[d]
           n == dec'[d]
<1>1. Sized(s, mem) /\ Filed(s)
  BY DEF SumInv, BufferInv
<1>2. CASE Decode(d)
  <2>1. Alone(d) /\ mem' = mem
    BY <1>2, DecodeMoves
  <2>2. PICK job \in Inputs[d] : Starts(n, job, ReadHeader(job.bytes, job.enc))
    BY <1>2, DecodeMoves
  <2>3. Sized(n, mem)
    BY <2>2, StartsSized
  <2> QED
    BY <2>1, <2>3, SizedQuiet
<1>3. CASE ReadTxOutCount(d)
  <2> DEFINE count == ReadVarInt(s.in)
             ok == count.ok /\ count.val <= MaxTxOutPerMessage
  <2>1. /\ Alone(d) /\ mem' = mem /\ s.pc = "txIn"
        /\ ok => SameScripts(s, n) /\ n.msg = s.msg /\ n.pc = "txOut"
        /\ ~ ok => Fails(s, n)
    BY <1>3, OutCountMoves
  <2> HIDE DEF ok
  <2>2. ok => Sized(n, mem)
    <3>1. DOMAIN s.msg = MsgFields
      BY <1>1, <2>1 DEF Sized, Live
    <3> HIDE DEF s, n
    <3> QED
      BY <1>1, <2>1, <3>1, KeptSized DEF Live, Reading
  <2>3. ~ ok => Sized(n, mem)
    BY <2>1, FailsSized
  <2> QED
    BY <2>1, <2>2, <2>3, SizedQuiet
<1>4. CASE ReadWitnessCount(d)
  <2> DEFINE count == ReadVarInt(s.in)
             ok == count.ok /\ count.val <= MaxWitnessItemsPerInput
  <2>1. /\ Alone(d) /\ mem' = mem /\ s.pc \in {"txOut", "witness"}
        /\ ok => SameScripts(s, n) /\ n.msg = s.msg /\ n.pc = "witness"
        /\ ~ ok => Fails(s, n)
    BY <1>4, ItemCountMoves
  <2> HIDE DEF ok
  <2>2. ok => Sized(n, mem)
    <3>1. DOMAIN s.msg = MsgFields
      BY <1>1, <2>1 DEF Sized, Live
    <3> HIDE DEF s, n
    <3> QED
      BY <1>1, <2>1, <3>1, KeptSized DEF Live, Reading
  <2>3. ~ ok => Sized(n, mem)
    BY <2>1, FailsSized
  <2> QED
    BY <2>1, <2>2, <2>3, SizedQuiet
<1>5. CASE ReadLockTime(d)
  <2> DEFINE r == Uint(s.in, 4)
  <2>0. s.pc \in {"txOut", "witness"}
    BY <1>5 DEF ReadLockTime
  <2>1. DOMAIN s.msg = MsgFields
    BY <1>1, <2>0 DEF Sized, Live
  <2>2. /\ Alone(d) /\ mem' = mem
        /\ r.ok => /\ SameScripts(s, n) /\ DOMAIN n.msg = MsgFields /\ n.pc \in {"copy", "done"}
                   /\ n.todo = DOMAIN s.refs
        /\ ~ r.ok => Fails(s, n)
    BY <1>5, <2>1, LockTimeMoves DEF Messages
  <2> HIDE DEF r
  <2>3. r.ok => Sized(n, mem)
    <3> HIDE DEF s, n
    <3> QED
      BY <1>1, <2>0, <2>2, ReadSized
  <2>4. ~ r.ok => Sized(n, mem)
    BY <2>2, FailsSized
  <2> QED
    BY <2>2, <2>3, <2>4, SizedQuiet
<1>6. CASE CopyScript(d)
  <2> DEFINE slot == First(s.todo)
             ref == s.refs[slot]
             text == SubSeq(mem[ref.buf].data, 1, ref.len)
  <2>1. /\ Alone(d) /\ mem' = mem /\ s.pc = "copy" /\ n.pc = "return" /\ n.msg = s.msg
        /\ n.total = s.total /\ ref.buf \in Bufs /\ Copied(s, n, slot, text)
    BY <1>6, CopyMoves, SMTT(30)
  <2>2. slot \in DOMAIN s.refs /\ s.todo \subseteq DOMAIN s.refs
    BY <1>1, <2>1 DEF Filed, Copied
  <2>3. text \in Seq(Byte) /\ Len(text) = ref.len
    <3>1. Lies(s.refs[slot], mem, s.scripts)
      BY <1>1, <2>1, <2>2, SMTT(30) DEF Sized, Live
    <3>2. mem[ref.buf].data \in Seq(Byte) /\ Len(mem[ref.buf].data) = ref.len /\ ref.len \in Nat
      BY <2>1, <3>1 DEF Lies
    <3> DEFINE data == mem[ref.buf].data
    <3>3. data \in Seq(Byte) /\ Len(data) \in 0 .. Len(data) /\ text = SubSeq(data, 1, Len(data))
      BY <3>2
    <3> HIDE DEF data, text
    <3>4. text \in Seq(Byte) /\ Len(text) = Len(data)
      BY <3>3, Parts
    <3> QED
      BY <3>2, <3>4 DEF data
  <2> HIDE DEF text, slot, s, n
  <2>4. Sized(n, mem)
    BY <1>1, <2>1, <2>2, <2>3, CopiedSized
  <2> QED
    BY <2>1, <2>4, SizedQuiet DEF n
<1>7. CASE ReturnScript(d)
  <2>1. /\ Alone(d) /\ mem' = mem /\ s.pc = "return" /\ n.pc \in {"copy", "done"}
        /\ SameScripts(s, n) /\ n.msg = s.msg /\ n.todo = s.todo
    BY <1>7, ReturnMoves
  <2>2. Sized(n, mem)
    <3>1. DOMAIN s.msg = MsgFields
      BY <1>1, <2>1 DEF Sized, Live
    <3> HIDE DEF s, n
    <3> QED
      BY <1>1, <2>1, <3>1, KeptSized DEF Live, Reading
  <2> QED
    BY <2>1, <2>2, SizedQuiet
<1>8. CASE UnwindScript(d) \/ UnwindEnd(d)
  <2>1. Alone(d) /\ mem' = mem /\ n.pc \in {"unwind", "error"}
    BY <1>8, UnwindMoves
  <2>2. Sized(n, mem)
    BY <2>1 DEF Sized, Live
  <2> QED
    BY <2>1, <2>2, SizedQuiet
<1> QED
  BY <1>2, <1>3, <1>4, <1>5, <1>6, <1>7, <1>8

\* Every step keeps the sums.
LEMMA SumInvStep == BufferInv /\ StreamInv /\ SumInv /\ [Next]_vars => SumInv'
<1> SUFFICES ASSUME BufferInv, StreamInv, SumInv, [Next]_vars PROVE SumInv'
  OBVIOUS
<1>1. CASE UNCHANGED vars
  BY <1>1, SMTT(30) DEF vars, SumInv, Sized, Lies, Lens
<1>2. CASE Next
  <2>1. PICK d \in Decoders :
          \/ DecodeTxIn(d) \/ DecodeTxOut(d) \/ ReadWitnessItem(d)
          \/ Decode(d) \/ ReadTxOutCount(d) \/ ReadWitnessCount(d) \/ ReadLockTime(d)
          \/ CopyScript(d) \/ ReturnScript(d) \/ UnwindScript(d) \/ UnwindEnd(d)
    BY <1>2, Zenon DEF Next
  <2> QED
    BY <2>1, SumInvTxIn, SumInvTxOut, SumInvItem, SumInvQuiet
<1> QED
  BY <1>1, <1>2

\* The sums are what ScriptsFit says.
LEMMA SumInvFits ==
  ASSUME SumInv
  PROVE  ScriptsFit
<1>1. ASSUME NEW d \in Decoders, dec[d].pc \in {"copy", "return", "done"}
      PROVE  Len(dec[d].scripts) + Total([p \in dec[d].todo |-> dec[d].refs[p].len]) = dec[d].total
  <2>1. Sized(dec[d], mem) /\ dec[d].pc \in Live /\ dec[d].pc \notin Reading
    BY <1>1 DEF SumInv, Live, Reading
  <2> QED
    BY <2>1 DEF Sized, Lens
<1> QED
  BY <1>1 DEF ScriptsFit

\* totalScriptSize has counted every script once: the block of the scripts is
\* filled exactly, whatever is decoded.
THEOREM ScriptsFitCorrect == Spec => []ScriptsFit
<1>1. Init => BufferInv /\ StreamInv /\ SumInv
  BY BufferInvInit, StreamInvInit, SumInvInit
<1>2. BufferInv /\ StreamInv /\ SumInv /\ [Next]_vars => (BufferInv /\ StreamInv /\ SumInv)'
  BY BufferInvStep, StreamInvStep, SumInvStep
<1>3. BufferInv /\ StreamInv /\ SumInv => ScriptsFit
  BY SumInvFits
<1> QED
  BY <1>1, <1>2, <1>3, PTL DEF Spec

===============================================================================
