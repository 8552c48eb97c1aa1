------------------------------ MODULE BanScore -------------------------------
(***************************************************************************)
(* connmgr.DynamicBanScore (connmgr/dynamicbanscore.go): a score with a    *)
(* persistent part and a transient one, which loses half of its value in   *)
(* every half-life and is forgotten after Lifetime.  The transient part is *)
(* decayed lazily, when it is increased or read, from the wall clock,      *)
(* which may jump ahead and may be set back.                               *)
(*                                                                         *)
(* Time is counted in half-lives, and the transient score, a float, in     *)
(* units of 1 / One, small enough for every division by two to be exact    *)
(* while the clock does not go back.  Every operation holds mtx and reads  *)
(* the clock under it.                                                     *)
(***************************************************************************)
EXTENDS Integers

CONSTANTS
  One,           \* the units of a score of one
  Lifetime,      \* 30 half-lives in the code
  Width,         \* the number of values of a uint32
  Persistent,    \* the persistent charges callers pass to Increase
  Charges,       \* and the transient ones
  Decay(_, _),   \* what x has decayed to after t half-lives
  Start,         \* the time at the beginning
  MaxTime,       \* bound: the last moment
  MaxGranted     \* bound: the sum of the transient charges

ASSUME BanAssumption ==
  /\ One \in Nat \ {0}
  /\ Lifetime \in Nat
  /\ Width \in Nat \ {0}
  /\ Persistent \subseteq Nat
  /\ Charges \subseteq Nat
  /\ Start \in 0 .. MaxTime
  /\ MaxTime \in Nat
  /\ MaxGranted \in Nat /\ MaxGranted < Width

(***************************************************************************)
(* Multiplication by a decayFactor: it never increases a score, two of     *)
(* them make one, it brings scores closer together, and the parts of a     *)
(* score decay to no more than the whole, to less by what is rounded.      *)
(***************************************************************************)
ASSUME DecayAssumption ==
  \A x \in 0 .. MaxGranted * One, t \in 0 .. MaxTime + Lifetime :
    /\ Decay(x, t) \in 0 .. x
    /\ Decay(x, 0) = x
    /\ \A u \in 0 .. MaxTime + Lifetime - t : Decay(Decay(x, t), u) = Decay(x, t + u)
    /\ \A y \in 0 .. x :
         /\ Decay(y, t) <= Decay(x, t)
         /\ Decay(x, t) - Decay(y, t) <= x - y
         /\ Decay(y, t) + Decay(x - y, t) <= Decay(x, t)

VARIABLES
  clock,       \* time.Now().Unix()
  lastUnix, transient, persistent,
  (* what the score ought to be *)
  granted,     \* the transient charges since the last Reset
  ideal,       \* their sum, each one decayed since it was made
  steady       \* the clock has not been set back since the last Reset

banVars == <<clock, lastUnix, transient, persistent, granted, ideal, steady>>

BanInit ==
  /\ clock = Start
  /\ lastUnix = 0
  /\ transient = 0
  /\ persistent = 0
  /\ granted = 0
  /\ ideal = 0
  /\ steady = TRUE

Tick ==
  /\ clock < MaxTime
  /\ clock' = clock + 1
  /\ ideal' = Decay(ideal, 1)
  /\ UNCHANGED <<lastUnix, transient, persistent, granted, steady>>

SetBack ==
  /\ clock > Start
  /\ clock' \in Start .. clock - 1
  /\ steady' = FALSE
  /\ UNCHANGED <<lastUnix, transient, persistent, granted, ideal>>

\* int: the score as of now.
Score ==
  LET dt == clock - lastUnix
  IN  IF transient < One \/ dt < 0 \/ Lifetime < dt
      THEN persistent
      ELSE (persistent + Decay(transient, dt) \div One) % Width

\* Mutant: the decayed score is not what is increased.
IncreasedUndecayed(charge) ==
  /\ transient' = IF Lifetime < clock - lastUnix
                  THEN charge * One ELSE transient + charge * One
  /\ lastUnix' = clock

\* The transient part of increase: at most one is not decayed.
Increased(charge) ==
  LET dt == clock - lastUnix
  IN  /\ transient' = IF Lifetime < dt THEN charge * One
                      ELSE IF transient > One /\ dt > 0
                      THEN Decay(transient, dt) + charge * One
                      ELSE transient + charge * One
      /\ lastUnix' = clock

Increase(p, charge) ==
  /\ granted + charge <= MaxGranted
  /\ persistent' = (persistent + p) % Width
  /\ \/ /\ charge > 0
        /\ Increased(charge)
     \/ /\ charge = 0
        /\ UNCHANGED <<transient, lastUnix>>
  /\ granted' = granted + charge
  /\ ideal' = ideal + charge * One
  /\ UNCHANGED <<clock, steady>>

Reset ==
  /\ persistent' = 0
  /\ transient' = 0
  /\ lastUnix' = 0
  /\ granted' = 0
  /\ ideal' = 0
  /\ steady' = TRUE
  /\ UNCHANGED clock

BanNext ==
  \/ Tick
  \/ SetBack
  \/ \E p \in Persistent, charge \in Charges : Increase(p, charge)
  \/ Reset

BanSpec == BanInit /\ [][BanNext]_banVars

-----------------------------------------------------------------------------
(* Properties.                                                             *)

BanTypeOK ==
  /\ clock \in Nat
  /\ lastUnix \in Nat
  /\ transient \in Nat
  /\ persistent \in 0 .. Width - 1
  /\ granted \in Nat
  /\ ideal \in Nat
  /\ steady \in BOOLEAN

(***************************************************************************)
(* Whatever the clock does, a peer is never held to account for more than  *)
(* it was charged: the transient part is at most the sum of the charges.   *)
(***************************************************************************)
NeverOvercharged == transient <= granted * One

(***************************************************************************)
(* While the clock does not go back, the lazily decayed score is the one   *)
(* that decays all the time, rounded: at most one above it (a transient    *)
(* score up to one is not decayed before it is increased) and less than    *)
(* one below, but for what Lifetime forgets.                               *)
(***************************************************************************)
ScoreTracksIdeal ==
  steady =>
    LET got == (Score - persistent) % Width
    IN  /\ got * One <= ideal + One
        /\ ideal < (got + 1) * One + Decay(granted * One, Lifetime)

=============================================================================
