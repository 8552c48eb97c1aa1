---------------------------- MODULE MCManagerPost ----------------------------
(***************************************************************************)
(* The notification manager of the server, and the goroutine of a client   *)
(* in HTTP POST mode.  They share no state: in a behaviour of              *)
(* ManagerPostSpec one of them runs and the other stays as it is, before   *)
(* its first step.                                                         *)
(***************************************************************************)
EXTENDS NtfnManager, PostClient

CONSTANTS h1, h2, c1, c2, c3

VARIABLE part  \* the one that runs

managerPostVars == <<managerVars, postVars, part>>

ManagerPostInit ==
  /\ ManagerInit /\ PostInit
  /\ part \in {"manager", "post"}

ManagerPostNext ==
  \/ part = "manager" /\ ManagerNext /\ UNCHANGED <<postVars, part>>
  \/ part = "post" /\ PostNext /\ UNCHANGED <<managerVars, part>>

\* The fairness of both.  Of the steps that have to be taken, StartManager is
\* the one that can be taken in a state where its part does not run.
ManagerPostSpec ==
  /\ ManagerPostInit /\ [][ManagerPostNext]_managerPostVars
  /\ ManagerFairness /\ PostFairness
  /\ WF_managerVars(part = "manager" /\ StartManager)

==============================================================================
