----------------------------- MODULE MCRpcClient -----------------------------
(* Small instances of RpcClient.                                           *)
EXTENDS RpcClient

CONSTANTS c1, c2

\* What the application sends: one or two plain calls, a command that the
\* client does not resend, or a notification command.
OneCall   == [r \in {c1} |-> "call"]
TwoCalls  == [r \in {c1, c2} |-> "call"]
OneRescan == [r \in {c1} |-> "rescan"]
OneNotify == [r \in {c1} |-> "blocks"]

=============================================================================
