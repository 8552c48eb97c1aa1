---------------------------- MODULE MCNtfnManager ----------------------------
(* Small instances of NtfnManager.                                         *)
EXTENDS NtfnManager

CONSTANTS h1, h2

=============================================================================
