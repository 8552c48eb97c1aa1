----------------------------- MODULE MCPostClient -----------------------------
(* Small instances of PostClient.                                          *)
EXTENDS PostClient

CONSTANTS c1, c2, c3

=============================================================================
