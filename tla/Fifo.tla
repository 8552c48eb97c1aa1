--------------------------------- MODULE Fifo ---------------------------------
(***************************************************************************)
(* What queueHandler promises: items leave in the order in which they came *)
(* in, each once, and none is skipped.                                     *)
(***************************************************************************)
EXTENDS Naturals, Sequences

CONSTANT Items

VARIABLES in, out  \* everything that came in and went out so far

Init == in = <<>> /\ out = <<>>

Put == \E x \in Items : in' = Append(in, x) /\ UNCHANGED out

Get ==
  /\ Len(out) < Len(in)
  /\ out' = Append(out, in[Len(out) + 1])
  /\ UNCHANGED in

Next == Put \/ Get

Spec == Init /\ [][Next]_<<in, out>>

=============================================================================
