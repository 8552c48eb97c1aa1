-------------------------------- MODULE MCData --------------------------------
(***************************************************************************)
(* The packages that a program of this repository links against and that   *)
(* share no state with each other: the decoder of transactions, the        *)
(* registry of commands, the notifications, the cookie of a client and the *)
(* ban score.  In a behaviour of DataSpec one of them runs and the others  *)
(* stay as they are.                                                       *)
(***************************************************************************)
EXTENDS MsgTx, Notifications, Cookie, BanScore

CONSTANTS d1, d2, m1, m2

-------------------------------------------------------------------------------
(* Messages for two decoders: one reads anything, the other takes and      *)
(* returns buffers meanwhile.                                              *)

In(script, witness) ==
  [hash |-> <<4>>, index |-> 7, script |-> script, witness |-> witness, sequence |-> 9]
Out(script) == [value |-> -1, script |-> script]
Tx(ins, outs) == [version |-> -2, txIn |-> ins, txOut |-> outs, lockTime |-> 300]

\* Scripts in the free list's buffers, and one too long for them.
Plain == Tx(<<In(<<2>>, <<>>)>>, <<Out(<<1, 2, 3>>)>>)
Segwit == Tx(<<In(<<>>, <<<<>>, <<1, 2, 3, 4>>>>), In(<<5, 5>>, <<>>)>>, <<Out(<<3>>)>>)
Short == Tx(<<In(<<2, 4>>, <<<<1>>>>)>>, <<>>)
NoInputs == Tx(<<>>, <<Out(<<1>>)>>)
\* Messages beyond a limit: a witness item, the witness items, inputs, outputs.
LongItem == Tx(<<In(<<1>>, <<<<1, 2, 3, 4, 5>>>>)>>, <<>>)
ManyItems == Tx(<<In(<<1>>, <<<<>>, <<>>, <<>>>>)>>, <<>>)
ManyIns == Tx([i \in 1 .. MaxTxInPerMessage + 1 |-> In(<<>>, <<>>)], <<>>)
ManyOuts == Tx(<<In(<<1>>, <<>>)>>, [i \in 1 .. MaxTxOutPerMessage + 1 |-> Out(<<>>)])

Whole(tx, enc) == [tx |-> tx, enc |-> enc, bytes |-> BtcEncode(tx, enc)]
Cuts(tx, enc) ==
  {[Whole(tx, enc) EXCEPT !.bytes = SubSeq(@, 1, n)] : n \in 0 .. Len(BtcEncode(tx, enc)) - 1}
Tampered(tx, enc) ==
  {[Whole(tx, enc) EXCEPT !.bytes[n] = b] :
     n \in 1 .. Len(BtcEncode(tx, enc)), b \in {0, 1, Base - 3}}

Messages ==
  [d \in {d1, d2} |->
     IF d = d1
       THEN {Whole(tx, enc) : enc \in {"base", "witness"},
               tx \in {NoInputs, LongItem, ManyItems, ManyIns, ManyOuts}}
              \cup Cuts(Segwit, "witness") \cup Cuts(Plain, "base")
              \cup Tampered(Short, "witness") \cup Tampered(Plain, "base")
              \cup {Whole(Segwit, "base"), Whole(Segwit, "witness"), Whole(Plain, "witness")}
       ELSE {[Whole(Short, "witness") EXCEPT !.bytes = SubSeq(@, 1, Len(@) - 1)],
             Whole(Short, "base")}]

-------------------------------------------------------------------------------
(* Struct types for the registry: the first four can be registered, each   *)
(* of the others breaks one rule of RegisterCmd.                           *)

Required  == [form |-> "acceptable", ptr |-> FALSE, tag |-> "none"]
Optional  == [form |-> "acceptable", ptr |-> TRUE, tag |-> "none"]
Defaulted == [form |-> "acceptable", ptr |-> TRUE, tag |-> "value"]

MCFields ==
  [none         |-> <<>>,
   required     |-> <<Required>>,
   optionals    |-> <<Required, Defaulted, Optional, Defaulted>>,
   defaults     |-> <<Defaulted, Defaulted>>,
   misordered   |-> <<Optional, Required>>,
   notoptional  |-> <<[Required EXCEPT !.tag = "value"]>>,
   wrongdefault |-> <<[Optional EXCEPT !.tag = "mismatch"]>>,
   embedded     |-> <<[Required EXCEPT !.form = "embedded"]>>]

MCTypes == DOMAIN MCFields

\* Clients without handlers, with all of them, and with one.
SomeClients == {NoHandlers, AllHandlers} \cup {{h} : h \in AllHandlers}

\* A half-life halves.
MCDecay(x, t) == x \div (2 ^ t)

-------------------------------------------------------------------------------
DataInit == Init /\ RegInit /\ NtfnInit /\ CookieInit /\ BanInit

DataNext ==
  \/ /\ RegInit /\ NtfnInit /\ CookieInit /\ BanInit
     /\ Next /\ UNCHANGED <<regVars, ntfnVars, cookieVars, banVars>>
  \/ /\ Init /\ NtfnInit /\ CookieInit /\ BanInit
     /\ RegNext /\ UNCHANGED <<vars, ntfnVars, cookieVars, banVars>>
  \/ /\ Init /\ RegInit /\ CookieInit /\ BanInit
     /\ NtfnNext /\ UNCHANGED <<vars, regVars, cookieVars, banVars>>
  \/ /\ Init /\ RegInit /\ NtfnInit /\ BanInit
     /\ CookieNext /\ UNCHANGED <<vars, regVars, ntfnVars, banVars>>
  \/ /\ Init /\ RegInit /\ NtfnInit /\ CookieInit
     /\ BanNext /\ UNCHANGED <<vars, regVars, ntfnVars, cookieVars>>

DataSpec == DataInit /\ [][DataNext]_<<vars, regVars, ntfnVars, cookieVars, banVars>>
===============================================================================
