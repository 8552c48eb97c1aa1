------------------------------ MODULE MCWsClient ------------------------------
(* Small instances of WsClient.                                            *)
EXTENDS WsClient

Req(form, version) == [form |-> form, creds |-> "none", version |-> version]

\* One request for every outcome, and one whose reply cannot be marshalled.
AllSingles == {Req(f, TRUE) : f \in Methods \cup Faults}
                \cup {Req("getblockhash", FALSE)}

\* Batches: empty, one that fails half way, one with nothing to answer, and
\* one with an entry whose reply cannot be marshalled.
SomeBatches == {<<>>, <<Req("malformed", TRUE), Req("getblockhash", TRUE)>>,
                <<Req("noid", TRUE)>>, <<Req("getblockhash", FALSE)>>}

\* One request that is answered, for the run about the notifications that
\* share the send channel with its replies.
OneSingle == {Req("getblockhash", TRUE)}

=============================================================================
