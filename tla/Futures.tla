------------------------------- MODULE Futures -------------------------------
(***************************************************************************)
(* What rpcclient promises about the futures SendCmd returns, without      *)
(* connections or goroutines: a request is rejected at once or becomes     *)
(* pending; one party claims a pending request and answers it; closing the *)
(* client answers all that is pending, and nothing becomes pending after.  *)
(* Only a request that is not reissued may be forgotten.                   *)
(***************************************************************************)
CONSTANTS
  Reqs,       \* the requests
  Forgettable \* those that resendRequests may drop

VARIABLES
  status,     \* of each request
  down        \* the client is shut down

vars == <<status, down>>

Status == {"new", "pending", "claimed", "answered", "forgotten"}

Init ==
  /\ status = [r \in Reqs |-> "new"]
  /\ down = FALSE

Move(r, from, to) ==
  /\ status[r] = from
  /\ status' = [status EXCEPT ![r] = to]
  /\ UNCHANGED down

Issue(r) == ~down /\ Move(r, "new", "pending")

Reject(r) == Move(r, "new", "answered")

Claim(r) == Move(r, "pending", "claimed")

Answer(r) == Move(r, "claimed", "answered")

Close ==
  /\ status' = [r \in Reqs |-> IF status[r] = "pending"
                               THEN "answered" ELSE status[r]]
  /\ down' = TRUE

Forget ==
  /\ status' = [r \in Reqs |-> IF status[r] = "pending" /\ r \in Forgettable
                               THEN "forgotten" ELSE status[r]]
  /\ UNCHANGED down

Next ==
  \/ \E r \in Reqs : Issue(r) \/ Reject(r) \/ Claim(r) \/ Answer(r)
  \/ Close
  \/ Forget

Spec == Init /\ [][Next]_vars

=============================================================================
