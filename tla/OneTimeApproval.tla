--------------------------- MODULE OneTimeApproval ---------------------------
(***************************************************************************)
(* What the Approval Authority promises its two callers, with no process,  *)
(* file, mutex or clock: the adapter asks for Approvals, each bound to one *)
(* operation, and a request of the gateway is granted at most one of them, *)
(* for exactly the operation it is bound to, and no other request ever is. *)
(***************************************************************************)
CONSTANTS
  Requests,   \* consume requests
  Ungranted   \* the grant of a request that was granted nothing

VARIABLES
  issued,     \* Approvals (records with a nonce and a binding) handed out
  grant       \* what each request was granted: [approval, binding]

\* One more Approval, with a nonce of its own.
Issue ==
  /\ \E a \in issued' :
       /\ \A other \in issued : other.nonce # a.nonce
       /\ issued' = issued \union {a}
  /\ UNCHANGED grant

\* An Approval no request was granted is granted, for its own binding.
Grant(r) ==
  /\ grant[r] = Ungranted
  /\ \E a \in issued :
       /\ \A q \in Requests :
            grant[q] # Ungranted => grant[q].approval.nonce # a.nonce
       /\ grant' = [grant EXCEPT ![r] = [approval |-> a, binding |-> a.binding]]
  /\ UNCHANGED issued

Init ==
  /\ issued = {}
  /\ grant = [r \in Requests |-> Ungranted]

Next == Issue \/ \E r \in Requests : Grant(r)

Spec == Init /\ [][Next]_<<issued, grant>>

=============================================================================
