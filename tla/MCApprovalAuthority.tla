------------------------- MODULE MCApprovalAuthority -------------------------
(* Small instances of ApprovalAuthority for TLC. *)
EXTENDS ApprovalAuthority, TLC

CONSTANT owner

Binding(s, t, a, tr) ==
  [subject |-> s, actor |-> "telegram-agent", tool |-> t, arguments |-> a,
   trace_id |-> tr]

OneBinding == { Binding(owner, "calendar.create_event", "meeting-1", "t1") }

\* The lock's device and another one, which must not be signed and which an
\* Approval for the first must not open.
TwoDevices ==
  { Binding(owner, "smart_lock.unlock", "demo-front-door", "t1"),
    Binding(owner, "smart_lock.unlock", "back-door", "t1") }

Symmetry == Permutations(Requests) \union Permutations(Nonces)

=============================================================================
