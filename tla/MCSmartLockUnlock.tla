------------------------- MODULE MCSmartLockUnlock -------------------------
(* Small instances of SmartLockUnlock for TLC. *)
EXTENDS SmartLockUnlock, TLC

Symmetry == Permutations(Calls) \union Permutations(Reviewed)

=============================================================================
