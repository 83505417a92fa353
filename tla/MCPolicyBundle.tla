--------------------------- MODULE MCPolicyBundle ---------------------------
(* A small instance of PolicyBundle for TLC. *)
EXTENDS PolicyBundle, TLC

\* Two revisions, and the one the first run's fixture has if it is given "a".
MCRevisions == {"a", "b", "a-untrusted-update"}

MCUntrusted ==
  "a" :> "a-untrusted-update" @@ "b" :> "b-untrusted-update"
  @@ "a-untrusted-update" :> "a-untrusted-update-untrusted-update"

=============================================================================
