-------------------------- MODULE MCMeetingApproval --------------------------
(* Small instances of MeetingApproval for TLC: meeting_flow and            *)
(* meeting_denied.  No symmetry, because meeting_flow checks liveness.     *)
EXTENDS MeetingApproval

=============================================================================
