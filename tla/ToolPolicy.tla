----------------------------- MODULE ToolPolicy -----------------------------
(***************************************************************************)
(* The authorization policy (src/policies/agent_tools.rego).               *)
(*                                                                         *)
(* An input says who asks (subject, actor, channel, capabilities), for     *)
(* which tool and operation, and whether its arguments satisfy the rule    *)
(* the policy has for that tool's arguments.  Each rule of the policy that *)
(* holds gives "authorization" a value.  Rego evaluates such a rule set to *)
(* its value if the rules that hold agree on one, to the default if none   *)
(* holds, and to an error if they disagree.                                *)
(***************************************************************************)

Owner == "owner-subject-id"
Alice == "external-alice-subject-id"

MeetingTools ==
  {"calendar.review_meeting_proposal", "calendar.approve_meeting_proposal",
   "calendar.deny_meeting_proposal"}
OutlookTools == {"outlook.search_messages", "outlook.read_message"}

\* What the gateway registers.
Tools ==
  {"coffee_station.get_status", "dev.read_repository",
   "calendar.find_availability", "calendar.submit_meeting_proposal",
   "smart_lock.unlock"} \union MeetingTools \union OutlookTools

\* Tools that change something outside the gateway.
EffectTools == {"calendar.approve_meeting_proposal", "smart_lock.unlock"}

OnTelegram(i) == i.actor = "telegram-agent" /\ i.channel = "telegram"

-----------------------------------------------------------------------------
(* Who may use what *)

EligibleOwnerCodingRepository(i) ==
  /\ i.subject = Owner
  /\ i.actor = "coding-agent" /\ i.channel = "streamable-http"
  /\ "dev.repository.read" \in i.capabilities
  /\ i.tool = "dev.read_repository"

EligibleOwnerOutlook(i) ==
  /\ i.subject = Owner /\ OnTelegram(i)
  /\ "outlook.mail.read" \in i.capabilities
  /\ i.tool \in OutlookTools

EligibleOwnerTool(i) ==
  /\ i.subject = Owner
  /\ i.actor \in {"telegram-agent", "coding-agent"}
  /\ i.channel = "streamable-http"
  /\ "coffee_station.read" \in i.capabilities
  /\ i.tool = "coffee_station.get_status"

EligibleExternalAvailability(i) ==
  /\ i.subject = Alice /\ OnTelegram(i)
  /\ "calendar.free_busy.read" \in i.capabilities
  /\ i.tool = "calendar.find_availability"

EligibleExternalProposal(i) ==
  /\ i.subject = Alice /\ OnTelegram(i)
  /\ "calendar.meeting.propose" \in i.capabilities
  /\ i.tool = "calendar.submit_meeting_proposal"

EligibleOwnerMeetingApproval(i) ==
  /\ i.subject = Owner /\ OnTelegram(i)
  /\ "calendar.meeting.approve" \in i.capabilities
  /\ i.tool \in MeetingTools

EligibleOwnerSmartLock(i) ==
  /\ i.subject = Owner /\ OnTelegram(i)
  /\ "smart_lock.write" \in i.capabilities
  /\ i.tool = "smart_lock.unlock"

-----------------------------------------------------------------------------
(* The rules *)

Value(allow, reason, obligations) ==
  [allow |-> allow, reason |-> reason, obligations |-> obligations]

Allow(reason)      == Value(TRUE, reason, {})
AllowExact(reason) == Value(TRUE, reason, {"exact_approval"})

Discover(i) == i.operation = "discover"
Execute(i)  == i.operation = "execute" /\ i.arguments = "allowed"

\* Faulty variant of SmartLockDenied: every Subject is denied.
SmartLockDeniedToAll(i) == i.tool = "smart_lock.unlock"

\* The one rule that denies.
SmartLockDenied(i) == i.tool = "smart_lock.unlock" /\ i.subject # Owner

\* The rules for authorization: one that holds gives the value v.
Holds(i, v) ==
  \/ /\ EligibleOwnerCodingRepository(i) /\ (Discover(i) \/ Execute(i))
     /\ v = Allow("owner_coding_repository_read")
  \/ /\ EligibleOwnerOutlook(i) /\ Discover(i)
     /\ v = Allow("owner_outlook_read_discovery")
  \/ /\ EligibleOwnerOutlook(i) /\ Execute(i)
     /\ i.tool = "outlook.read_message"
     /\ v = Allow("owner_exact_outlook_message")
  \/ /\ EligibleOwnerOutlook(i) /\ Execute(i)
     /\ i.tool = "outlook.search_messages"
     /\ v = Allow("owner_bounded_outlook_search")
  \/ /\ EligibleOwnerTool(i) /\ Execute(i)
     /\ v = Allow("owner_demo_station")
  \/ /\ EligibleOwnerTool(i) /\ Discover(i)
     /\ v = Allow("owner_tool_discovery")
  \/ /\ EligibleExternalAvailability(i) /\ Execute(i)
     /\ v = Allow("external_free_busy")
  \/ /\ EligibleExternalAvailability(i) /\ Discover(i)
     /\ v = Allow("external_availability_discovery")
  \/ /\ EligibleExternalProposal(i) /\ (Discover(i) \/ Execute(i))
     /\ v = Allow("external_meeting_proposal")
  \/ /\ EligibleOwnerMeetingApproval(i) /\ Discover(i)
     /\ v = AllowExact("owner_exact_meeting_approval")
  \/ /\ EligibleOwnerMeetingApproval(i) /\ Execute(i)
     /\ i.tool = "calendar.review_meeting_proposal"
     /\ v = Allow("owner_meeting_review")
  \/ /\ EligibleOwnerMeetingApproval(i) /\ Execute(i)
     /\ i.tool # "calendar.review_meeting_proposal"
     /\ v = AllowExact("owner_exact_meeting_approval")
  \/ /\ SmartLockDenied(i)
     /\ v = Value(FALSE, "smart_lock_owner_subject_required", {})
  \/ /\ EligibleOwnerSmartLock(i) /\ (Discover(i) \/ Execute(i))
     /\ v = AllowExact("owner_exact_smart_lock")

DefaultDeny == Value(FALSE, "default_deny", {})

\* Every reason, and every value authorization could have.
PolicyReasons ==
  {"default_deny", "owner_coding_repository_read",
   "owner_outlook_read_discovery", "owner_exact_outlook_message",
   "owner_bounded_outlook_search", "owner_demo_station",
   "owner_tool_discovery", "external_free_busy",
   "external_availability_discovery", "external_meeting_proposal",
   "owner_exact_meeting_approval", "owner_meeting_review",
   "smart_lock_owner_subject_required", "owner_exact_smart_lock"}

Values ==
  [allow : BOOLEAN, reason : PolicyReasons,
   obligations : {{}, {"exact_approval"}}]

Authorizations(i) == {v \in Values : Holds(i, v)}

\* The rules that hold disagree.
Conflicting(i) == \E v, w \in Authorizations(i) : v # w

\* authorization, where the rules do not conflict.
Authorization(i) ==
  LET held == Authorizations(i) IN
  IF held = {} THEN DefaultDeny ELSE CHOOSE v \in held : TRUE

=============================================================================
