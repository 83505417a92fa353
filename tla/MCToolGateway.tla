--------------------------- MODULE MCToolGateway ---------------------------
(***************************************************************************)
(* ToolGateway with the scopes of compose.yaml and a few tokens.           *)
(***************************************************************************)
EXTENDS ToolGateway, TLC

Token(subject, actor, scopes) ==
  [good |-> TRUE, subject |-> subject, actor |-> actor, scopes |-> scopes]

TelegramScopes == {"calendar.free_busy.read", "calendar.meeting.propose"}
AllScopes ==
  TelegramScopes \union
  {"calendar.meeting.approve", "outlook.mail.read", "smart_lock.write",
   "coffee_station.read", "dev.repository.read"}

MCRequired ==
  [ch \in Channels |-> IF ch = "telegram" THEN TelegramScopes
                       ELSE {"coffee_station.read"}]
MCOptional ==
  [ch \in Channels |->
     IF ch = "telegram"
       THEN {"calendar.meeting.approve", "outlook.mail.read",
             "smart_lock.write"}
       ELSE {"dev.repository.read", "smart_lock.write"}]

\* Every combination of who asks, with few and with all scopes.
MCTokens ==
  {Token(s, a, k) :
     s \in {Owner, Alice, "stranger"},
     a \in {"telegram-agent", "coding-agent"},
     k \in {TelegramScopes, {"coffee_station.read"}, AllScopes}}
  \union {[Token(Owner, "telegram-agent", AllScopes) EXCEPT !.good = FALSE]}

MCToolOrder ==
  <<"calendar.approve_meeting_proposal", "calendar.deny_meeting_proposal",
    "calendar.find_availability", "calendar.review_meeting_proposal",
    "calendar.submit_meeting_proposal", "coffee_station.get_status",
    "dev.read_repository", "outlook.read_message", "outlook.search_messages",
    "smart_lock.unlock">>

ASSUME DeployedAssumption == Configured

=============================================================================
