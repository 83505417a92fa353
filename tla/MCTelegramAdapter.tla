-------------------------- MODULE MCTelegramAdapter --------------------------
(***************************************************************************)
(* TelegramAdapter with the two verified users of compose.yaml, the scopes *)
(* of the realm and of the Telegram gateway, and the limits that           *)
(* cmd/telegram-adapter sets.                                              *)
(***************************************************************************)
EXTENDS TelegramAdapter, TLC

CONSTANT AnyUpdate   \* the update that may carry any message

MCVerifiedUsers == 4242 :> Alice @@ 9001 :> Owner

MCRequired == {"calendar.free_busy.read", "calendar.meeting.propose"}
MCOptional ==
  {"calendar.meeting.approve", "outlook.mail.read", "smart_lock.write"}
MCDefaultScopes == MCRequired \union {"coffee_station.read"}

MCLimits == "availability" :> 2 @@ "proposal" :> 1

Message(secret, user, command, arguments) ==
  [secret |-> secret, user |-> user, command |-> command,
   arguments |-> arguments]

\* Every command of the Owner with good arguments, and bad ones; what an
\* External Subject is limited in, with good and bad arguments, and commands
\* that are not for it; a stranger; a wrong secret; no update at all.
AllMessages ==
  {Message(TRUE, 9001, c, "allowed") : c \in Commands \ {"undecodable"}}
  \union {Message(TRUE, 4242, c, a) :
            c \in {"/propose", "text"}, a \in {"malformed", "allowed"}}
  \union {Message(TRUE, 9001, "/unlock", "refused"),
          Message(TRUE, 9001, "/approve", "malformed"),
          Message(TRUE, 4242, "/unlock", "allowed"),
          Message(TRUE, 7777, "/unlock", "allowed"),
          Message(FALSE, 9001, "/unlock", "allowed"),
          Message(TRUE, 9001, "undecodable", "malformed")}

\* The other updates use the quotas, or are the Owner's at the same time.
OtherMessages ==
  {Message(TRUE, 4242, "/propose", "allowed"),
   Message(TRUE, 4242, "text", "allowed"),
   Message(TRUE, 9001, "/review-unlock", "allowed")}

MCMessages ==
  [u \in Updates |-> IF u = AnyUpdate THEN AllMessages ELSE OtherMessages]

Symmetry == Permutations(Updates \ {AnyUpdate})

=============================================================================
