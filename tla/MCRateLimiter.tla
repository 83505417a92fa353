--------------------------- MODULE MCRateLimiter ---------------------------
(* A small instance of RateLimiter for TLC. *)
EXTENDS RateLimiter, TLC

\* The limits of cmd/telegram-adapter's Compose setting: two and one.
MCLimits == [a \in {"availability", "proposal"} |->
               IF a = "availability" THEN 2 ELSE 1]

=============================================================================
