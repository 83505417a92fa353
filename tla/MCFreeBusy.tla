----------------------------- MODULE MCFreeBusy -----------------------------
(* A small instance of FreeBusy for TLC: two ticks to a second and one second *)
(* to half an hour, which keeps instants inside seconds, seconds inside       *)
(* hours, and the order of all boundaries of a day.                           *)
EXTENDS FreeBusy, TLC

\* Tuesday, Friday, Saturday and the Tuesday after; a day has 96 ticks.
MCDays == {1, 4, 5, 8}

\* 8:30 and the instants around 9:00, 10:30, 11:00 and 17:00.
MCClocks == {34, 35, 36, 37, 41, 42, 43, 44, 45, 50, 67, 68, 69, 70}

MCInstants == {d * 96 + c : d \in MCDays, c \in MCClocks}

\* UTC, fourteen hours ahead and twelve behind.
MCOffsets == {0, 56, -48}

=============================================================================
