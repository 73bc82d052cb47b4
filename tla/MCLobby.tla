------------------------------- MODULE MCLobby -------------------------------
(***************************************************************************)
(* Small instances of Lobby for TLC.                                       *)
(***************************************************************************)
EXTENDS Lobby, TLC

CONSTANTS an, binh, chi

\* an and binh are near enough for a rated match, binh and chi too.
Ratings == (an :> 1200) @@ (binh :> 1350) @@ (chi :> 1500)
TwoRatings == (an :> 1200) @@ (binh :> 1350)

AnyHabit == {"switch", "several", "logout"}
OnlySwitch == {"switch"}
NoUnread == {"create", "notify"}
None == {}
==============================================================================
