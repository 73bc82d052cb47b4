------------------------------ MODULE MCMatches ------------------------------
(***************************************************************************)
(* Small instances of Matches for TLC.                                     *)
(***************************************************************************)
EXTENDS Matches, TLC

CONSTANTS an, binh

\* The lobby pairs an (red) with binh (black), in a rated match or not.
RatedOffers == {<<an, binh, TRUE>>}
BothOffers == {<<an, binh, TRUE>>, <<an, binh, FALSE>>}
NoFaults == {}
PersistFaults == {"delete", "insert"}
=============================================================================
