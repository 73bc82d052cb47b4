------------------------------- MODULE Audience -------------------------------
(***************************************************************************)
(* Who watches a match: a set of users of limited size, each of whom takes *)
(* one place.  Spectators implements this with an array and a counter.     *)
(***************************************************************************)
EXTENDS Integers

CONSTANTS
  Matches,
  Watchers,  \* the users, and 0
  Places    \* how many may watch a match

VARIABLES
  watching,  \* the users who watch each match, 0 for all without a name
  free       \* the places that are left

vars == <<watching, free>>

Empty == watching = [m \in Matches |-> {}] /\ free = [m \in Matches |-> Places]

Init == Empty

Join(m, u) ==
  /\ free[m] > 0
  /\ u \notin watching[m]
  /\ watching' = [watching EXCEPT ![m] = @ \cup {u}]
  /\ free' = [free EXCEPT ![m] = @ - 1]

Leave(m, u) ==
  /\ u \in watching[m]
  /\ watching' = [watching EXCEPT ![m] = @ \ {u}]
  /\ free' = [free EXCEPT ![m] = @ + 1]

Restart == Empty'

Next == (\E m \in Matches, u \in Watchers : Join(m, u) \/ Leave(m, u)) \/ Restart

Spec == Init /\ [][Next]_vars
===============================================================================
