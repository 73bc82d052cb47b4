------------------------------ MODULE Spectators ------------------------------
(***************************************************************************)
(* The spectators of the matches, and whom news of a match reaches:        *)
(* handlers_spectate.c, handle_chat_message and broadcast.c, with Sessions *)
(* for the connections.  The matches are Matches's; of them it matters     *)
(* here who plays and whether they have ended.                             *)
(***************************************************************************)
EXTENDS Sessions

CONSTANTS
  MatchIds,
  MaxSpectators   \* MAX_SPECTATORS_PER_MATCH (50)

ASSUME SpectatorsAssumption == MaxSpectators \in Nat

VARIABLES
  matches,  \* status of each match and its players, red and black
  places    \* spectator_ids, spectator_count of them

vars == <<sessionVars, matches, places>>

NoMatch == [status |-> "none", red |-> 0, black |-> 0]
Known(m) == matches[m].status # "none"
Active(m) == matches[m].status = "running"

InUse(s) == {s[i] : i \in DOMAIN s}

Init ==
  /\ SessionsInit
  /\ matches = [m \in MatchIds |-> NoMatch]
  /\ places = [m \in MatchIds |-> << >>]

\* match_create or match_load_from_db, by the handlers of the lobby.
MatchStarts(m, red, black) ==
  /\ ~Known(m)
  /\ red \in Registered /\ black \in Registered
  /\ matches' = [matches EXCEPT ![m] = [status |-> "running", red |-> red, black |-> black]]
  /\ UNCHANGED <<sessionVars, places>>

\* match_end: the match stays in its place, and so do those who watch it.
MatchEnds(m) ==
  /\ Active(m)
  /\ matches' = [matches EXCEPT ![m].status = "ended"]
  /\ UNCHANGED <<sessionVars, places>>
-----------------------------------------------------------------------------
\* Mutant: who has a place already gets another one.
TakesAnother(m, u) == Len(places[m]) < MaxSpectators
\* match_add_spectator
MayTake(m, u) == Len(places[m]) < MaxSpectators /\ u \notin InUse(places[m])

\* Mutant: the last one goes instead.
WithoutLast(s, i) == [j \in 1..Len(s) - 1 |-> s[j]]
\* match_remove_spectator: those behind move up.
Without(s, i) == [j \in 1..Len(s) - 1 |-> IF j < i THEN s[j] ELSE s[j + 1]]

(***************************************************************************)
(* handle_join_spectate: a token is not required; all who have no valid    *)
(* one, or whose token could not be looked up, share the place of user 0.  *)
(***************************************************************************)
JoinSpectate(c, token, m) ==
  LET u == UserOf(token) IN
  /\ c \in open
  /\ IF u > 0 THEN Bind(c, u) ELSE UNCHANGED <<user, authentic, strangers>>
  /\ places' = IF Active(m) /\ MayTake(m, u) THEN [places EXCEPT ![m] = Append(@, u)]
               ELSE places
  /\ UNCHANGED <<accounts, sessions, drawn, now, open, matches>>

\* handle_leave_spectate: from an ended match too.
LeaveSpectate(c, token, m) ==
  LET u == UserOf(token) IN
  /\ c \in open
  /\ Valid(token) # {}
  /\ Bind(c, u)
  /\ \E i \in DOMAIN places[m] :
       /\ places[m][i] = u
       /\ \A j \in DOMAIN places[m] : places[m][j] = u => i <= j
       /\ places' = [places EXCEPT ![m] = Without(@, i)]
  /\ UNCHANGED <<accounts, sessions, drawn, now, open, matches>>

\* The matches are in memory only; those that come back have no spectators.
ServerRestarts ==
  /\ Restart
  /\ matches' = [m \in MatchIds |-> NoMatch]
  /\ places' = [m \in MatchIds |-> << >>]

Next ==
  \/ SessionsNext /\ UNCHANGED <<matches, places>>
  \/ \E m \in MatchIds :
       \/ \E red, black \in Users : MatchStarts(m, red, black)
       \/ MatchEnds(m)
       \/ \E c \in Slots, token \in Tokens \cup {NoToken} : JoinSpectate(c, token, m)
       \/ \E c \in Slots, token \in Tokens : LeaveSpectate(c, token, m)
  \/ ServerRestarts

Spec == Init /\ [][Next]_vars
-----------------------------------------------------------------------------
\* send_to_user: the first connection that speaks for the user.
SendToUser(u) == {c \in open : /\ user[c] = u /\ u > 0
                               /\ \A d \in open : user[d] = u => c <= d}

\* broadcast_to_match
BroadcastToMatch(m) ==
  LET ids == {matches[m].red, matches[m].black} \cup InUse(places[m])
  IN  UNION {SendToUser(u) : u \in ids}

\* handle_chat_message: the players only.
ChatMessage(m) == SendToUser(matches[m].red) \cup SendToUser(matches[m].black)

TypeOK ==
  /\ SessionsTypeOK
  /\ matches \in [MatchIds -> [status : {"none", "running", "ended"},
                               red : Users \cup {0}, black : Users \cup {0}]]
  /\ places \in [MatchIds -> Seq(Users \cup {0})]
  /\ \A m \in MatchIds : Len(places[m]) <= MaxSpectators

(***************************************************************************)
(* A connection that has proved nothing since it was opened, or since its  *)
(* user logged out, is sent nothing of any match: not in the entry of      *)
(* another that was closed, and not by the place of those without a name.  *)
(***************************************************************************)
StrangersHearNothing ==
  \A m \in MatchIds : strangers \cap (BroadcastToMatch(m) \cup ChatMessage(m)) = {}

(***************************************************************************)
(* The array of a match with its counter is a set of limited size: nobody  *)
(* has two places, nobody loses his by another's leaving, none gets lost.  *)
(***************************************************************************)
Seating == INSTANCE Audience WITH
  Matches <- MatchIds,
  Watchers <- Users \cup {0},
  Places <- MaxSpectators,
  watching <- [m \in MatchIds |-> InUse(places[m])],
  free <- [m \in MatchIds |-> MaxSpectators - Len(places[m])]

SeatsAsASet == Seating!Spec

(***************************************************************************)
(* A user gets a place, or gives his up, only while one of his sessions is *)
(* valid, and on a connection that then speaks for him; or else the server *)
(* restarted.                                                              *)
(***************************************************************************)
Watches(m, u) == u \in InUse(places[m])

OnlyTheHolderMoves ==
  [][\A m \in MatchIds, u \in Users :
       Watches(m, u)' # Watches(m, u) =>
         \/ open' = {}
         \/ /\ \E s \in Live : s.user = u
            /\ \E c \in open : user'[c] = u]_vars
===============================================================================
