--------------------------------- MODULE Lobby ---------------------------------
(***************************************************************************)
(* Who is connected, who waits for an opponent, and how two users come to  *)
(* play: the array clients[] of server/src/server.c, the ready list, the   *)
(* rooms and the challenges of lobby.c, and the handlers that work on them *)
(* (handlers_lobby.c, handlers_room.c, handlers_social.c, handlers_auth.c).*)
(*                                                                         *)
(* A handler runs to its end before the next event is looked at and is one *)
(* action.  What interleaves are the requests of different connections,    *)
(* connections that open and close at any time, and the lapse of           *)
(* challenges.  The matches themselves are the business of Matches: here   *)
(* a match is made and forgotten.                                          *)
(*                                                                         *)
(* A request that is refused for its content changes no more than Bind     *)
(* does.  A request with an invalid token changes nothing at all.          *)
(***************************************************************************)
EXTENDS Integers, Sequences

CONSTANTS
  Users,         \* the accounts
  Nobody,        \* user_id 0
  Closed,        \* an unused entry of clients[]
  Rating,        \* the users' ratings, which do not change here
  Garbage,       \* what a rating that nobody has set may be
  Tolerance,     \* of a rated search (200)
  MaxClients,    \* MAX_CLIENTS (1000)
  MaxReady,      \* MAX_READY_PLAYERS (100)
  MaxRooms,      \* MAX_ROOMS (50)
  MaxChallenges, \* MAX_CHALLENGES (100)
  Faults,        \* what may fail: "create" (a full table), "notify" (send),
                 \* "read" (db_get_user_by_id)
  Habits         \* what users may do: "switch" to another account without
                 \* logging out, use "several" connections, "logout"

ASSUME UsersAssumption == Nobody \notin Users /\ Closed \notin Users \cup {Nobody}
ASSUME RatingAssumption == Rating \in [Users -> Int] /\ Garbage \subseteq Int /\ Tolerance \in Nat
ASSUME LimitsAssumption ==
  /\ MaxClients \in Nat
  /\ MaxReady \in Nat
  /\ MaxRooms \in Nat
  /\ MaxChallenges \in Nat

VARIABLES
  clients,     \* clients[]: the user of each connection
  ready,       \* ready_players[]
  noted,       \* the rating in each user's entry of ready_players[], if he has one
  rooms,       \* rooms[]
  challenges,  \* challenges[]
  made,        \* the match made by the last step, if it made one
  queued       \* history: the search whose last answer was "Queued for match"

vars == <<clients, ready, noted, rooms, challenges, made, queued>>

Clients == 1..MaxClients
Rooms == 1..MaxRooms
Challenges == 1..MaxChallenges

Vacant == [host |-> Nobody, guest |-> Nobody, rated |-> FALSE]
Room == [host : Users, guest : Users \cup {Nobody}, rated : BOOLEAN] \cup {Vacant}

\* status 0 and 1 of challenge_t, and whether expires_at has passed.
Unused == [from |-> Nobody, to |-> Nobody, rated |-> FALSE, status |-> "unused"]
Challenge == [from : Users, to : Users, rated : BOOLEAN,
              status : {"pending", "accepted", "expired"}] \cup {Unused}

Match == [red : Users, black : Users, rated : BOOLEAN,
          by : {"search", "room", "challenge"}]

Searches == {"casual", "rated"}

Init ==
  /\ clients = [c \in Clients |-> Closed]
  /\ ready = << >>
  /\ noted = Rating
  /\ rooms = [r \in Rooms |-> Vacant]
  /\ challenges = [h \in Challenges |-> Unused]
  /\ made = {}
  /\ queued = [u \in Users |-> "none"]
-----------------------------------------------------------------------------
(***************************************************************************)
(* Connections.  authenticated holds exactly when the connection has a     *)
(* user.                                                                   *)
(***************************************************************************)
With(c, who) == [clients EXCEPT ![c] = who]

\* is_user_connected, server_get_client_by_user_id and send_to_user.
IsConnected(table, u) == \E c \in DOMAIN table : table[c] = u

\* Whoever has no connection left waits no longer.
Patient(table, answers) ==
  [u \in Users |-> IF IsConnected(table, u) THEN answers[u] ELSE "none"]

\* handle_new_connection.
Connect(c) ==
  /\ clients[c] = Closed
  /\ \A d \in Clients : d < c => clients[d] # Closed
  /\ clients' = With(c, Nobody)
  /\ made' = {}
  /\ UNCHANGED <<ready, noted, rooms, challenges, queued>>

(***************************************************************************)
(* REQUIRE_AUTH: the connection belongs to the user of the token from now  *)
(* on, whoever used it before.  Any user may hold a valid token.           *)
(***************************************************************************)
Authenticated(c, u, answers) ==
  /\ clients[c] # Closed
  /\ clients[c] \in {Nobody, u} \/ "switch" \in Habits
  /\ (\A d \in Clients \ {c} : clients[d] # u) \/ "several" \in Habits
  /\ clients' = With(c, u)
  /\ queued' = Patient(With(c, u), answers)

\* handle_login, handle_validate_token, and the handlers that only read.
Bind(c, u) ==
  /\ Authenticated(c, u, queued)
  /\ made' = {}
  /\ UNCHANGED <<ready, noted, rooms, challenges>>

\* Mutant: the last entry is cut off instead of moved up.
WithoutLast(list, u) ==
  IF \E k \in DOMAIN list : list[k] = u
  THEN [k \in 1..(Len(list) - 1) |-> list[k]] ELSE list
\* lobby_remove_player: the entries behind the first one of u move up.
Without(list, u) ==
  IF \E k \in DOMAIN list : list[k] = u
  THEN LET at == CHOOSE k \in DOMAIN list :
                   list[k] = u /\ \A j \in DOMAIN list : j < k => list[j] # u
       IN  [k \in 1..(Len(list) - 1) |-> IF k < at THEN list[k] ELSE list[k + 1]]
  ELSE list

\* Mutant: the guest keeps his seat when he goes.
VacatedByHost(u) == [r \in Rooms |-> IF rooms[r].host = u THEN Vacant ELSE rooms[r]]
\* lobby_cleanup_rooms_for_user.
Vacated(u) ==
  [r \in Rooms |->
     CASE rooms[r].host = u  -> Vacant
       [] rooms[r].host # u /\ rooms[r].guest = u -> [rooms[r] EXCEPT !.guest = Nobody]
       [] OTHER -> rooms[r]]

\* handle_logout: the ready list is seen to, the rooms are not.
Logout(c) ==
  /\ "logout" \in Habits
  /\ clients[c] \in Users
  /\ clients' = With(c, Nobody)
  /\ ready' = Without(ready, clients[c])
  /\ queued' = Patient(With(c, Nobody), [queued EXCEPT ![clients[c]] = "none"])
  /\ made' = {}
  /\ UNCHANGED <<noted, rooms, challenges>>

\* client_disconnect.
Disconnect(c) ==
  /\ clients[c] # Closed
  /\ clients' = With(c, Closed)
  /\ IF clients[c] \in Users
     THEN ready' = Without(ready, clients[c]) /\ rooms' = Vacated(clients[c])
     ELSE UNCHANGED <<ready, rooms>>
  /\ queued' = Patient(With(c, Closed), queued)
  /\ made' = {}
  /\ UNCHANGED <<noted, challenges>>
-----------------------------------------------------------------------------
(***************************************************************************)
(* The ready list.                                                         *)
(***************************************************************************)
IsListed(list, u) == \E k \in DOMAIN list : list[k] = u

\* Mutant: the list is not searched for the user first.
ListedAgain(list, u) == IF Len(list) >= MaxReady THEN list ELSE Append(list, u)
\* lobby_set_ready: once, and only while there is room.
Listed(list, u) ==
  IF IsListed(list, u) \/ Len(list) >= MaxReady THEN list ELSE Append(list, u)

\* The rating in an entry that is made or was there.
Noted(u, rating) == [noted EXCEPT ![u] = rating]

\* handle_set_ready; if the user cannot be read it does nothing.
SetReady(c, u) ==
  /\ Authenticated(c, u, queued)
  /\ ready' = Listed(ready, u)
  /\ noted' = Noted(u, Rating[u])
  /\ made' = {}
  /\ UNCHANGED <<rooms, challenges>>

ClearReady(c, u) ==
  /\ Authenticated(c, u, [queued EXCEPT ![u] = "none"])
  /\ ready' = Without(ready, u)
  /\ made' = {}
  /\ UNCHANGED <<noted, rooms, challenges>>

Distance(a, b) == IF a < b THEN b - a ELSE a - b
Gap(u, v) == Distance(Rating[u], Rating[v])

(***************************************************************************)
(* What a search of u goes by.  It reads u's account twice: the first time *)
(* to put him in the list, which is left out if the read fails, the second *)
(* time (if it is rated) for his rating, which is otherwise nobody's.      *)
(***************************************************************************)
MayFail(fault) == IF fault \in Faults THEN BOOLEAN ELSE {FALSE}
Views(u) ==
  {[list  |-> IF unread THEN ready ELSE Listed(ready, u),
    noted |-> IF unread THEN noted ELSE Noted(u, Rating[u]),
    own   |-> own] :
     unread \in MayFail("read"),
     own \in {Rating[u]} \cup (IF "read" \in Faults THEN Garbage ELSE {})}

\* Mutant: a rated search looks at stronger players only.
StrongerCandidates(view, u, search) ==
  {k \in DOMAIN view.list :
     /\ view.list[k] # u
     /\ search = "rated" => view.noted[view.list[k]] - view.own \in 0..Tolerance}
\* The places of the list that a search of u may choose.
Candidates(view, u, search) ==
  {k \in DOMAIN view.list :
     /\ view.list[k] # u
     /\ search = "rated" => Distance(view.own, view.noted[view.list[k]]) <= Tolerance}

(***************************************************************************)
(* lobby_find_random_match takes the first other player, whatever he asked *)
(* for; lobby_find_rated_match the first of the nearest in rating.         *)
(***************************************************************************)
Opponent(view, u, search, k) ==
  LET far(j) == Distance(view.own, view.noted[view.list[j]]) IN
  /\ k \in Candidates(view, u, search)
  /\ \A j \in Candidates(view, u, search) :
       IF search = "casual" THEN k <= j ELSE far(k) < far(j) \/ (far(k) = far(j) /\ k <= j)

Found(view, u, search, v) ==
  \E k \in DOMAIN view.list : Opponent(view, u, search, k) /\ v = view.list[k]

\* Both leave the list before anything is asked about the opponent.
Unpaired(view, u, v) == Without(Without(view.list, u), v)

(***************************************************************************)
(* handle_find_match, by its outcome, for a view of it.                    *)
(***************************************************************************)
\* "Queued for match", also if he could not be listed.
SearchQueued(c, u, search, view) ==
  /\ Candidates(view, u, search) = {}
  /\ Authenticated(c, u, [queued EXCEPT ![u] = search])
  /\ ready' = view.list /\ noted' = view.noted
  /\ made' = {}
  /\ UNCHANGED <<rooms, challenges>>

\* "Opponent %d not connected; keeping user %d queued".
SearchFoundAbsent(c, u, search, view, v) ==
  /\ Found(view, u, search, v)
  /\ ~IsConnected(With(c, u), v)
  /\ Authenticated(c, u, [queued EXCEPT ![u] = search])
  /\ ready' = Unpaired(view, u, v) /\ noted' = view.noted
  /\ made' = {}
  /\ UNCHANGED <<rooms, challenges>>

FoundPresent(c, u, search, view, v) ==
  Found(view, u, search, v) /\ IsConnected(With(c, u), v)

\* match_create fails: the requester is told, the opponent is not.
SearchFailed(c, u, search, view, v) ==
  /\ "create" \in Faults
  /\ FoundPresent(c, u, search, view, v)
  /\ Authenticated(c, u, [queued EXCEPT ![u] = "none"])
  /\ ready' = Unpaired(view, u, v) /\ noted' = view.noted
  /\ made' = {}
  /\ UNCHANGED <<rooms, challenges>>

SearchMatched(c, u, search, view, v) ==
  /\ FoundPresent(c, u, search, view, v)
  /\ Authenticated(c, u, [queued EXCEPT ![u] = "none", ![v] = "none"])
  /\ ready' = Unpaired(view, u, v) /\ noted' = view.noted
  /\ made' = {[red |-> u, black |-> v, rated |-> search = "rated", by |-> "search"]}
  /\ UNCHANGED <<rooms, challenges>>

\* Both are listed again, with rating 0 if the account cannot be read.
NotedAgain(view, u, v) ==
  {[w \in Users |-> IF w \notin {u, v} THEN view.noted[w]
                    ELSE IF unread[w] THEN 0 ELSE Rating[w]] :
     unread \in [{u, v} -> MayFail("read")]}

(***************************************************************************)
(* A match_found is not delivered to one of the two, or to both: the match *)
(* is rolled back; the opponent may believe that he plays.                 *)
(***************************************************************************)
SearchRolledBack(c, u, search, view, v, told) ==
  /\ "notify" \in Faults
  /\ FoundPresent(c, u, search, view, v)
  /\ told \subseteq {u, v} /\ told # {u, v}
  /\ Authenticated(c, u, [queued EXCEPT ![u] = search,
                                        ![v] = IF v \in told THEN "none" ELSE @])
  /\ ready' = Listed(Listed(Unpaired(view, u, v), u), v)
  /\ noted' \in NotedAgain(view, u, v)
  /\ made' = {}
  /\ UNCHANGED <<rooms, challenges>>
-----------------------------------------------------------------------------
(***************************************************************************)
(* Rooms.  A room is told by its place: the codes are drawn at random and  *)
(* taken to differ.  A wrong password is a refused request.                *)
(***************************************************************************)
FirstVacant(r) ==
  rooms[r] = Vacant /\ \A q \in Rooms : q < r => rooms[q] # Vacant

\* handle_create_room.
CreateRoom(c, u, r, rated) ==
  /\ FirstVacant(r)
  /\ Authenticated(c, u, queued)
  /\ rooms' = [rooms EXCEPT ![r] = [host |-> u, guest |-> Nobody, rated |-> rated]]
  /\ made' = {}
  /\ UNCHANGED <<ready, noted, challenges>>

\* Mutant: the seat is not looked at.
MayJoinOccupied(u, r) == rooms[r] # Vacant
\* lobby_join_room asks whether the seat is free, not who the user is.
MayJoin(u, r) == rooms[r] # Vacant /\ rooms[r].guest = Nobody

\* handle_join_room.
JoinRoom(c, u, r) ==
  /\ MayJoin(u, r)
  /\ Authenticated(c, u, queued)
  /\ rooms' = [rooms EXCEPT ![r].guest = u]
  /\ made' = {}
  /\ UNCHANGED <<ready, noted, challenges>>

\* lobby_leave_room: the guest's seat, or the host's room.
LeftBy(u, r) ==
  IF rooms[r].guest = u THEN [rooms[r] EXCEPT !.guest = Nobody] ELSE Vacant

\* handle_leave_room.
LeaveRoom(c, u, r) ==
  /\ u \in {rooms[r].host, rooms[r].guest}
  /\ Authenticated(c, u, queued)
  /\ rooms' = [rooms EXCEPT ![r] = LeftBy(u, r)]
  /\ made' = {}
  /\ UNCHANGED <<ready, noted, challenges>>

\* Mutant: only for the guest.
ClosedByGuest(u, r) == IF rooms[r].guest = u THEN Vacant ELSE rooms[r]
\* lobby_close_room: only for the host.
ClosedBy(u, r) == IF rooms[r].host = u THEN Vacant ELSE rooms[r]

(***************************************************************************)
(* handle_start_room_game: nothing is asked about the guest's connection,  *)
(* and neither player leaves the ready list.                               *)
(***************************************************************************)
StartRoomGame(c, u, r) ==
  /\ rooms[r].host = u
  /\ rooms[r].guest # Nobody
  /\ Authenticated(c, u, queued)
  /\ rooms' = [rooms EXCEPT ![r] = ClosedBy(rooms[r].host, r)]
  /\ made' = {[red |-> u, black |-> rooms[r].guest, rated |-> rooms[r].rated, by |-> "room"]}
  /\ UNCHANGED <<ready, noted, challenges>>
-----------------------------------------------------------------------------
(***************************************************************************)
(* Challenges.  Told by their place, like the rooms.                       *)
(***************************************************************************)
FirstUnused(h) ==
  challenges[h] = Unused /\ \A g \in Challenges : g < h => challenges[g] # Unused

\* handle_challenge: whoever the opponent is.
ChallengeUser(c, u, v, h, rated) ==
  /\ FirstUnused(h)
  /\ Authenticated(c, u, queued)
  /\ challenges' = [challenges EXCEPT ![h] =
       [from |-> u, to |-> v, rated |-> rated, status |-> "pending"]]
  /\ made' = {}
  /\ UNCHANGED <<ready, noted, rooms>>

\* lobby_accept_challenge: also if it was accepted before.
MayAccept(u, h) == challenges[h].to = u /\ challenges[h].status # "expired"

\* handle_challenge_response.
AcceptChallenge(c, u, h) ==
  /\ MayAccept(u, h)
  /\ Authenticated(c, u, queued)
  /\ challenges' = [challenges EXCEPT ![h].status = "accepted"]
  /\ \/ made' = {[red |-> challenges[h].from, black |-> u,
                  rated |-> challenges[h].rated, by |-> "challenge"]}
     \/ "create" \in Faults /\ made' = {}
  /\ UNCHANGED <<ready, noted, rooms>>

DeclineChallenge(c, u, h) ==
  /\ challenges[h].to = u
  /\ Authenticated(c, u, queued)
  /\ challenges' = [challenges EXCEPT ![h] = Unused]
  /\ made' = {}
  /\ UNCHANGED <<ready, noted, rooms>>

\* Mutant: an accepted challenge does not expire.
ExpirePending(h) ==
  /\ challenges[h].status = "pending"
  /\ challenges' = [challenges EXCEPT ![h].status = "expired"]
  /\ made' = {}
  /\ UNCHANGED <<clients, ready, noted, rooms, queued>>
\* expires_at passes: the challenge stays, but cannot be accepted any more.
Expire(h) ==
  /\ challenges[h].status \in {"pending", "accepted"}
  /\ challenges' = [challenges EXCEPT ![h].status = "expired"]
  /\ made' = {}
  /\ UNCHANGED <<clients, ready, noted, rooms, queued>>

\* lobby_cleanup_expired_challenges, about once a minute.
CleanUp ==
  /\ \E h \in Challenges : challenges[h].status = "expired"
  /\ challenges' = [h \in Challenges |->
       IF challenges[h].status = "expired" THEN Unused ELSE challenges[h]]
  /\ made' = {}
  /\ UNCHANGED <<clients, ready, noted, rooms, queued>>
-----------------------------------------------------------------------------
Connection ==
  \E c \in Clients :
    \/ Connect(c) \/ Disconnect(c) \/ Logout(c)
    \/ \E u \in Users : Bind(c, u)

Queue ==
  \E c \in Clients, u \in Users :
    \/ SetReady(c, u) \/ ClearReady(c, u)
    \/ \E search \in Searches, view \in Views(u) :
         \/ SearchQueued(c, u, search, view)
         \/ \E v \in Users :
              \/ SearchFoundAbsent(c, u, search, view, v)
              \/ SearchFailed(c, u, search, view, v)
              \/ SearchMatched(c, u, search, view, v)
              \/ \E told \in SUBSET Users : SearchRolledBack(c, u, search, view, v, told)

InRooms ==
  \E c \in Clients, u \in Users, r \in Rooms :
    \/ \E rated \in BOOLEAN : CreateRoom(c, u, r, rated)
    \/ JoinRoom(c, u, r) \/ LeaveRoom(c, u, r) \/ StartRoomGame(c, u, r)

InChallenges ==
  \/ \E c \in Clients, u \in Users, h \in Challenges :
       \/ \E v \in Users, rated \in BOOLEAN : ChallengeUser(c, u, v, h, rated)
       \/ AcceptChallenge(c, u, h) \/ DeclineChallenge(c, u, h)
  \/ \E h \in Challenges : Expire(h)
  \/ CleanUp

Next == Connection \/ Queue \/ InRooms \/ InChallenges

Spec == Init /\ [][Next]_vars

(***************************************************************************)
(* Time passes, and epoll_wait returns within a second and lets the loop   *)
(* of server_run reach its clean-up.                                       *)
(***************************************************************************)
Fairness == (\A h \in Challenges : WF_vars(Expire(h))) /\ WF_vars(CleanUp)

FairSpec == Spec /\ Fairness
-----------------------------------------------------------------------------
(***************************************************************************)
(* Invariants.                                                             *)
(***************************************************************************)
TypeOK ==
  /\ clients \in [Clients -> Users \cup {Nobody, Closed}]
  /\ ready \in Seq(Users) /\ Len(ready) <= MaxReady
  /\ noted \in [Users -> Int]
  /\ rooms \in [Rooms -> Room]
  /\ challenges \in [Challenges -> Challenge]
  /\ made \subseteq Match
  /\ queued \in [Users -> Searches \cup {"none"}]

(***************************************************************************)
(* Nobody is in the ready list twice, whatever he and the server did: a    *)
(* second entry would outlive his match, because lobby_remove_player takes *)
(* out one, and pair him again.                                            *)
(***************************************************************************)
ReadyOnce == \A j, k \in DOMAIN ready : ready[j] = ready[k] => j = k

(***************************************************************************)
(* Every entry of the ready list belongs to somebody who is connected:     *)
(* lists and connections are cleaned up together, on every way out -       *)
(* unless a connection changes its user without logging out, which leaves  *)
(* the entry of the former user behind.                                    *)
(***************************************************************************)
ReadyArePresent ==
  "switch" \notin Habits => \A k \in DOMAIN ready : IsConnected(clients, ready[k])

(***************************************************************************)
(* Who was told "Queued for match" by handle_find_match is in the ready    *)
(* list until he is matched, withdraws or goes, so that a later search can *)
(* find him.                                                               *)
(***************************************************************************)
QueuedAreReady == \A u \in Users : queued[u] # "none" => IsListed(ready, u)

(***************************************************************************)
(* Two users are never left waiting for each other: the later search of    *)
(* the two would have paired them.                                         *)
(***************************************************************************)
WaitersAreApart ==
  \A u, v \in Users :
    u # v /\ queued[u] # "none" /\ queued[v] # "none" =>
      /\ Gap(u, v) > Tolerance
      /\ queued[u] = "rated" \/ queued[v] = "rated"

(***************************************************************************)
(* The host and the guest of a room are connected: a disconnect cleans up  *)
(* after both, so handle_start_room_game, which does not ask, does not     *)
(* start a match with somebody who is gone - unless he logged out or his   *)
(* connection went to another user, which leaves the room as it is.        *)
(***************************************************************************)
RoomsOfThePresent ==
  Habits \cap {"switch", "logout"} = {} =>
    \A r \in Rooms : rooms[r] # Vacant =>
      /\ IsConnected(clients, rooms[r].host)
      /\ rooms[r].guest = Nobody \/ IsConnected(clients, rooms[r].guest)
-----------------------------------------------------------------------------
(***************************************************************************)
(* Action properties.                                                      *)
(***************************************************************************)

(***************************************************************************)
(* A search that makes a match takes both players off the ready list: the  *)
(* opponent's entry is used once.                                          *)
(***************************************************************************)
PairedOnce ==
  [][\A m \in made' : m.by = "search" =>
       /\ m.red # m.black
       /\ IsListed(ready, m.black)
       /\ ~IsListed(ready', m.red) /\ ~IsListed(ready', m.black)]_vars

(***************************************************************************)
(* Nobody is pushed out of a room: a room keeps its host, and its guest    *)
(* his seat, until the room or the seat has been given up.                 *)
(***************************************************************************)
SeatsAreKept ==
  [][\A r \in Rooms : rooms[r] # Vacant /\ rooms'[r] # Vacant =>
       /\ rooms'[r].host = rooms[r].host
       /\ rooms[r].guest # Nobody => rooms'[r].guest \in {rooms[r].guest, Nobody}]_vars

(***************************************************************************)
(* A room starts one match: it is closed with the match it starts.         *)
(***************************************************************************)
RoomStartsOnce ==
  [][\A m \in made' : m.by = "room" =>
       \E r \in Rooms : /\ rooms[r] = [host |-> m.red, guest |-> m.black, rated |-> m.rated]
                        /\ rooms'[r] = Vacant]_vars
-----------------------------------------------------------------------------
(***************************************************************************)
(* Liveness.                                                               *)
(***************************************************************************)

(***************************************************************************)
(* A challenge does not hold its place for ever, answered or not: the      *)
(* MAX_CHALLENGES places are not used up.                                  *)
(***************************************************************************)
PlacesAreFreed == \A h \in Challenges : challenges[h] # Unused ~> challenges[h] = Unused
================================================================================
