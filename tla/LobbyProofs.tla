------------------------------ MODULE LobbyProofs ------------------------------
(***************************************************************************)
(* Theorems about Lobby: types, and that the shifting array of             *)
(* lobby_remove_player and the searching insert of lobby_set_ready keep    *)
(* the ready list free of duplicates, whatever the users do.               *)
(***************************************************************************)
EXTENDS Lobby, FiniteSetTheorems, TLAPS

Once(list) == \A j, k \in DOMAIN list : list[j] = list[k] => j = k

(***************************************************************************)
(* The place that lobby_remove_player finds: the first one with u.         *)
(***************************************************************************)
Place(list, u) ==
  CHOOSE k \in DOMAIN list : list[k] = u /\ \A j \in DOMAIN list : j < k => list[j] # u

\* The place that lobby_remove_player finds is the user's, if he is listed.
LEMMA FirstExists ==
  ASSUME NEW list \in Seq(Users), NEW u, IsListed(list, u), Once(list)
  PROVE  Place(list, u) \in 1..Len(list) /\ list[Place(list, u)] = u
<1>1. PICK k \in DOMAIN list : list[k] = u
  BY DEF IsListed
<1>2. \A j \in DOMAIN list : j < k => list[j] # u
  BY <1>1 DEF Once
<1>3. \E i \in DOMAIN list : list[i] = u /\ \A j \in DOMAIN list : j < i => list[j] # u
  BY <1>1, <1>2
<1>4. Place(list, u) \in DOMAIN list /\ list[Place(list, u)] = u
  BY <1>3 DEF Place
<1>5. QED
  BY <1>4

(***************************************************************************)
(* lobby_remove_player on a list without duplicates: what is left is a     *)
(* list without duplicates of the other entries, and u is gone.            *)
(***************************************************************************)
LEMMA WithoutFacts ==
  ASSUME NEW list \in Seq(Users), NEW u, Once(list)
  PROVE  /\ Without(list, u) \in Seq(Users)
         /\ Len(Without(list, u)) <= Len(list)
         /\ Once(Without(list, u))
         /\ ~IsListed(Without(list, u), u)
         /\ \A v : IsListed(Without(list, u), v) => IsListed(list, v)
         /\ \A v : IsListed(list, v) /\ v # u => IsListed(Without(list, u), v)
<1>1. CASE ~IsListed(list, u)
  <2>1. Without(list, u) = list
    BY <1>1 DEF Without, IsListed
  <2>2. QED
    BY <1>1, <2>1
<1>2. CASE IsListed(list, u)
  <2> DEFINE at == Place(list, u)
             n == Len(list)
             rest == [k \in 1..(n - 1) |-> IF k < at THEN list[k] ELSE list[k + 1]]
  <2>1. Without(list, u) = rest
    BY <1>2 DEF Without, IsListed, Place
  <2>2. at \in 1..n /\ list[at] = u
    BY <1>2, FirstExists
  <2>3. n \in Nat /\ DOMAIN list = 1..n /\ \A k \in 1..n : list[k] \in Users
    OBVIOUS
  <2> HIDE DEF at, n
  <2>4. n - 1 \in Nat /\ DOMAIN rest = 1..(n - 1)
    BY <2>2, <2>3
  <2>5. \A k \in 1..(n - 1) : rest[k] \in Users
    BY <2>2, <2>3
  <2>6. rest \in Seq(Users) /\ Len(rest) = n - 1
    BY <2>4, <2>5
  <2>7. \A j, k \in 1..n : list[j] = list[k] => j = k
    BY <2>3 DEF Once
  <2>8. Once(rest)
    BY <2>2, <2>3, <2>4, <2>7 DEF Once
  <2>9. \A k \in 1..(n - 1) : rest[k] # u
    BY <2>2, <2>3, <2>7
  <2>10. ~IsListed(rest, u)
    BY <2>4, <2>9 DEF IsListed
  <2>11. \A v : IsListed(rest, v) => IsListed(list, v)
    BY <2>2, <2>3, <2>4 DEF IsListed
  <2>12. ASSUME NEW v, IsListed(list, v), v # u
         PROVE  IsListed(rest, v)
    <3>1. PICK k \in 1..n : list[k] = v
      BY <2>3, <2>12 DEF IsListed
    <3>2. k # at
      BY <2>2, <2>12, <3>1
    <3>3. CASE k < at
      <4>1. k \in 1..(n - 1) /\ rest[k] = v
        BY <2>2, <2>3, <3>1, <3>3
      <4>2. QED
        BY <2>4, <4>1 DEF IsListed
    <3>4. CASE k > at
      <4>1. k - 1 \in 1..(n - 1) /\ rest[k - 1] = list[k]
        BY <2>2, <2>3, <3>1, <3>4
      <4>2. QED
        BY <2>4, <3>1, <4>1 DEF IsListed
    <3>5. QED
      BY <2>2, <2>3, <3>1, <3>2, <3>3, <3>4
  <2> HIDE DEF rest
  <2>13. Len(rest) <= n
    BY <2>3, <2>6
  <2>14. Len(rest) <= Len(list)
    BY <2>13 DEF n
  <2>15. QED
    BY <2>1, <2>6, <2>8, <2>10, <2>11, <2>12, <2>14
<1>3. QED
  BY <1>1, <1>2

(***************************************************************************)
(* lobby_set_ready adds a user at most once and at most up to the limit.   *)
(***************************************************************************)
LEMMA ListedFacts ==
  ASSUME NEW list \in Seq(Users), NEW u \in Users, Once(list), Len(list) <= MaxReady
  PROVE  /\ Listed(list, u) \in Seq(Users)
         /\ Len(Listed(list, u)) <= MaxReady
         /\ Once(Listed(list, u))
         /\ \A v : IsListed(list, v) => IsListed(Listed(list, u), v)
         /\ \A v : IsListed(Listed(list, u), v) => v = u \/ IsListed(list, v)
<1>1. CASE IsListed(list, u) \/ Len(list) >= MaxReady
  <2>1. Listed(list, u) = list
    BY <1>1 DEF Listed
  <2>2. QED
    BY <2>1
<1>2. CASE ~(IsListed(list, u) \/ Len(list) >= MaxReady)
  <2> DEFINE n == Len(list)
             longer == Append(list, u)
  <2>1. Listed(list, u) = longer
    BY <1>2 DEF Listed
  <2>2. n \in Nat /\ DOMAIN list = 1..n
    OBVIOUS
  <2>3. longer \in Seq(Users) /\ Len(longer) = n + 1 /\ DOMAIN longer = 1..(n + 1)
    OBVIOUS
  <2>4. longer[n + 1] = u /\ \A k \in 1..n : longer[k] = list[k]
    OBVIOUS
  <2>5. n + 1 <= MaxReady
    BY <1>2, <2>2, LimitsAssumption
  <2> HIDE DEF n, longer
  <2>6. \A k \in 1..n : list[k] # u
    BY <1>2, <2>2 DEF IsListed
  <2>7. Once(longer)
    BY <2>2, <2>3, <2>4, <2>6 DEF Once
  <2>8. \A v : IsListed(list, v) => IsListed(longer, v)
    BY <2>2, <2>3, <2>4 DEF IsListed
  <2>9. \A v : IsListed(longer, v) => v = u \/ IsListed(list, v)
    BY <2>2, <2>3, <2>4 DEF IsListed
  <2>10. QED
    BY <2>1, <2>3, <2>5, <2>7, <2>8, <2>9
<1>3. QED
  BY <1>1, <1>2
-----------------------------------------------------------------------------
(***************************************************************************)
(* The ready list and every step.                                          *)
(***************************************************************************)
GoodList(list) == list \in Seq(Users) /\ Len(list) <= MaxReady /\ Once(list)

\* Removing a user keeps the list short, typed and free of repetitions.
LEMMA WithoutGood ==
  ASSUME NEW list, GoodList(list), NEW u
  PROVE  GoodList(Without(list, u))
<1>1. /\ Without(list, u) \in Seq(Users)
      /\ Len(Without(list, u)) <= Len(list)
      /\ Once(Without(list, u))
  BY WithoutFacts DEF GoodList
<1>2. Len(list) \in Nat /\ Len(Without(list, u)) \in Nat /\ MaxReady \in Nat
  BY <1>1, LimitsAssumption DEF GoodList
<1>3. QED
  BY <1>1, <1>2 DEF GoodList

\* Entering a user keeps the list short, typed and free of repetitions.
LEMMA ListedGood ==
  ASSUME NEW list, GoodList(list), NEW u \in Users
  PROVE  GoodList(Listed(list, u))
BY ListedFacts DEF GoodList

\* A search goes by the list with its user entered, or as it was if the read failed.
LEMMA ViewedList ==
  ASSUME NEW u \in Users, NEW view \in Views(u)
  PROVE  /\ view.list = ready \/ view.list = Listed(ready, u)
         /\ view.noted = noted \/ view.noted = Noted(u, Rating[u])
         /\ "read" \notin Faults => /\ view.list = Listed(ready, u)
                                   /\ view.noted = Noted(u, Rating[u])
                                   /\ view.own = Rating[u]
<1>1. PICK unread \in MayFail("read"),
           own \in {Rating[u]} \cup (IF "read" \in Faults THEN Garbage ELSE {}) :
        view = [list  |-> IF unread THEN ready ELSE Listed(ready, u),
                noted |-> IF unread THEN noted ELSE Noted(u, Rating[u]),
                own   |-> own]
  BY DEF Views
<1>2. unread \in BOOLEAN /\ ("read" \notin Faults => ~unread /\ own = Rating[u])
  BY DEF MayFail
<1>3. QED
  BY <1>1, <1>2

\* The list a search goes by is short, typed and free of repetitions.
LEMMA ViewedGood ==
  ASSUME GoodList(ready), NEW u \in Users, NEW view \in Views(u)
  PROVE  /\ GoodList(view.list)
         /\ \A w : IsListed(view.list, w) => IsListed(Listed(ready, u), w)
         /\ \A w : IsListed(ready, w) => IsListed(view.list, w)
<1>1. /\ GoodList(Listed(ready, u))
      /\ \A w : IsListed(ready, w) => IsListed(Listed(ready, u), w)
  BY ListedGood, ListedFacts DEF GoodList
<1>2. QED
  BY <1>1, ViewedList

\* What handle_find_match leaves of the list, and what a rollback makes of it.
LEMMA UnpairedGood ==
  ASSUME GoodList(ready), NEW u \in Users, NEW v \in Users, NEW view \in Views(u)
  PROVE  GoodList(Unpaired(view, u, v)) /\ GoodList(Listed(Listed(Unpaired(view, u, v), u), v))
<1>1. GoodList(Unpaired(view, u, v))
  BY ViewedGood, WithoutGood DEF Unpaired
<1>2. QED
  BY <1>1, ListedGood

(***************************************************************************)
(* What a step may do to the ready list.                                   *)
(***************************************************************************)
ListStep(list) ==
  \/ list = ready
  \/ \E u \in Users : list = Listed(ready, u) \/ list = Without(ready, u)
  \/ \E u, v \in Users : \E view \in Views(u) :
       list \in {Unpaired(view, u, v), Listed(Listed(Unpaired(view, u, v), u), v)}

\* A request about the ready list gives its connection to its user.
LEMMA QueueBinds ==
  ASSUME NEW c, NEW u,
         \/ SetReady(c, u) \/ ClearReady(c, u)
         \/ \E search \in Searches, view \in Views(u) :
              \/ SearchQueued(c, u, search, view)
              \/ \E v \in Users :
                   \/ SearchFoundAbsent(c, u, search, view, v)
                   \/ SearchFailed(c, u, search, view, v)
                   \/ SearchMatched(c, u, search, view, v)
                   \/ \E told \in SUBSET Users : SearchRolledBack(c, u, search, view, v, told)
  PROVE  \E answers : Authenticated(c, u, answers)
<1> DEFINE Bound == \E answers : Authenticated(c, u, answers)
<1>1. SetReady(c, u) \/ ClearReady(c, u) => Bound
  BY DEF SetReady, ClearReady
<1>2. \A search, view : SearchQueued(c, u, search, view) => Bound
  BY DEF SearchQueued
<1>3. \A search, view, v : SearchFoundAbsent(c, u, search, view, v) => Bound
  BY DEF SearchFoundAbsent
<1>4. \A search, view, v : SearchFailed(c, u, search, view, v) => Bound
  BY DEF SearchFailed
<1>5. \A search, view, v : SearchMatched(c, u, search, view, v) => Bound
  BY DEF SearchMatched
<1>6. \A search, view, v, told : SearchRolledBack(c, u, search, view, v, told) => Bound
  BY DEF SearchRolledBack
<1> HIDE DEF Bound
<1>7. Bound
  BY <1>1, <1>2, <1>3, <1>4, <1>5, <1>6
<1>8. QED
  BY <1>7 DEF Bound

\* What all requests about the ready list have in common.
LEMMA QueueSteps ==
  ASSUME Queue
  PROVE  \E c \in Clients, u \in Users :
           /\ \E answers : Authenticated(c, u, answers)
           /\ rooms' = rooms
           /\ ListStep(ready')
           /\ Faults = {} => noted' = noted \/ noted' = Noted(u, Rating[u])
<1>1. PICK c \in Clients, u \in Users :
        \/ SetReady(c, u) \/ ClearReady(c, u)
        \/ \E search \in Searches, view \in Views(u) :
             \/ SearchQueued(c, u, search, view)
             \/ \E v \in Users :
                  \/ SearchFoundAbsent(c, u, search, view, v)
                  \/ SearchFailed(c, u, search, view, v)
                  \/ SearchMatched(c, u, search, view, v)
                  \/ \E told \in SUBSET Users : SearchRolledBack(c, u, search, view, v, told)
  BY DEF Queue
<1> DEFINE Common == /\ \E answers : Authenticated(c, u, answers)
                     /\ rooms' = rooms
                     /\ ListStep(ready')
                     /\ Faults = {} => noted' = noted \/ noted' = Noted(u, Rating[u])
<1>2. ASSUME SetReady(c, u)
      PROVE  Common
  BY <1>2 DEF SetReady, ListStep
<1>3. ASSUME ClearReady(c, u)
      PROVE  Common
  BY <1>3 DEF ClearReady, ListStep
<1>4. ASSUME NEW search \in Searches, NEW view \in Views(u), SearchQueued(c, u, search, view)
      PROVE  Common
  <2>1. ListStep(view.list)
    BY ViewedList DEF ListStep
  <2>2. QED
    BY <1>4, <2>1, ViewedList DEF SearchQueued
<1>5. ASSUME NEW search \in Searches, NEW view \in Views(u), NEW v \in Users,
             \/ SearchFoundAbsent(c, u, search, view, v)
             \/ SearchFailed(c, u, search, view, v)
             \/ SearchMatched(c, u, search, view, v)
             \/ \E told \in SUBSET Users : SearchRolledBack(c, u, search, view, v, told)
      PROVE  Common
  <2>1. /\ ListStep(Unpaired(view, u, v))
        /\ ListStep(Listed(Listed(Unpaired(view, u, v), u), v))
    BY DEF ListStep
  <2>2. CASE SearchFoundAbsent(c, u, search, view, v)
    BY <2>1, <2>2, ViewedList DEF SearchFoundAbsent
  <2>3. CASE SearchFailed(c, u, search, view, v)
    BY <2>1, <2>3, ViewedList DEF SearchFailed
  <2>4. CASE SearchMatched(c, u, search, view, v)
    BY <2>1, <2>4, ViewedList DEF SearchMatched
  <2>5. ASSUME NEW told \in SUBSET Users, SearchRolledBack(c, u, search, view, v, told)
        PROVE  Common
    BY <2>1, <2>5 DEF SearchRolledBack
  <2>6. QED
    BY <1>5, <2>2, <2>3, <2>4, <2>5
<1> HIDE DEF Common
<1>6. Common
  BY <1>1, <1>2, <1>3, <1>4, <1>5
<1>7. QED
  BY <1>6 DEF Common

\* Every step leaves the list or changes it in one of the ways of ListStep.
LEMMA StepOfList ==
  ASSUME [Next]_vars
  PROVE  ListStep(ready')
<1>1. CASE Connection
  <2>1. PICK c \in Clients : \/ Connect(c) \/ Disconnect(c) \/ Logout(c)
                             \/ \E u \in Users : Bind(c, u)
    BY <1>1 DEF Connection
  <2>2. QED
    BY <2>1 DEF Connect, Disconnect, Logout, Bind, ListStep
<1>2. CASE Queue
  BY <1>2, QueueSteps
<1>3. CASE InRooms
  BY <1>3 DEF InRooms, CreateRoom, JoinRoom, LeaveRoom, StartRoomGame, ListStep
<1>4. CASE InChallenges
  BY <1>4 DEF InChallenges, ChallengeUser, AcceptChallenge, DeclineChallenge, Expire,
              CleanUp, ListStep
<1>5. CASE UNCHANGED vars
  BY <1>5 DEF vars, ListStep
<1>6. QED
  BY <1>1, <1>2, <1>3, <1>4, <1>5 DEF Next

\* No step makes the list longer than MaxReady or lists a user twice.
LEMMA ListStaysGood ==
  ASSUME GoodList(ready), [Next]_vars
  PROVE  GoodList(ready)'
<1>1. \A list : ListStep(list) => GoodList(list)
  BY ListedGood, WithoutGood, UnpairedGood DEF ListStep
<1>2. ListStep(ready')
  BY StepOfList
<1>3. GoodList(ready')
  BY <1>1, <1>2
<1>4. QED
  BY <1>3 DEF GoodList, Once

\* The list that lobby_init leaves is empty.
LEMMA EmptyIsGood == Init => GoodList(ready)
<1>1. << >> \in Seq(Users) /\ Len(<< >>) = 0 /\ DOMAIN << >> = {}
  OBVIOUS
<1>2. QED
  BY <1>1, LimitsAssumption DEF Init, GoodList, Once

(***************************************************************************)
(* The ready list never holds anybody twice, so the one entry that a       *)
(* removal takes out is all there is: for any number of users and          *)
(* connections, any limit and any failure of match_create, send and reads. *)
(***************************************************************************)
THEOREM ReadyOnceTheorem == Spec => []ReadyOnce
<1>1. Spec => []GoodList(ready)
  <2>1. GoodList(ready) /\ [Next]_vars => GoodList(ready)'
    BY ListStaysGood
  <2>2. QED
    BY <2>1, EmptyIsGood, PTL DEF Spec
<1>2. GoodList(ready) => ReadyOnce
  BY DEF GoodList, Once, ReadyOnce
<1>3. QED
  BY <1>1, <1>2, PTL
-----------------------------------------------------------------------------
(***************************************************************************)
(* Types.                                                                  *)
(***************************************************************************)
Answers == Searches \cup {"none"}
Connections == [Clients -> Users \cup {Nobody, Closed}]

\* Binding a connection keeps the type of clients.
LEMMA WithType ==
  ASSUME clients \in Connections, NEW c \in Clients, NEW who \in Users \cup {Nobody, Closed}
  PROVE  With(c, who) \in Connections
BY DEF With, Connections

\* Noting an answer keeps the type of queued.
LEMMA PatientType ==
  ASSUME NEW table, NEW answers \in [Users -> Answers]
  PROVE  Patient(table, answers) \in [Users -> Answers]
BY DEF Patient, Answers

\* An authenticated request keeps the types of what it touches.
LEMMA AuthenticatedType ==
  ASSUME clients \in Connections, NEW c \in Clients, NEW u \in Users,
         NEW answers \in [Users -> Answers], Authenticated(c, u, answers)
  PROVE  clients' \in Connections /\ queued' \in [Users -> Answers]
BY WithType, PatientType DEF Authenticated

\* A seat that is given up, or was free.
LEMMA FreeSeatType ==
  ASSUME NEW room \in Room
  PROVE  [room EXCEPT !.guest = Nobody] \in Room
<1>1. CASE room = Vacant
  <2> DEFINE only == [host : {Nobody}, guest : {Nobody}, rated : {FALSE}]
  <2>1. Vacant \in only
    BY DEF Vacant
  <2>2. \A x \in only : [x EXCEPT !.guest = Nobody] \in only
    OBVIOUS
  <2>3. ASSUME NEW x \in only
        PROVE  x = Vacant
    <3>1. x = [host |-> x.host, guest |-> x.guest, rated |-> x.rated]
      OBVIOUS
    <3>2. x.host = Nobody /\ x.guest = Nobody /\ x.rated = FALSE
      OBVIOUS
    <3>3. QED
      BY <3>1, <3>2 DEF Vacant
  <2> HIDE DEF only
  <2>4. QED
    BY <1>1, <2>1, <2>2, <2>3 DEF Room
<1>2. CASE room # Vacant
  BY <1>2 DEF Room
<1>3. QED
  BY <1>1, <1>2

\* lobby_cleanup_rooms_for_user leaves rooms.
LEMMA VacatedType ==
  ASSUME rooms \in [Rooms -> Room], NEW u
  PROVE  Vacated(u) \in [Rooms -> Room]
<1>1. SUFFICES ASSUME NEW r \in Rooms
      PROVE  Vacated(u)[r] \in Room
  BY DEF Vacated
<1>2. CASE rooms[r].host = u
  BY <1>2 DEF Vacated, Room
<1>3. CASE rooms[r].host # u /\ rooms[r].guest = u
  <2>1. Vacated(u)[r] = [rooms[r] EXCEPT !.guest = Nobody]
    BY <1>3 DEF Vacated
  <2>2. QED
    BY <2>1, FreeSeatType
<1>4. CASE ~(rooms[r].host = u) /\ ~(rooms[r].host # u /\ rooms[r].guest = u)
  <2>1. Vacated(u)[r] = rooms[r]
    BY <1>4 DEF Vacated
  <2>2. QED
    BY <2>1
<1>5. QED
  BY <1>2, <1>3, <1>4

\* Everything but the ready list.
Types ==
  /\ clients \in Connections
  /\ noted \in [Users -> Int]
  /\ rooms \in [Rooms -> Room]
  /\ challenges \in [Challenges -> Challenge]
  /\ made \subseteq Match
  /\ queued \in [Users -> Answers]

\* Connecting, login, logout and disconnecting keep the types.
LEMMA ConnectionTypes ==
  ASSUME Types, Connection
  PROVE  Types'
<1>1. PICK c \in Clients : \/ Connect(c) \/ Disconnect(c) \/ Logout(c)
                           \/ \E u \in Users : Bind(c, u)
  BY DEF Connection
<1>2. CASE Connect(c)
  BY <1>2, WithType DEF Types, Connect
<1>3. CASE Disconnect(c)
  BY <1>3, WithType, PatientType, VacatedType DEF Types, Disconnect
<1>4. CASE Logout(c)
  <2>1. [queued EXCEPT ![clients[c]] = "none"] \in [Users -> Answers]
    BY DEF Types, Answers
  <2>2. QED
    BY <1>4, <2>1, WithType, PatientType DEF Types, Logout
<1>5. CASE \E u \in Users : Bind(c, u)
  BY <1>5, AuthenticatedType DEF Types, Bind
<1>6. QED
  BY <1>1, <1>2, <1>3, <1>4, <1>5

\* The requests about the ready list keep the types.
LEMMA QueueTypes ==
  ASSUME Types, Queue
  PROVE  Types'
<1>1. PICK c \in Clients, u \in Users :
        \/ SetReady(c, u) \/ ClearReady(c, u)
        \/ \E search \in Searches, view \in Views(u) :
             \/ SearchQueued(c, u, search, view)
             \/ \E v \in Users :
                  \/ SearchFoundAbsent(c, u, search, view, v)
                  \/ SearchFailed(c, u, search, view, v)
                  \/ SearchMatched(c, u, search, view, v)
                  \/ \E told \in SUBSET Users : SearchRolledBack(c, u, search, view, v, told)
  BY DEF Queue
<1>2. \A answer \in Answers : [queued EXCEPT ![u] = answer] \in [Users -> Answers]
  BY DEF Types
<1>3. "none" \in Answers /\ Searches \subseteq Answers
  BY DEF Answers
<1>10. noted \in [Users -> Int] /\ Noted(u, Rating[u]) \in [Users -> Int]
  BY RatingAssumption DEF Types, Noted
<1>11. \A view \in Views(u) : view.noted \in [Users -> Int]
  BY <1>10, ViewedList
<1>4. CASE SetReady(c, u) \/ ClearReady(c, u)
  BY <1>2, <1>3, <1>4, <1>10, AuthenticatedType DEF Types, SetReady, ClearReady
<1>5. ASSUME NEW search \in Searches, NEW view \in Views(u), SearchQueued(c, u, search, view)
      PROVE  Types'
  BY <1>2, <1>3, <1>5, <1>11, AuthenticatedType DEF Types, SearchQueued
<1>6. ASSUME NEW search \in Searches, NEW view \in Views(u), NEW v \in Users,
             \/ SearchFoundAbsent(c, u, search, view, v)
             \/ SearchFailed(c, u, search, view, v)
      PROVE  Types'
  BY <1>2, <1>3, <1>6, <1>11, AuthenticatedType DEF Types, SearchFoundAbsent, SearchFailed
<1>7. ASSUME NEW search \in Searches, NEW view \in Views(u), NEW v \in Users, SearchMatched(c, u, search, view, v)
      PROVE  Types'
  <2>1. [queued EXCEPT ![u] = "none", ![v] = "none"] \in [Users -> Answers]
    BY <1>3 DEF Types
  <2>2. [red |-> u, black |-> v, rated |-> search = "rated", by |-> "search"] \in Match
    BY DEF Match
  <2>3. QED
    BY <1>7, <1>11, <2>1, <2>2, AuthenticatedType DEF Types, SearchMatched
<1>8. ASSUME NEW search \in Searches, NEW view \in Views(u), NEW v \in Users, NEW told \in SUBSET Users,
             SearchRolledBack(c, u, search, view, v, told)
      PROVE  Types'
  <2>1. [queued EXCEPT ![u] = search, ![v] = IF v \in told THEN "none" ELSE @]
          \in [Users -> Answers]
    BY <1>3 DEF Types
  <2>2. noted' \in [Users -> Int]
    <3>1. noted' \in NotedAgain(view, u, v)
      BY <1>8 DEF SearchRolledBack
    <3>2. PICK unread \in [{u, v} -> MayFail("read")] :
            noted' = [w \in Users |-> IF w \notin {u, v} THEN view.noted[w]
                                      ELSE IF unread[w] THEN 0 ELSE Rating[w]]
      BY <3>1 DEF NotedAgain
    <3>3. \A w \in Users : view.noted[w] \in Int /\ Rating[w] \in Int
      BY <1>11, RatingAssumption
    <3> QED
      BY <3>2, <3>3
  <2>3. QED
    BY <1>8, <2>1, <2>2, AuthenticatedType DEF Types, SearchRolledBack
<1>9. QED
  BY <1>1, <1>4, <1>5, <1>6, <1>7, <1>8

\* The requests about rooms keep the types.
LEMMA RoomTypes ==
  ASSUME Types, InRooms
  PROVE  Types'
<1>1. PICK c \in Clients, u \in Users, r \in Rooms :
        \/ \E rated \in BOOLEAN : CreateRoom(c, u, r, rated)
        \/ JoinRoom(c, u, r) \/ LeaveRoom(c, u, r) \/ StartRoomGame(c, u, r)
  BY DEF InRooms
<1>2. ASSUME NEW rated \in BOOLEAN, CreateRoom(c, u, r, rated)
      PROVE  Types'
  <2>1. [host |-> u, guest |-> Nobody, rated |-> rated] \in Room
    BY DEF Room
  <2>2. QED
    BY <1>2, <2>1, AuthenticatedType DEF Types, CreateRoom
<1>3. CASE JoinRoom(c, u, r)
  <2>1. rooms[r] \in [host : Users, guest : Users \cup {Nobody}, rated : BOOLEAN]
    BY <1>3 DEF Types, JoinRoom, MayJoin, Room
  <2>2. [rooms[r] EXCEPT !.guest = u] \in Room
    BY <2>1 DEF Room
  <2>3. QED
    BY <1>3, <2>2, AuthenticatedType DEF Types, JoinRoom
<1>4. CASE LeaveRoom(c, u, r)
  <2>1. LeftBy(u, r) \in Room
    <3>1. rooms[r] \in Room
      BY DEF Types
    <3>2. Vacant \in Room
      BY DEF Room
    <3>3. QED
      BY <3>1, <3>2, FreeSeatType DEF LeftBy
  <2>2. QED
    BY <1>4, <2>1, AuthenticatedType DEF Types, LeaveRoom
<1>5. CASE StartRoomGame(c, u, r)
  <2>1. rooms[r].guest \in Users /\ rooms[r].rated \in BOOLEAN
    BY <1>5 DEF Types, StartRoomGame, Room, Vacant
  <2>2. [red |-> u, black |-> rooms[r].guest, rated |-> rooms[r].rated, by |-> "room"] \in Match
    BY <2>1 DEF Match
  <2>3. ClosedBy(rooms[r].host, r) \in Room
    BY DEF ClosedBy, Room
  <2>4. QED
    BY <1>5, <2>2, <2>3, AuthenticatedType DEF Types, StartRoomGame
<1>6. QED
  BY <1>1, <1>2, <1>3, <1>4, <1>5

\* The requests about challenges keep the types.
LEMMA ChallengeTypes ==
  ASSUME Types, InChallenges
  PROVE  Types'
<1>1. ASSUME NEW c \in Clients, NEW u \in Users, NEW h \in Challenges,
             NEW v \in Users, NEW rated \in BOOLEAN, ChallengeUser(c, u, v, h, rated)
      PROVE  Types'
  <2>1. [from |-> u, to |-> v, rated |-> rated, status |-> "pending"] \in Challenge
    BY DEF Challenge
  <2>2. QED
    BY <1>1, <2>1, AuthenticatedType DEF Types, ChallengeUser
<1>2. \A h \in Challenges : challenges[h] \in Challenge
  BY DEF Types
<1>3. ASSUME NEW c \in Clients, NEW u \in Users, NEW h \in Challenges, AcceptChallenge(c, u, h)
      PROVE  Types'
  <2>1. challenges[h] \in [from : Users, to : Users, rated : BOOLEAN,
                           status : {"pending", "accepted", "expired"}]
    BY <1>2, <1>3, UsersAssumption DEF AcceptChallenge, MayAccept, Challenge, Unused
  <2>2. [challenges[h] EXCEPT !.status = "accepted"] \in Challenge
    BY <2>1 DEF Challenge
  <2>3. [red |-> challenges[h].from, black |-> u, rated |-> challenges[h].rated,
         by |-> "challenge"] \in Match
    BY <2>1 DEF Match
  <2>4. QED
    BY <1>3, <2>2, <2>3, AuthenticatedType DEF Types, AcceptChallenge
<1>4. Unused \in Challenge
  BY DEF Challenge
<1>5. ASSUME NEW c \in Clients, NEW u \in Users, NEW h \in Challenges, DeclineChallenge(c, u, h)
      PROVE  Types'
  BY <1>4, <1>5, AuthenticatedType DEF Types, DeclineChallenge
<1>6. ASSUME NEW h \in Challenges, Expire(h)
      PROVE  Types'
  <2>1. challenges[h] \in [from : Users, to : Users, rated : BOOLEAN,
                           status : {"pending", "accepted", "expired"}]
    BY <1>2, <1>6 DEF Expire, Challenge, Unused
  <2>2. [challenges[h] EXCEPT !.status = "expired"] \in Challenge
    BY <2>1 DEF Challenge
  <2>3. QED
    BY <1>6, <2>2 DEF Types, Expire
<1>7. CASE CleanUp
  BY <1>2, <1>4, <1>7 DEF Types, CleanUp
<1>8. QED
  BY <1>1, <1>3, <1>5, <1>6, <1>7 DEF InChallenges

\* The types of everything but the list's length hold always.
LEMMA TypesHold == Spec => []Types
<1>1. Init => Types
  BY RatingAssumption DEF Init, Types, Connections, Room, Challenge, Answers
<1>2. Types /\ [Next]_vars => Types'
  <2>1. ASSUME Types, UNCHANGED vars
        PROVE  Types'
    BY <2>1 DEF Types, vars
  <2>2. QED
    BY <2>1, ConnectionTypes, QueueTypes, RoomTypes, ChallengeTypes DEF Next
<1>3. QED
  BY <1>1, <1>2, PTL DEF Spec

(***************************************************************************)
(* The arrays of the lobby stay in their ranges, the ready list within its *)
(* limit, and a match is made of users only: nobody plays against user_id  *)
(* 0, the free seat of a room or the free place of a challenge.            *)
(***************************************************************************)
THEOREM LobbyTypeCorrect == Spec => []TypeOK
<1>1. GoodList(ready) /\ [Next]_vars => GoodList(ready)'
  BY ListStaysGood
<1>2. Types /\ GoodList(ready) => TypeOK
  BY DEF Types, GoodList, TypeOK, Connections, Answers
<1>3. QED
  BY <1>1, <1>2, TypesHold, EmptyIsGood, PTL DEF Spec
-----------------------------------------------------------------------------
(***************************************************************************)
(* Pairing.                                                                *)
(***************************************************************************)
LEMMA UnpairedFacts ==
  ASSUME GoodList(ready), NEW u \in Users, NEW v \in Users, NEW view \in Views(u)
  PROVE  /\ ~IsListed(Unpaired(view, u, v), u)
         /\ ~IsListed(Unpaired(view, u, v), v)
         /\ \A w : IsListed(Unpaired(view, u, v), w) => IsListed(Listed(ready, u), w)
<1> DEFINE list == view.list
           rest == Without(list, u)
<1>1. /\ list \in Seq(Users) /\ Once(list)
      /\ \A w : IsListed(list, w) => IsListed(Listed(ready, u), w)
  BY ViewedGood DEF GoodList
<1> HIDE DEF list
<1>2. /\ rest \in Seq(Users) /\ Once(rest) /\ ~IsListed(rest, u)
      /\ \A w : IsListed(rest, w) => IsListed(list, w)
  BY <1>1, WithoutFacts
<1> HIDE DEF rest
<1>3. /\ ~IsListed(Without(rest, v), v)
      /\ \A w : IsListed(Without(rest, v), w) => IsListed(rest, w)
  BY <1>2, WithoutFacts
<1>4. Unpaired(view, u, v) = Without(rest, v)
  BY DEF Unpaired, rest, list
<1>5. QED
  BY <1>1, <1>2, <1>3, <1>4

\* Whoever else was listed still is when two are taken off the list.
LEMMA UnpairedKeeps ==
  ASSUME GoodList(ready), NEW u \in Users, NEW v \in Users, NEW view \in Views(u), NEW w,
         IsListed(ready, w), w \notin {u, v}
  PROVE  IsListed(Unpaired(view, u, v), w)
<1> DEFINE list == view.list
           rest == Without(list, u)
<1>1. list \in Seq(Users) /\ Once(list) /\ IsListed(list, w)
  BY ViewedGood DEF GoodList
<1> HIDE DEF list
<1>2. rest \in Seq(Users) /\ Once(rest) /\ IsListed(rest, w)
  BY <1>1, WithoutFacts
<1> HIDE DEF rest
<1>3. IsListed(Without(rest, v), w)
  BY <1>2, WithoutFacts
<1> QED
  BY <1>3 DEF Unpaired, rest, list

\* The opponent that a search finds is another user, who was listed.
LEMMA FoundFacts ==
  ASSUME GoodList(ready), NEW u \in Users, NEW view \in Views(u), NEW search, NEW v,
         Found(view, u, search, v)
  PROVE  v # u /\ IsListed(ready, v)
<1>1. v # u /\ IsListed(view.list, v)
  BY DEF Found, Opponent, Candidates, IsListed
<1>2. QED
  BY <1>1, ViewedGood, ListedFacts DEF GoodList

(***************************************************************************)
(* A step that makes a match by a search is SearchMatched.                 *)
(***************************************************************************)
LEMMA MadeBySearch ==
  ASSUME Next, NEW m \in made', m.by = "search"
  PROVE  \E c \in Clients, u \in Users, v \in Users, search \in Searches : \E view \in Views(u) :
           /\ SearchMatched(c, u, search, view, v)
           /\ m.red = u /\ m.black = v
<1>1. ~Connection
  BY DEF Connection, Connect, Disconnect, Logout, Bind
<1>2. ~InRooms
  BY DEF InRooms, CreateRoom, JoinRoom, LeaveRoom, StartRoomGame
<1>3. ~InChallenges
  BY DEF InChallenges, ChallengeUser, AcceptChallenge, DeclineChallenge, Expire, CleanUp
<1>4. Queue
  BY <1>1, <1>2, <1>3 DEF Next
<1>5. PICK c \in Clients, u \in Users :
        \/ SetReady(c, u) \/ ClearReady(c, u)
        \/ \E search \in Searches, view \in Views(u) :
             \/ SearchQueued(c, u, search, view)
             \/ \E v \in Users :
                  \/ SearchFoundAbsent(c, u, search, view, v)
                  \/ SearchFailed(c, u, search, view, v)
                  \/ SearchMatched(c, u, search, view, v)
                  \/ \E told \in SUBSET Users : SearchRolledBack(c, u, search, view, v, told)
  BY <1>4 DEF Queue
<1>6. ~SetReady(c, u) /\ ~ClearReady(c, u)
  BY DEF SetReady, ClearReady
<1>7. \A search, view, v, told : /\ ~SearchQueued(c, u, search, view)
                           /\ ~SearchFoundAbsent(c, u, search, view, v)
                           /\ ~SearchFailed(c, u, search, view, v)
                           /\ ~SearchRolledBack(c, u, search, view, v, told)
  BY DEF SearchQueued, SearchFoundAbsent, SearchFailed, SearchRolledBack
<1>8. PICK search \in Searches, view \in Views(u), v \in Users : SearchMatched(c, u, search, view, v)
  BY <1>5, <1>6, <1>7
<1>9. m.red = u /\ m.black = v
  BY <1>8 DEF SearchMatched
<1>10. QED
  BY <1>8, <1>9

(***************************************************************************)
(* A search that makes a match uses the opponent's entry up, and the       *)
(* requester's, whoever else is in the list.                               *)
(***************************************************************************)
THEOREM PairedOnceTheorem == Spec => PairedOnce
<1> DEFINE Paired == \A m \in made' : m.by = "search" =>
                       /\ m.red # m.black
                       /\ IsListed(ready, m.black)
                       /\ ~IsListed(ready', m.red) /\ ~IsListed(ready', m.black)
<1>1. ASSUME GoodList(ready), Next
      PROVE  Paired
  <2>1. SUFFICES ASSUME NEW m \in made', m.by = "search"
        PROVE  /\ m.red # m.black
               /\ IsListed(ready, m.black)
               /\ ~IsListed(ready', m.red) /\ ~IsListed(ready', m.black)
    OBVIOUS
  <2>2. PICK c \in Clients, u \in Users, v \in Users, search \in Searches :
          \E view \in Views(u) : SearchMatched(c, u, search, view, v) /\ m.red = u /\ m.black = v
    BY <1>1, <2>1, MadeBySearch
  <2>3. PICK view \in Views(u) : SearchMatched(c, u, search, view, v) /\ m.red = u /\ m.black = v
    BY <2>2
  <2>4. Found(view, u, search, v) /\ ready' = Unpaired(view, u, v)
    BY <2>3 DEF SearchMatched, FoundPresent
  <2>5. QED
    BY <1>1, <2>3, <2>4, FoundFacts, UnpairedFacts
<1>2. GoodList(ready) /\ [Next]_vars => [Paired]_vars
  BY <1>1
<1>3. GoodList(ready) /\ [Next]_vars => GoodList(ready)'
  BY ListStaysGood
<1>4. QED
  BY <1>2, <1>3, EmptyIsGood, PTL DEF Spec, PairedOnce
-----------------------------------------------------------------------------
(***************************************************************************)
(* Rooms.                                                                  *)
(***************************************************************************)
KeepsSeats ==
  \A r \in Rooms : rooms[r] # Vacant /\ rooms'[r] # Vacant =>
    /\ rooms'[r].host = rooms[r].host
    /\ rooms[r].guest # Nobody => rooms'[r].guest \in {rooms[r].guest, Nobody}

(***************************************************************************)
(* Nobody is pushed out of a room by somebody else's request to join it,   *)
(* to create a room, or by a disconnect.                                   *)
(***************************************************************************)
THEOREM SeatsTheorem == Spec => SeatsAreKept
<1>1. ASSUME Types, Connection
      PROVE  KeepsSeats
  <2>1. ASSUME NEW c \in Clients, Disconnect(c)
        PROVE  KeepsSeats
    <3>1. CASE rooms' = rooms
      BY <3>1 DEF KeepsSeats
    <3>2. CASE rooms' = Vacated(clients[c])
      BY <1>1, <3>2 DEF KeepsSeats, Vacated, Types, Room, Vacant
    <3>3. QED
      BY <2>1, <3>1, <3>2 DEF Disconnect
  <2>2. QED
    BY <1>1, <2>1 DEF Connection, Connect, Logout, Bind, KeepsSeats
<1>2. ASSUME Queue
      PROVE  KeepsSeats
  <2>2. rooms' = rooms
    BY <1>2, QueueSteps
  <2>3. QED
    BY <2>2 DEF KeepsSeats
<1>3. ASSUME Types, InRooms
      PROVE  KeepsSeats
  <2>1. PICK c \in Clients, u \in Users, r \in Rooms :
          \/ \E rated \in BOOLEAN : CreateRoom(c, u, r, rated)
          \/ JoinRoom(c, u, r) \/ LeaveRoom(c, u, r) \/ StartRoomGame(c, u, r)
    BY <1>3 DEF InRooms
  <2>2. CASE \E rated \in BOOLEAN : CreateRoom(c, u, r, rated)
    BY <1>3, <2>2 DEF Types, CreateRoom, FirstVacant, KeepsSeats
  <2>3. CASE JoinRoom(c, u, r)
    BY <1>3, <2>3 DEF Types, JoinRoom, MayJoin, Room, KeepsSeats
  <2>4. CASE LeaveRoom(c, u, r)
    BY <1>3, <2>4 DEF Types, LeaveRoom, LeftBy, Room, KeepsSeats
  <2>5. CASE StartRoomGame(c, u, r)
    BY <1>3, <2>5 DEF Types, StartRoomGame, ClosedBy, Room, KeepsSeats
  <2>6. QED
    BY <2>1, <2>2, <2>3, <2>4, <2>5
<1>4. ASSUME InChallenges
      PROVE  KeepsSeats
  <2>1. rooms' = rooms
    BY <1>4 DEF InChallenges, ChallengeUser, AcceptChallenge, DeclineChallenge, Expire, CleanUp
  <2>2. QED
    BY <2>1 DEF KeepsSeats
<1>5. Types /\ [Next]_vars => [KeepsSeats]_vars
  BY <1>1, <1>2, <1>3, <1>4 DEF Next
<1>6. Spec => []Types
  BY TypesHold
<1>7. QED
  BY <1>5, <1>6, PTL DEF Spec, SeatsAreKept, KeepsSeats
(***************************************************************************)
(* A step that makes a match of a room is StartRoomGame.                   *)
(***************************************************************************)
LEMMA MadeByRoom ==
  ASSUME Next, NEW m \in made', m.by = "room"
  PROVE  \E c \in Clients, u \in Users, r \in Rooms : StartRoomGame(c, u, r)
<1>1. ~Connection
  BY DEF Connection, Connect, Disconnect, Logout, Bind
<1>2. ~Queue
  <2>1. \A c, u : ~SetReady(c, u) /\ ~ClearReady(c, u)
    BY DEF SetReady, ClearReady
  <2>2. \A c, u, search, view, v, told : /\ ~SearchQueued(c, u, search, view)
                                   /\ ~SearchFoundAbsent(c, u, search, view, v)
                                   /\ ~SearchFailed(c, u, search, view, v)
                                   /\ ~SearchRolledBack(c, u, search, view, v, told)
    BY DEF SearchQueued, SearchFoundAbsent, SearchFailed, SearchRolledBack
  <2>3. \A c, u, search, view, v : ~SearchMatched(c, u, search, view, v)
    BY DEF SearchMatched
  <2>4. QED
    BY <2>1, <2>2, <2>3 DEF Queue
<1>3. ~InChallenges
  BY DEF InChallenges, ChallengeUser, AcceptChallenge, DeclineChallenge, Expire, CleanUp
<1>4. QED
  BY <1>1, <1>2, <1>3 DEF Next, InRooms, CreateRoom, JoinRoom, LeaveRoom

(***************************************************************************)
(* A room starts the match of its host and its guest, rated as the room    *)
(* says, and is gone: a second request to start it finds no room.          *)
(***************************************************************************)
THEOREM RoomStartsTheorem == Spec => RoomStartsOnce
<1> DEFINE Started == \A m \in made' : m.by = "room" =>
                        \E r \in Rooms :
                          /\ rooms[r] = [host |-> m.red, guest |-> m.black, rated |-> m.rated]
                          /\ rooms'[r] = Vacant
<1>1. ASSUME Types, Next
      PROVE  Started
  <2>1. SUFFICES ASSUME NEW m \in made', m.by = "room"
                 PROVE  \E r \in Rooms :
                          /\ rooms[r] = [host |-> m.red, guest |-> m.black, rated |-> m.rated]
                          /\ rooms'[r] = Vacant
    BY Zenon
  <2>2. PICK c \in Clients, u \in Users, r \in Rooms : StartRoomGame(c, u, r)
    BY <1>1, <2>1, MadeByRoom
  <2>3. /\ rooms[r].host = u
        /\ m = [red |-> u, black |-> rooms[r].guest, rated |-> rooms[r].rated, by |-> "room"]
    BY <2>2 DEF StartRoomGame
  <2>4. rooms'[r] = Vacant
    BY <1>1, <2>2 DEF StartRoomGame, ClosedBy, Types
  <2>5. rooms[r] = [host |-> rooms[r].host, guest |-> rooms[r].guest, rated |-> rooms[r].rated]
    <3>1. \A room \in Room :
            room = [host |-> room.host, guest |-> room.guest, rated |-> room.rated]
      <4>1. Vacant = [host |-> Vacant.host, guest |-> Vacant.guest, rated |-> Vacant.rated]
        BY DEF Vacant
      <4>2. QED
        BY <4>1 DEF Room
    <3>2. rooms[r] \in Room
      BY <1>1, <2>2 DEF Types
    <3>3. QED
      BY <3>1, <3>2
  <2>6. QED
    BY <2>3, <2>4, <2>5
<1>2. Types /\ [Next]_vars => [Started]_vars
  BY <1>1
<1>3. QED
  BY <1>2, TypesHold, PTL DEF Spec, RoomStartsOnce
-----------------------------------------------------------------------------
(***************************************************************************)
(* Lists, rooms and connections.                                           *)
(***************************************************************************)
LEMMA StaysConnected ==
  ASSUME clients \in Connections, NEW c \in Clients, NEW who, NEW v \in Users,
         IsConnected(clients, v), clients[c] # v \/ who = v
  PROVE  IsConnected(With(c, who), v)
<1>1. PICK d \in Clients : clients[d] = v
  BY DEF IsConnected, Connections
<1>2. With(c, who)[d] = v /\ DOMAIN With(c, who) = Clients
  BY <1>1 DEF With, Connections
<1>3. QED
  BY <1>2 DEF IsConnected

\* Without takeovers an authenticated request disconnects nobody, and its user is connected.
LEMMA AuthenticatedKeeps ==
  ASSUME clients \in Connections, NEW c \in Clients, NEW u \in Users, NEW answers,
         Authenticated(c, u, answers), "switch" \notin Habits
  PROVE  /\ IsConnected(clients', u)
         /\ \A v \in Users : IsConnected(clients, v) => IsConnected(clients', v)
<1>1. clients' = With(c, u) /\ clients[c] \in {Nobody, u}
  BY DEF Authenticated
<1>2. With(c, u)[c] = u /\ c \in DOMAIN With(c, u)
  BY DEF With, Connections
<1>3. IsConnected(With(c, u), u)
  BY <1>2 DEF IsConnected
<1>4. ASSUME NEW v \in Users, IsConnected(clients, v)
      PROVE  IsConnected(With(c, u), v)
  BY <1>1, <1>4, StaysConnected, UsersAssumption
<1>5. QED
  BY <1>1, <1>3, <1>4

\* Who holds an entry of the list or of a room.
PresentList == \A v \in Users : IsListed(ready, v) => IsConnected(clients, v)
PresentRooms ==
  \A r \in Rooms : rooms[r] # Vacant =>
    /\ IsConnected(clients, rooms[r].host)
    /\ rooms[r].guest = Nobody \/ IsConnected(clients, rooms[r].guest)

(***************************************************************************)
(* A request lists its user at most, for all that it lists and unlists.    *)
(***************************************************************************)
LEMMA QueueListsItsUser ==
  ASSUME GoodList(ready), Queue
  PROVE  \E c \in Clients, u \in Users : \E answers :
           /\ Authenticated(c, u, answers)
           /\ \A w : IsListed(ready', w) => w = u \/ IsListed(ready, w)
<1>1. PICK c \in Clients, u \in Users :
        \/ SetReady(c, u) \/ ClearReady(c, u)
        \/ \E search \in Searches, view \in Views(u) :
             \/ SearchQueued(c, u, search, view)
             \/ \E v \in Users :
                  \/ SearchFoundAbsent(c, u, search, view, v)
                  \/ SearchFailed(c, u, search, view, v)
                  \/ SearchMatched(c, u, search, view, v)
                  \/ \E told \in SUBSET Users : SearchRolledBack(c, u, search, view, v, told)
  BY DEF Queue
<1>2. \E answers : Authenticated(c, u, answers)
  BY <1>1, QueueBinds
<1>3. \A w : IsListed(Listed(ready, u), w) => w = u \/ IsListed(ready, w)
  BY ListedFacts DEF GoodList
<1>4. \A w : IsListed(Without(ready, u), w) => IsListed(ready, w)
  BY WithoutFacts DEF GoodList
<1>5. \A v \in Users, view \in Views(u) : \A w :
        IsListed(Unpaired(view, u, v), w) => w = u \/ IsListed(ready, w)
  BY <1>3, UnpairedFacts
<1>6. CASE SetReady(c, u) \/ ClearReady(c, u)
  BY <1>2, <1>3, <1>4, <1>6 DEF SetReady, ClearReady
<1>7. ASSUME NEW search \in Searches, NEW view \in Views(u), SearchQueued(c, u, search, view)
      PROVE  \A w : IsListed(ready', w) => w = u \/ IsListed(ready, w)
  BY <1>3, <1>7, ViewedGood DEF SearchQueued
<1>8. ASSUME NEW search \in Searches, NEW view \in Views(u), NEW v \in Users,
             \/ SearchFoundAbsent(c, u, search, view, v)
             \/ SearchFailed(c, u, search, view, v)
             \/ SearchMatched(c, u, search, view, v)
      PROVE  \A w : IsListed(ready', w) => w = u \/ IsListed(ready, w)
  <2>1. ready' = Unpaired(view, u, v)
    BY <1>8 DEF SearchFoundAbsent, SearchFailed, SearchMatched
  <2>2. QED
    BY <1>5, <2>1
<1>9. ASSUME NEW search \in Searches, NEW view \in Views(u), NEW v \in Users, NEW told \in SUBSET Users,
             SearchRolledBack(c, u, search, view, v, told)
      PROVE  \A w : IsListed(ready', w) => w = u \/ IsListed(ready, w)
  <2> DEFINE rest == Unpaired(view, u, v)
             again == Listed(rest, u)
  <2>1. ready' = Listed(again, v) /\ Found(view, u, search, v)
    BY <1>9 DEF SearchRolledBack, FoundPresent
  <2>2. IsListed(ready, v)
    BY <2>1, FoundFacts
  <2>3. GoodList(rest) /\ GoodList(again)
    BY UnpairedGood, ListedGood
  <2>4. \A w : IsListed(rest, w) => w = u \/ IsListed(ready, w)
    BY <1>5
  <2> HIDE DEF rest
  <2>5. \A w : IsListed(again, w) => w = u \/ IsListed(rest, w)
    BY <2>3, ListedFacts DEF GoodList
  <2> HIDE DEF again
  <2>6. \A w : IsListed(Listed(again, v), w) => w = v \/ IsListed(again, w)
    BY <2>3, ListedFacts DEF GoodList
  <2>7. QED
    BY <2>1, <2>2, <2>4, <2>5, <2>6
<1>10. \A w : IsListed(ready', w) => w = u \/ IsListed(ready, w)
  BY <1>1, <1>6, <1>7, <1>8, <1>9, <1>3, <1>4 DEF SetReady, ClearReady
<1>11. QED
  BY <1>2, <1>10

\* The requests about rooms and challenges leave the ready list alone.
LEMMA OtherRequests ==
  ASSUME \/ InRooms
         \/ InChallenges
  PROVE  /\ ready' = ready
         /\ \/ clients' = clients
            \/ \E c \in Clients, u \in Users : \E answers : Authenticated(c, u, answers)
<1>1. CASE InRooms
  BY <1>1 DEF InRooms, CreateRoom, JoinRoom, LeaveRoom, StartRoomGame
<1>2. CASE InChallenges
  BY <1>2 DEF InChallenges, ChallengeUser, AcceptChallenge, DeclineChallenge, Expire, CleanUp
<1>3. QED
  BY <1>1, <1>2

\* Without takeovers no step leaves a user listed who is not connected.
LEMMA ListStaysPresent ==
  ASSUME Types, GoodList(ready), PresentList, [Next]_vars, "switch" \notin Habits
  PROVE  PresentList'
<1>1. clients \in Connections
  BY DEF Types
<1>2. SUFFICES ASSUME NEW v \in Users, IsListed(ready', v)
      PROVE  IsConnected(clients', v)
  BY DEF PresentList
<1>3. ASSUME NEW c \in Clients, Connect(c)
      PROVE  IsConnected(clients', v)
  BY <1>1, <1>2, <1>3, StaysConnected, UsersAssumption DEF Connect, PresentList
<1>4. ASSUME NEW c \in Clients, Disconnect(c)
      PROVE  IsConnected(clients', v)
  <2>1. IsListed(ready, v) /\ clients[c] # v
    BY <1>2, <1>4, WithoutFacts DEF Disconnect, GoodList
  <2>2. QED
    BY <1>1, <1>4, <2>1, StaysConnected DEF Disconnect, PresentList
<1>5. ASSUME NEW c \in Clients, Logout(c)
      PROVE  IsConnected(clients', v)
  <2>1. IsListed(ready, v) /\ clients[c] # v
    BY <1>2, <1>5, WithoutFacts DEF Logout, GoodList
  <2>2. QED
    BY <1>1, <1>5, <2>1, StaysConnected DEF Logout, PresentList
<1>6. ASSUME NEW c \in Clients, NEW u \in Users, Bind(c, u)
      PROVE  IsConnected(clients', v)
  BY <1>1, <1>2, <1>6, AuthenticatedKeeps DEF Bind, PresentList
<1>7. CASE Connection
  BY <1>3, <1>4, <1>5, <1>6, <1>7 DEF Connection
<1>8. CASE Queue
  BY <1>1, <1>2, <1>8, QueueListsItsUser, AuthenticatedKeeps DEF PresentList
<1>9. CASE \/ InRooms
           \/ InChallenges
  BY <1>1, <1>2, <1>9, OtherRequests, AuthenticatedKeeps DEF PresentList
<1>10. CASE UNCHANGED vars
  BY <1>2, <1>10 DEF vars, PresentList
<1>11. QED
  BY <1>7, <1>8, <1>9, <1>10 DEF Next

(***************************************************************************)
(* No entry of the ready list is left behind by whoever logs out, closes   *)
(* one of several connections or is rolled back, as long as a connection   *)
(* is not taken over without a logout.                                     *)
(***************************************************************************)
THEOREM ReadyPresentTheorem == Spec => []ReadyArePresent
<1> DEFINE Inv == Types /\ GoodList(ready) /\ ("switch" \notin Habits => PresentList)
<1>1. Init /\ Types => Inv
  <2>1. Init => PresentList
    BY DEF Init, PresentList, IsListed
  <2>2. QED
    BY <2>1, EmptyIsGood
<1>2. Inv /\ Types' /\ [Next]_vars => Inv'
  BY ListStaysPresent, ListStaysGood
<1>4. Inv => ReadyArePresent
  <2>1. ASSUME GoodList(ready), NEW k \in DOMAIN ready
        PROVE  ready[k] \in Users /\ IsListed(ready, ready[k])
    BY <2>1 DEF GoodList, IsListed
  <2>2. QED
    BY <2>1 DEF PresentList, ReadyArePresent
<1>5. QED
  BY <1>1, <1>2, <1>4, TypesHold, PTL DEF Spec
-----------------------------------------------------------------------------
\* Without takeovers and logouts no step leaves a user in a room who is not connected.
LEMMA RoomsStayPresent ==
  ASSUME Types, PresentRooms, [Next]_vars, Habits \cap {"switch", "logout"} = {}
  PROVE  PresentRooms'
<1>1. clients \in Connections /\ "switch" \notin Habits /\ "logout" \notin Habits
  BY DEF Types
<1>2. \A r \in Rooms : rooms[r] # Vacant =>
        rooms[r].host \in Users /\ rooms[r].guest \in Users \cup {Nobody}
  BY DEF Types, Room
\* Nobody new in the rooms, and nobody gone.
<1>3. ASSUME rooms' = rooms,
             \A v \in Users : IsConnected(clients, v) => IsConnected(clients', v)
      PROVE  PresentRooms'
  BY <1>2, <1>3 DEF PresentRooms
<1>4. ASSUME NEW c \in Clients, Connect(c)
      PROVE  PresentRooms'
  <2>1. \A v \in Users : IsConnected(clients, v) => IsConnected(clients', v)
    BY <1>1, <1>4, StaysConnected, UsersAssumption DEF Connect
  <2>2. QED
    BY <1>3, <1>4, <2>1 DEF Connect
<1>5. ASSUME NEW c \in Clients, Disconnect(c)
      PROVE  PresentRooms'
  <2>1. \A v \in Users : IsConnected(clients, v) /\ clients[c] # v => IsConnected(clients', v)
    BY <1>1, <1>5, StaysConnected DEF Disconnect
  <2>2. CASE clients[c] \notin Users
    BY <1>3, <1>5, <2>1, <2>2 DEF Disconnect
  <2>3. CASE clients[c] \in Users
    <3>1. rooms' = Vacated(clients[c])
      BY <1>5, <2>3 DEF Disconnect
    <3>2. \A r \in Rooms : rooms'[r] # Vacant =>
            /\ rooms[r] # Vacant
            /\ rooms'[r].host = rooms[r].host /\ rooms[r].host # clients[c]
            /\ rooms'[r].guest = Nobody
               \/ (rooms'[r].guest = rooms[r].guest /\ rooms[r].guest # clients[c])
      <4>1. SUFFICES ASSUME NEW r \in Rooms, rooms'[r] # Vacant
            PROVE  /\ rooms[r] # Vacant
                   /\ rooms'[r].host = rooms[r].host /\ rooms[r].host # clients[c]
                   /\ rooms'[r].guest = Nobody
                      \/ (rooms'[r].guest = rooms[r].guest /\ rooms[r].guest # clients[c])
        OBVIOUS
      <4>2. rooms[r].host # clients[c]
        BY <3>1, <4>1 DEF Vacated
      <4>3. rooms[r] \in Room
        BY DEF Types
      <4>4. CASE rooms[r].guest = clients[c]
        <5>1. rooms'[r] = [rooms[r] EXCEPT !.guest = Nobody]
          BY <3>1, <4>2, <4>4 DEF Vacated
        <5>2. rooms[r] # Vacant
          BY <2>3, <4>4, UsersAssumption DEF Vacant
        <5>3. QED
          BY <4>2, <4>3, <5>1, <5>2 DEF Room
      <4>5. CASE rooms[r].guest # clients[c]
        BY <3>1, <4>1, <4>2, <4>5 DEF Vacated
      <4>6. QED
        BY <4>4, <4>5
    <3>3. QED
      BY <1>2, <2>1, <3>2 DEF PresentRooms
  <2>4. QED
    BY <2>2, <2>3
<1>6. ASSUME NEW c \in Clients, NEW u \in Users, Bind(c, u)
      PROVE  PresentRooms'
  BY <1>1, <1>3, <1>6, AuthenticatedKeeps DEF Bind
<1>7. CASE Connection
  BY <1>1, <1>4, <1>5, <1>6, <1>7 DEF Connection, Logout
<1>8. CASE Queue
  <2>1. PICK c \in Clients, u \in Users : \E answers : Authenticated(c, u, answers) /\ rooms' = rooms
    BY <1>8, QueueSteps
  <2>2. QED
    BY <1>1, <1>3, <2>1, AuthenticatedKeeps
<1>9. ASSUME NEW c \in Clients, NEW u \in Users, NEW r \in Rooms,
             \/ \E rated \in BOOLEAN : CreateRoom(c, u, r, rated)
             \/ JoinRoom(c, u, r)
             \/ LeaveRoom(c, u, r)
             \/ StartRoomGame(c, u, r)
      PROVE  PresentRooms'
  <2>1. Authenticated(c, u, queued)
    BY <1>9 DEF CreateRoom, JoinRoom, LeaveRoom, StartRoomGame
  <2>2. /\ IsConnected(clients', u)
        /\ \A v \in Users : IsConnected(clients, v) => IsConnected(clients', v)
    BY <1>1, <2>1, AuthenticatedKeeps
  <2>3. /\ \A q \in Rooms \ {r} : rooms'[q] = rooms[q]
        /\ rooms'[r] # Vacant =>
             /\ rooms'[r].host \in {u, rooms[r].host}
             /\ rooms'[r].guest \in {Nobody, u}
             /\ rooms'[r].host = u \/ rooms[r] # Vacant
    <3>1. rooms[r] \in Room /\ rooms \in [Rooms -> Room]
      BY DEF Types
    <3>2. CASE \E rated \in BOOLEAN : CreateRoom(c, u, r, rated)
      BY <3>1, <3>2 DEF CreateRoom
    <3>3. CASE JoinRoom(c, u, r)
      BY <3>1, <3>3 DEF JoinRoom, MayJoin, Room
    <3>4. CASE LeaveRoom(c, u, r)
      <4>1. rooms[r] # Vacant
        BY <3>4, UsersAssumption DEF LeaveRoom, Vacant
      <4>2. rooms' = [rooms EXCEPT ![r] = LeftBy(u, r)]
        BY <3>4 DEF LeaveRoom
      <4>3. LeftBy(u, r) # Vacant => LeftBy(u, r).host = rooms[r].host /\ LeftBy(u, r).guest = Nobody
        BY <3>1, <4>1 DEF LeftBy, Room
      <4>4. QED
        BY <3>1, <4>1, <4>2, <4>3
    <3>5. CASE StartRoomGame(c, u, r)
      BY <3>1, <3>5 DEF StartRoomGame, ClosedBy
    <3>6. QED
      BY <1>9, <3>2, <3>3, <3>4, <3>5
  <2>4. QED
    BY <1>2, <2>2, <2>3 DEF PresentRooms
<1>10. CASE InRooms
  BY <1>9, <1>10 DEF InRooms
<1>11. CASE InChallenges
  <2>1. rooms' = rooms
    BY <1>11 DEF InChallenges, ChallengeUser, AcceptChallenge, DeclineChallenge, Expire, CleanUp
  <2>2. QED
    BY <1>1, <1>3, <1>11, <2>1, OtherRequests, AuthenticatedKeeps
<1>12. CASE UNCHANGED vars
  BY <1>3, <1>12 DEF vars
<1>13. QED
  BY <1>7, <1>8, <1>10, <1>11, <1>12 DEF Next

(***************************************************************************)
(* A host or a guest who goes takes his room or his seat with him, so a    *)
(* match of a room is started between two users who are connected, as long *)
(* as nobody logs out or takes a connection over.                          *)
(***************************************************************************)
THEOREM RoomsPresentTheorem == Spec => []RoomsOfThePresent
<1>1. Init => RoomsOfThePresent
  BY DEF Init, RoomsOfThePresent
<1>2. Types /\ RoomsOfThePresent /\ [Next]_vars => RoomsOfThePresent'
  <2>1. RoomsOfThePresent <=> (Habits \cap {"switch", "logout"} = {} => PresentRooms)
    BY DEF RoomsOfThePresent, PresentRooms
  <2>2. RoomsOfThePresent' <=> (Habits \cap {"switch", "logout"} = {} => PresentRooms')
    BY DEF RoomsOfThePresent, PresentRooms
  <2>3. QED
    BY <2>1, <2>2, RoomsStayPresent
<1>3. QED
  BY <1>1, <1>2, TypesHold, PTL DEF Spec
-----------------------------------------------------------------------------
(***************************************************************************)
(* Who was told that he waits.                                             *)
(*                                                                         *)
(* What the answer "Queued for match" rests on: a user has one connection  *)
(* and keeps it, a match that is wanted is made, and the list is as long   *)
(* as there are users.                                                     *)
(***************************************************************************)
OneConnection ==
  \A c, d \in Clients : clients[c] = clients[d] /\ clients[c] \in Users => c = d

WaitingInv == Types /\ GoodList(ready) /\ PresentList /\ OneConnection /\ QueuedAreReady

RoomForAll == IsFiniteSet(Users) /\ Cardinality(Users) <= MaxReady

\* A list without repetitions that a user is missing from has room for him.
LEMMA ListedIsListed ==
  ASSUME RoomForAll, NEW list, GoodList(list), NEW u \in Users
  PROVE  IsListed(Listed(list, u), u)
<1>1. CASE IsListed(list, u)
  BY <1>1 DEF Listed
<1>2. CASE ~IsListed(list, u)
  <2> DEFINE n == Len(list)
             others == Users \ {u}
  <2>1. n \in Nat /\ list \in [1..n -> Users] /\ DOMAIN list = 1..n
    BY DEF GoodList
  <2>2. list \in [1..n -> others]
    BY <1>2, <2>1 DEF IsListed
  <2>3. /\ IsFiniteSet(others) /\ Cardinality(others) = Cardinality(Users) - 1
        /\ Cardinality(Users) \in Nat
    BY FS_RemoveElement, FS_CardinalityType DEF RoomForAll
  <2>4. IsFiniteSet(1..n) /\ Cardinality(1..n) = n
    <3>1. n \in Nat
      BY <2>1
    <3> HIDE DEF n
    <3>2. IsFiniteSet(1..n) /\ Cardinality(1..n) = IF 1 > n THEN 0 ELSE n - 1 + 1
      BY <3>1, FS_Interval
    <3>3. QED
      BY <3>1, <3>2
  <2>5. ~(Len(list) >= MaxReady)
    <3>1. SUFFICES ASSUME n >= MaxReady PROVE FALSE
      OBVIOUS
    <3> HIDE DEF others
    <3>2. Cardinality(others) < Cardinality(1..n)
      BY <2>1, <2>3, <2>4, <3>1, LimitsAssumption DEF RoomForAll
    <3> HIDE DEF n
    <3>3. \E x, y \in 1..n : x # y /\ list[x] = list[y]
      BY <2>2, <2>3, <2>4, <3>2, FS_PigeonHole
    <3> QED
      BY <2>1, <3>3 DEF GoodList, Once
  <2>6. Listed(list, u) = Append(list, u)
    BY <1>2, <2>5 DEF Listed
  <2>7. Append(list, u)[n + 1] = u /\ n + 1 \in DOMAIN Append(list, u)
    BY DEF GoodList
  <2> QED
    BY <2>6, <2>7 DEF IsListed
<1> QED
  BY <1>1, <1>2

\* A rollback lists both again, and whoever else was listed still is.
LEMMA RolledBackList ==
  ASSUME RoomForAll, GoodList(ready), NEW u \in Users, NEW v \in Users, NEW view \in Views(u),
         NEW w \in Users, w \in {u, v} \/ IsListed(ready, w)
  PROVE  IsListed(Listed(Listed(Unpaired(view, u, v), u), v), w)
<1> DEFINE rest == Unpaired(view, u, v)
           again == Listed(rest, u)
<1>1. GoodList(rest) /\ GoodList(again)
  BY UnpairedGood, ListedGood
<1>2. IsListed(ready, w) /\ w \notin {u, v} => IsListed(rest, w)
  BY UnpairedKeeps
<1> HIDE DEF rest
<1>3. IsListed(again, u) /\ (IsListed(rest, w) => IsListed(again, w))
  BY <1>1, ListedIsListed, ListedFacts DEF GoodList
<1> HIDE DEF again
<1>4. /\ IsListed(Listed(again, v), v)
      /\ \A x : IsListed(again, x) => IsListed(Listed(again, v), x)
  BY <1>1, ListedIsListed, ListedFacts DEF GoodList
<1> QED
  BY <1>2, <1>3, <1>4 DEF again, rest

\* Whoever is noted as waiting in Patient was noted before, and is connected.
LEMMA PatientFacts ==
  ASSUME NEW table, NEW answers, NEW w \in Users, Patient(table, answers)[w] # "none"
  PROVE  answers[w] # "none" /\ IsConnected(table, w)
BY DEF Patient

\* With one connection each, a request of u leaves it at that.
LEMMA AuthenticatedAlone ==
  ASSUME clients \in Connections, OneConnection, NEW c \in Clients, NEW u \in Users,
         NEW answers, Authenticated(c, u, answers), "several" \notin Habits
  PROVE  OneConnection'
<1>1. \A d \in Clients \ {c} : clients[d] # u
  BY DEF Authenticated
<1>2. \A d \in Clients : clients'[d] = IF d = c THEN u ELSE clients[d]
  BY DEF Authenticated, With, Connections
<1> QED
  BY <1>1, <1>2 DEF OneConnection

\* A connection that is opened, closed or logged out leaves everybody one.
LEMMA UnboundAlone ==
  ASSUME clients \in Connections, OneConnection, NEW c \in Clients,
         NEW who \in {Nobody, Closed}, clients' = With(c, who)
  PROVE  /\ OneConnection'
         /\ \A w \in Users : clients[c] = w => ~IsConnected(clients', w)
<1>1. \A d \in Clients : clients'[d] = IF d = c THEN who ELSE clients[d]
  BY DEF With, Connections
<1>2. who \notin Users /\ DOMAIN clients' = Clients
  BY UsersAssumption DEF With, Connections
<1> QED
  BY <1>1, <1>2 DEF OneConnection, IsConnected

\* Who is connected, and listed, and waits: connections come and go.
LEMMA ConnectionWaiting ==
  ASSUME WaitingInv, Connection, Habits \cap {"switch", "several"} = {}
  PROVE  OneConnection' /\ QueuedAreReady'
<1>1. clients \in Connections /\ queued \in [Users -> Answers]
  BY DEF WaitingInv, Types
<1>2. PICK c \in Clients : \/ Connect(c) \/ Disconnect(c) \/ Logout(c)
                           \/ \E u \in Users : Bind(c, u)
  BY DEF Connection
<1>3. CASE Connect(c)
  BY <1>1, <1>3, UnboundAlone DEF Connect, WaitingInv, QueuedAreReady
<1>4. ASSUME NEW who \in {Nobody, Closed}, NEW answers, clients' = With(c, who),
             queued' = Patient(With(c, who), answers),
             \A w \in Users : answers[w] = "none" \/ answers[w] = queued[w],
             \/ clients[c] \in Users /\ ready' = Without(ready, clients[c])
             \/ clients[c] \notin Users /\ ready' = ready
      PROVE  OneConnection' /\ QueuedAreReady'
  <2>1. /\ OneConnection'
        /\ \A w \in Users : clients[c] = w => ~IsConnected(clients', w)
    BY <1>1, <1>4, UnboundAlone DEF WaitingInv
  <2>2. ASSUME NEW w \in Users, queued'[w] # "none"
        PROVE  IsListed(ready', w)
    <3>1. queued[w] # "none" /\ IsConnected(clients', w)
      BY <1>4, <2>2, PatientFacts
    <3>2. IsListed(ready, w) /\ clients[c] # w
      BY <2>1, <3>1 DEF WaitingInv, QueuedAreReady
    <3> QED
      BY <1>4, <3>2, WithoutFacts DEF WaitingInv, GoodList
  <2> QED
    BY <2>1, <2>2 DEF QueuedAreReady
<1>5. CASE Disconnect(c)
  BY <1>1, <1>4, <1>5 DEF Disconnect
<1>6. CASE Logout(c)
  <2>1. \A w \in Users : [queued EXCEPT ![clients[c]] = "none"][w] \in {"none", queued[w]}
    BY <1>1
  <2> QED
    BY <1>4, <1>6, <2>1 DEF Logout
<1>7. ASSUME NEW u \in Users, Bind(c, u)
      PROVE  OneConnection' /\ QueuedAreReady'
  <2>1. OneConnection'
    BY <1>1, <1>7, AuthenticatedAlone DEF Bind, WaitingInv
  <2>2. \A w \in Users : queued'[w] # "none" => queued[w] # "none"
    BY <1>7, PatientFacts DEF Bind, Authenticated
  <2> QED
    BY <1>7, <2>1, <2>2 DEF Bind, QueuedAreReady, WaitingInv
<1> QED
  BY <1>2, <1>3, <1>5, <1>6, <1>7

\* Whom a search finds is there, so nobody is "kept queued" off the list.
LEMMA FoundIsPresent ==
  ASSUME WaitingInv, NEW c \in Clients, NEW u \in Users, NEW view \in Views(u), NEW search,
         NEW v \in Users, Found(view, u, search, v), NEW answers, Authenticated(c, u, answers),
         "switch" \notin Habits
  PROVE  IsConnected(With(c, u), v)
<1>1. IsListed(ready, v)
  BY FoundFacts DEF WaitingInv
<1>2. IsConnected(clients, v)
  BY <1>1 DEF WaitingInv, PresentList
<1> QED
  BY <1>2, AuthenticatedKeeps DEF Authenticated, WaitingInv, Types

(***************************************************************************)
(* The requests about the ready list: whoever waits after one of them is   *)
(* listed, and waited before unless he is the one who asked.               *)
(***************************************************************************)
LEMMA QueueWaiting ==
  ASSUME WaitingInv, Queue, RoomForAll, Habits \cap {"switch", "several"} = {},
         Faults \cap {"create", "read"} = {}
  PROVE  OneConnection' /\ QueuedAreReady'
<1>1. clients \in Connections /\ queued \in [Users -> Answers] /\ GoodList(ready)
  BY DEF WaitingInv, Types
<1>2. PICK c \in Clients, u \in Users :
        \/ SetReady(c, u) \/ ClearReady(c, u)
        \/ \E search \in Searches, view \in Views(u) :
             \/ SearchQueued(c, u, search, view)
             \/ \E v \in Users :
                  \/ SearchFoundAbsent(c, u, search, view, v)
                  \/ SearchFailed(c, u, search, view, v)
                  \/ SearchMatched(c, u, search, view, v)
                  \/ \E told \in SUBSET Users : SearchRolledBack(c, u, search, view, v, told)
  BY DEF Queue
<1>3. OneConnection'
  <2>1. \E answers : Authenticated(c, u, answers)
    BY <1>2, QueueBinds
  <2> QED
    BY <1>1, <2>1, AuthenticatedAlone DEF WaitingInv
<1>4. \A w \in Users : queued[w] # "none" => IsListed(ready, w)
  BY DEF WaitingInv, QueuedAreReady
<1>5. SUFFICES ASSUME NEW w \in Users, queued'[w] # "none"
      PROVE  IsListed(ready', w)
  BY <1>3 DEF QueuedAreReady
<1>6. /\ IsListed(Listed(ready, u), u)
      /\ IsListed(ready, w) => IsListed(Listed(ready, u), w)
  BY <1>1, ListedIsListed, ListedFacts DEF GoodList
<1>7. CASE SetReady(c, u)
  BY <1>4, <1>5, <1>6, <1>7, PatientFacts DEF SetReady, Authenticated
<1>8. CASE ClearReady(c, u)
  <2>1. [queued EXCEPT ![u] = "none"][w] # "none" /\ ready' = Without(ready, u)
    BY <1>5, <1>8, PatientFacts DEF ClearReady, Authenticated
  <2>2. w # u /\ IsListed(ready, w)
    BY <1>1, <1>4, <2>1
  <2> QED
    BY <1>1, <2>1, <2>2, WithoutFacts DEF GoodList
<1>9. ASSUME NEW search \in Searches, NEW view \in Views(u), SearchQueued(c, u, search, view)
      PROVE  IsListed(ready', w)
  <2>1. [queued EXCEPT ![u] = search][w] # "none" /\ ready' = view.list
    BY <1>5, <1>9, PatientFacts DEF SearchQueued, Authenticated
  <2>2. view.list = Listed(ready, u)
    BY ViewedList
  <2> QED
    BY <1>1, <1>4, <1>6, <2>1, <2>2
<1>10. ASSUME NEW search \in Searches, NEW view \in Views(u), NEW v \in Users,
              \/ SearchFoundAbsent(c, u, search, view, v)
              \/ SearchFailed(c, u, search, view, v)
       PROVE  FALSE
  <2>1. SearchFoundAbsent(c, u, search, view, v)
    BY <1>10 DEF SearchFailed
  <2> QED
    BY <2>1, FoundIsPresent DEF SearchFoundAbsent
<1>11. ASSUME NEW search \in Searches, NEW view \in Views(u), NEW v \in Users, SearchMatched(c, u, search, view, v)
       PROVE  IsListed(ready', w)
  <2>1. /\ [queued EXCEPT ![u] = "none", ![v] = "none"][w] # "none"
        /\ ready' = Unpaired(view, u, v)
    BY <1>5, <1>11, PatientFacts DEF SearchMatched, Authenticated
  <2>2. w \notin {u, v} /\ IsListed(ready, w)
    BY <1>1, <1>4, <2>1
  <2> QED
    BY <1>1, <2>1, <2>2, UnpairedKeeps
<1>12. ASSUME NEW search \in Searches, NEW view \in Views(u), NEW v \in Users, NEW told \in SUBSET Users,
              SearchRolledBack(c, u, search, view, v, told)
       PROVE  IsListed(ready', w)
  <2>1. /\ [queued EXCEPT ![u] = search, ![v] = IF v \in told THEN "none" ELSE @][w] # "none"
        /\ ready' = Listed(Listed(Unpaired(view, u, v), u), v)
    BY <1>5, <1>12, PatientFacts DEF SearchRolledBack, Authenticated
  <2>2. w \in {u, v} \/ IsListed(ready, w)
    BY <1>1, <1>4, <2>1
  <2> QED
    BY <1>1, <2>1, <2>2, RolledBackList
<1> QED
  BY <1>2, <1>7, <1>8, <1>9, <1>10, <1>11, <1>12

\* The other requests, and time, change nothing of this.
LEMMA OtherWaiting ==
  ASSUME WaitingInv, Habits \cap {"switch", "several"} = {},
         InRooms \/ InChallenges \/ UNCHANGED vars
  PROVE  OneConnection' /\ QueuedAreReady' /\ ready' = ready
         /\ \A w \in Users : queued'[w] # "none" => queued'[w] = queued[w]
<1>1. \/ ready' = ready /\ clients' = clients /\ queued' = queued
      \/ /\ ready' = ready
         /\ \E c \in Clients, u \in Users : Authenticated(c, u, queued)
  <2>1. CASE InRooms
    BY <2>1 DEF InRooms, CreateRoom, JoinRoom, LeaveRoom, StartRoomGame
  <2>2. CASE InChallenges
    BY <2>2 DEF InChallenges, ChallengeUser, AcceptChallenge, DeclineChallenge, Expire, CleanUp
  <2>3. CASE UNCHANGED vars
    BY <2>3 DEF vars
  <2> QED
    BY <2>1, <2>2, <2>3
<1>2. CASE ready' = ready /\ clients' = clients /\ queued' = queued
  BY <1>2 DEF WaitingInv, OneConnection, QueuedAreReady
<1>3. ASSUME ready' = ready, NEW c \in Clients, NEW u \in Users, Authenticated(c, u, queued)
      PROVE  OneConnection' /\ QueuedAreReady' /\ ready' = ready
             /\ \A w \in Users : queued'[w] # "none" => queued'[w] = queued[w]
  <2>1. OneConnection'
    BY <1>3, AuthenticatedAlone DEF WaitingInv, Types
  <2>2. \A w \in Users : queued'[w] # "none" => queued'[w] = queued[w]
    BY <1>3 DEF Authenticated, Patient
  <2> QED
    BY <1>3, <2>1, <2>2 DEF WaitingInv, QueuedAreReady
<1> QED
  BY <1>1, <1>2, <1>3

\* Every step keeps what "Queued for match" promises.
LEMMA StepWaiting ==
  ASSUME RoomForAll, Habits \cap {"switch", "several"} = {},
         Faults \cap {"create", "read"} = {}
  PROVE  WaitingInv /\ Types' /\ [Next]_vars => WaitingInv'
<1> SUFFICES ASSUME WaitingInv, Types', [Next]_vars
             PROVE  WaitingInv'
  OBVIOUS
<1>1. GoodList(ready)' /\ PresentList'
  BY ListStaysGood, ListStaysPresent DEF WaitingInv
<1>2. OneConnection' /\ QueuedAreReady'
  BY ConnectionWaiting, QueueWaiting, OtherWaiting DEF Next
<1> QED
  BY <1>1, <1>2 DEF WaitingInv

\* At the beginning nobody is connected, listed or waiting.
LEMMA InitWaiting == Init /\ Types => WaitingInv
<1>1. Init => PresentList /\ QueuedAreReady
  BY DEF Init, PresentList, QueuedAreReady, IsListed
<1>2. Init => OneConnection
  BY UsersAssumption DEF Init, OneConnection
<1> QED
  BY <1>1, <1>2, EmptyIsGood DEF WaitingInv

(***************************************************************************)
(* Who was told "Queued for match" is in the ready list, where a later     *)
(* search finds him: for any number of users and connections, also when a  *)
(* match is rolled back because one of the two could not be told.  The     *)
(* hypotheses are what it takes: nobody uses several connections or        *)
(* another's, match_create finds a free slot, ready_players[] has a place  *)
(* for every user, and db_get_user_by_id does not fail: a user who cannot  *)
(* be read is told so too, and is not listed (SearchQueued).               *)
(***************************************************************************)
THEOREM QueuedTheorem ==
  ASSUME RoomForAll, Habits \cap {"switch", "several"} = {},
         Faults \cap {"create", "read"} = {}
  PROVE  Spec => []QueuedAreReady
<1>1. WaitingInv /\ Types' /\ [Next]_vars => WaitingInv'
  BY StepWaiting
<1>2. WaitingInv => QueuedAreReady
  BY DEF WaitingInv
<1>3. QED
  BY <1>1, <1>2, InitWaiting, TypesHold, PTL DEF Spec
-----------------------------------------------------------------------------
(***************************************************************************)
(* Whose answer changes: a search that finds nobody makes its user wait,   *)
(* and nothing else makes anybody wait, or wait for something else.        *)
(***************************************************************************)
LEMMA WhoComesToWait ==
  ASSUME WaitingInv, [Next]_vars, Habits \cap {"switch", "several"} = {}, Faults = {}
  PROVE  \/ \A w \in Users : queued'[w] # "none" => queued'[w] = queued[w]
         \/ \E u \in Users, search \in Searches :
              /\ \E view \in Views(u) : Candidates(view, u, search) = {}
              /\ \A w \in Users : queued'[w] # "none" =>
                   queued'[w] = IF w = u THEN search ELSE queued[w]
<1> DEFINE Keeps == \A w \in Users : queued'[w] # "none" => queued'[w] = queued[w]
<1>1. queued \in [Users -> Answers]
  BY DEF WaitingInv, Types
<1>2. CASE Connection
  <2>1. PICK c \in Clients : \/ Connect(c) \/ Disconnect(c) \/ Logout(c)
                             \/ \E u \in Users : Bind(c, u)
    BY <1>2 DEF Connection
  <2>2. Keeps
    BY <1>1, <2>1 DEF Connect, Disconnect, Logout, Bind, Authenticated, Patient
  <2> QED
    BY <2>2
<1>3. CASE Queue
  <2>1. PICK c \in Clients, u \in Users :
          \/ SetReady(c, u) \/ ClearReady(c, u)
          \/ \E search \in Searches, view \in Views(u) :
               \/ SearchQueued(c, u, search, view)
               \/ \E v \in Users :
                    \/ SearchFoundAbsent(c, u, search, view, v)
                    \/ SearchFailed(c, u, search, view, v)
                    \/ SearchMatched(c, u, search, view, v)
                    \/ \E told \in SUBSET Users : SearchRolledBack(c, u, search, view, v, told)
    BY <1>3 DEF Queue
  <2>2. CASE SetReady(c, u) \/ ClearReady(c, u)
    BY <1>1, <2>2 DEF SetReady, ClearReady, Authenticated, Patient
  <2>3. ASSUME NEW search \in Searches, NEW view \in Views(u), SearchQueued(c, u, search, view)
        PROVE  /\ Candidates(view, u, search) = {}
               /\ \A w \in Users : queued'[w] # "none" =>
                    queued'[w] = IF w = u THEN search ELSE queued[w]
    BY <1>1, <2>3 DEF SearchQueued, Authenticated, Patient
  <2>4. ASSUME NEW search \in Searches, NEW view \in Views(u), NEW v \in Users, SearchMatched(c, u, search, view, v)
        PROVE  Keeps
    BY <1>1, <2>4 DEF SearchMatched, Authenticated, Patient
  <2>5. ASSUME NEW search \in Searches, NEW view \in Views(u), NEW v \in Users
        PROVE  /\ ~SearchFoundAbsent(c, u, search, view, v)
               /\ ~SearchFailed(c, u, search, view, v)
               /\ \A told : ~SearchRolledBack(c, u, search, view, v, told)
    BY FoundIsPresent DEF SearchFoundAbsent, SearchFailed, SearchRolledBack
  <2> QED
    BY <2>1, <2>2, <2>3, <2>4, <2>5
<1>4. CASE InRooms \/ InChallenges \/ UNCHANGED vars
  BY <1>4, OtherWaiting
<1> QED
  BY <1>2, <1>3, <1>4 DEF Next

\* Who comes to wait is apart from everybody who waits, for they are all listed.
LEMMA StayApart ==
  ASSUME WaitingInv, WaitersAreApart, noted = Rating, [Next]_vars, RoomForAll,
         Habits \cap {"switch", "several"} = {}, Faults = {}
  PROVE  WaitersAreApart'
<1>1. CASE \A w \in Users : queued'[w] # "none" => queued'[w] = queued[w]
  BY <1>1 DEF WaitersAreApart
<1>2. ASSUME NEW u \in Users, NEW search \in Searches, NEW view \in Views(u),
             Candidates(view, u, search) = {},
             \A w \in Users : queued'[w] # "none" =>
               queued'[w] = IF w = u THEN search ELSE queued[w]
      PROVE  WaitersAreApart'
  <2>1. ASSUME NEW v \in Users, v # u, queued'[v] # "none"
        PROVE  search = "rated" /\ Gap(u, v) > Tolerance
    <3>1. IsListed(ready, v)
      BY <1>2, <2>1 DEF WaitingInv, QueuedAreReady
    <3>2. PICK k \in DOMAIN view.list : view.list[k] = v
      <4>1. IsListed(view.list, v)
        BY <3>1, ViewedGood DEF WaitingInv
      <4> QED
        BY <4>1 DEF IsListed
    <3>5. view.own = Rating[u] /\ view.noted[v] = Rating[v]
      BY <2>1, ViewedList, RatingAssumption DEF Noted
    <3>3. ~(search = "rated" => Gap(u, v) <= Tolerance)
      BY <2>1, <3>2, <3>5, <1>2 DEF Candidates, Gap
    <3>4. Gap(u, v) \in Int
      BY RatingAssumption DEF Gap, Distance
    <3> QED
      BY <3>3, <3>4, RatingAssumption
  <2>2. \A v, w \in Users : Gap(v, w) = Gap(w, v)
    BY RatingAssumption DEF Gap, Distance
  <2>3. ASSUME NEW v \in Users, NEW w \in Users, v # w,
               queued'[v] # "none", queued'[w] # "none"
        PROVE  Gap(v, w) > Tolerance /\ (queued'[v] = "rated" \/ queued'[w] = "rated")
    <3>1. CASE v = u
      BY <1>2, <2>1, <2>3, <3>1
    <3>2. CASE w = u
      BY <1>2, <2>1, <2>2, <2>3, <3>2
    <3>3. CASE v # u /\ w # u
      BY <1>2, <2>3, <3>3 DEF WaitersAreApart
    <3> QED
      BY <3>1, <3>2, <3>3
  <2> QED
    BY <2>3 DEF WaitersAreApart
<1> QED
  BY <1>1, <1>2, WhoComesToWait

\* While nothing fails, an entry of the list holds the rating of its user.
LEMMA RatingsStayNoted ==
  ASSUME noted = Rating, [Next]_vars, Faults = {}
  PROVE  noted' = Rating
<1>1. \A u \in Users : Noted(u, Rating[u]) = Rating
  BY RatingAssumption DEF Noted
<1>2. CASE Queue
  <2>1. PICK u \in Users : noted' = noted \/ noted' = Noted(u, Rating[u])
    BY <1>2, QueueSteps
  <2> QED
    BY <1>1, <2>1
<1>3. CASE ~Queue
  BY <1>3 DEF Next, Connection, Connect, Disconnect, Logout, Bind, InRooms, CreateRoom, JoinRoom,
              LeaveRoom, StartRoomGame, InChallenges, ChallengeUser, AcceptChallenge,
              DeclineChallenge, Expire, CleanUp, vars
<1> QED
  BY <1>2, <1>3

(***************************************************************************)
(* Two users who fit never both wait: whoever searches later is paired     *)
(* with the one who was queued, for any ratings and any number of users,   *)
(* as long as nothing fails.  With a failing send it is not so: a match    *)
(* that is rolled back puts the two back side by side; with a failing read *)
(* neither, for a search may go by a rating that was never set.            *)
(***************************************************************************)
THEOREM ApartTheorem ==
  ASSUME RoomForAll, Habits \cap {"switch", "several"} = {}, Faults = {}
  PROVE  Spec => []WaitersAreApart
<1>1. WaitingInv /\ Types' /\ [Next]_vars => WaitingInv'
  BY StepWaiting
<1>2. WaitingInv /\ noted = Rating /\ WaitersAreApart /\ [Next]_vars => WaitersAreApart'
  BY StayApart
<1>3. Init => WaitersAreApart /\ noted = Rating
  BY DEF Init, WaitersAreApart
<1>5. noted = Rating /\ [Next]_vars => (noted = Rating)'
  BY RatingsStayNoted
<1>4. QED
  BY <1>1, <1>2, <1>3, <1>5, InitWaiting, TypesHold, PTL DEF Spec
================================================================================
