------------------------------- MODULE Matches -------------------------------
(***************************************************************************)
(* The life of a match on the server: the table matches[] of               *)
(* server/src/match.c, the handlers that play, end, revive and repeat a    *)
(* match (handlers_match.c, handlers_query.c, handlers_rematch.c and the   *)
(* callers of match_create), the timeout sweep of server_run (server.c),   *)
(* and the three database tables they write: active_matches, Matches and   *)
(* Users (db.c).                                                           *)
(*                                                                         *)
(* The server is one thread: a handler runs to its end before the next     *)
(* event is looked at, so a handler is one action.  What interleaves are   *)
(* the requests of different clients, the passing of time, the sweep, the  *)
(* settlement of the lapsed matches one by one, and a crash of the process *)
(* between any two database statements of a handler.                       *)
(***************************************************************************)
EXTENDS Integers, FiniteSets, Sequences, Rating

CONSTANTS
  Users,        \* the accounts
  Offers,       \* <<red, black, rated>> triples the lobby may pair up
  InitRating,   \* rating of a new account (1200 in db.c)
  MaxMatches,   \* MAX_MATCHES: slots of the table (500)
  MaxMoves,     \* MAX_MOVES_PER_MATCH (300)
  MaxArchived,  \* moves whose JSON fits the VARCHAR(8000) of db_save_match (159)
  MoveTime,     \* ticks a player has for a move (600000 ms)
  SweepPeriod,  \* ticks between two sweeps (5 s)
  BatchMax,     \* size of server_run's array timeouts[] (100)
  MaxBoots,     \* bound of the model: how often the process is started
  DbFaults      \* the statements that may fail; their callers ignore it

Colours == {"red", "black"}

\* The statements of the settlement in a handler, and in the timeout loop.
\* Mutant: the row of the match is deleted before the match is saved.
UnlistingFirst == << "redRating", "redStats", "blackRating", "blackStats",
                     "unlist", "archive" >>
HandlerStatements == << "redRating", "redStats", "blackRating", "blackStats",
                        "archive", "unlist" >>
TimeoutStatements == << "redStats", "blackStats", "redRating", "blackRating" >>
PersistStatements == << "delete", "insert" >>
Elements(stmts) == {stmts[k] : k \in 1..Len(stmts)}
Statements == Elements(HandlerStatements) \cup Elements(PersistStatements)

ASSUME UsersAssumption == Users # {}
ASSUME OffersAssumption == Offers \subseteq Users \X Users \X BOOLEAN
ASSUME BoundsAssumption ==
  /\ MaxMatches \in Nat \ {0}
  /\ MaxMoves \in Nat
  /\ MaxArchived \in Nat
  /\ MoveTime \in Nat \ {0}
  /\ SweepPeriod \in Nat \ {0}
  /\ BatchMax \in Nat \ {0}
  /\ MaxBoots \in Nat \ {0}
  /\ InitRating \in Int
ASSUME FaultsAssumption == DbFaults \subseteq Statements

VARIABLES
  slots,       \* matches[]
  matchCount,  \* match_count
  batch,       \* the slots whose timeout server_run has still to settle
  sinceSweep,  \* ticks since last_timeout_check
  boot,        \* which start of the process this is
  rows,        \* table active_matches
  archive,     \* table Matches
  users        \* table Users: rating and statistics

memory == <<slots, matchCount, batch, sinceSweep, boot>>
database == <<rows, archive, users>>
vars == <<memory, database>>
-----------------------------------------------------------------------------
(***************************************************************************)
(* A match id is "match_<count>_<time>": count is match_count when the     *)
(* match was created, and the boot stands for the time, so the model       *)
(* assumes that a restart takes more than a second.                        *)
(***************************************************************************)
MatchId == [boot : Nat, n : Nat]
NoId == [boot |-> 0, n |-> 0]

Reasons == {"none", "resign", "agreement", "game_over", "timeout", "notify_failed"}

(***************************************************************************)
(* match_t.  idle is the time since last_move_at, of which only the part   *)
(* up to MoveTime matters; lost is the number of leading moves whose       *)
(* squares are gone from moves[] because they were made before the match   *)
(* was loaded from its row; clock holds red_time_ms and black_time_ms.     *)
(***************************************************************************)
Match == [id : MatchId, player : [Colours -> Users], rated : BOOLEAN,
          turn : Colours, moveCount : Nat, lost : Nat,
          clock : [Colours -> 0..MoveTime], idle : 0..MoveTime,
          active : BOOLEAN,
          result : Results \cup {"ongoing", "aborted"}, reason : Reasons]

Row == [id : MatchId, player : [Colours -> Users], rated : BOOLEAN,
        turn : Colours, moveCount : Nat, lost : Nat,
        clock : [Colours -> 0..MoveTime]]

Stats == [wins : Nat, losses : Nat, draws : Nat]
Account == [rating : Int, stats : Stats]

Other(colour) == IF colour = "red" THEN "black" ELSE "red"

Slots == 1..MaxMatches
\* What memset leaves in a slot; its player is never read.
Blank == [id |-> NoId, player |-> [c \in Colours |-> CHOOSE u \in Users : TRUE],
          rated |-> FALSE, turn |-> "red", moveCount |-> 0, lost |-> 0,
          clock |-> [c \in Colours |-> 0], idle |-> 0, active |-> FALSE,
          result |-> "ongoing", reason |-> "none"]

\* match_create takes the first slot without an id.
Free(i) == slots[i].id = NoId /\ ~slots[i].active
FirstFree(i) == Free(i) /\ \A j \in Slots : j < i => ~Free(j)

\* match_get returns the first slot with the id, whether it is active or not.
Visible(i) ==
  /\ slots[i].id # NoId
  /\ \A j \in Slots : j < i => slots[j].id # slots[i].id

(***************************************************************************)
(* Handlers, the sweep and the passing of time wait for the loop over the  *)
(* lapsed matches to finish; only a crash does not.                        *)
(***************************************************************************)
AtEventLoop == batch = {}

\* Mutant: a handler does not look at active.
FoundEvenEnded(i) == AtEventLoop /\ Visible(i)
\* A handler finds an active match in slot i.
Found(i) == AtEventLoop /\ Visible(i) /\ slots[i].active

\* What is left to the player to move.
Remaining(m) == IF m.clock[m.turn] > m.idle THEN m.clock[m.turn] - m.idle ELSE 0

\* Every statement takes effect but the ones that fail.
Outcomes(stmts) == {done \in SUBSET Elements(stmts) :
                      Elements(stmts) \ done \subseteq DbFaults}
\* What has taken effect if the process dies amid the statements.
TornOutcomes(stmts) == {Elements(SubSeq(stmts, 1, k)) : k \in 1..(Len(stmts) - 1)}
-----------------------------------------------------------------------------
(***************************************************************************)
(* db_save_active_match: DELETE, then INSERT; the INSERT fails on a row    *)
(* with the same key.                                                      *)
(***************************************************************************)
RowOf(m) == [id |-> m.id, player |-> m.player, rated |-> m.rated,
             turn |-> m.turn, moveCount |-> m.moveCount, lost |-> m.lost,
             clock |-> m.clock]

WithoutRow(id) == {row \in rows : row.id # id}

\* Mutant: there is no DELETE, so only the first INSERT succeeds.
PersistedOnce(m, done) ==
  IF "insert" \in done /\ \A row \in rows : row.id # m.id
  THEN rows \cup {RowOf(m)} ELSE rows
Persisted(m, done) ==
  LET kept == IF "delete" \in done THEN WithoutRow(m.id) ELSE rows
  IN  IF "insert" \in done /\ \A row \in kept : row.id # m.id
      THEN kept \cup {RowOf(m)} ELSE kept

(***************************************************************************)
(* The settlement of a rated match by a handler: both accounts are read,   *)
(* then rating and statistics of red and of black are written.  If red and *)
(* black are the same account the later writes win.                        *)
(***************************************************************************)
Tally(stats, outcome) ==
  CASE outcome = "win"  -> [stats EXCEPT !.wins = @ + 1]
    [] outcome = "loss" -> [stats EXCEPT !.losses = @ + 1]
    [] outcome = "half" -> [stats EXCEPT !.draws = @ + 1]

OutcomeFor(colour, result) ==
  CASE result = "draw"                                  -> "half"
    [] (result = "red_win") <=> (colour = "red")        -> "win"
    [] OTHER                                            -> "loss"

\* db_update_user_rating and db_update_user_stats, each if it takes effect.
Booked(accounts, user, ratingDone, rating, statsDone, stats) ==
  [accounts EXCEPT ![user] = [rating |-> IF ratingDone THEN rating ELSE @.rating,
                              stats  |-> IF statsDone THEN stats ELSE @.stats]]

Credited(m, result, done) ==
  LET red    == users[m.player["red"]]
      black  == users[m.player["black"]]
      change == RatingChange(red.rating, black.rating, result)
  IN  Booked(Booked(users, m.player["red"],
                    "redRating" \in done, red.rating + change.red,
                    "redStats" \in done, Tally(red.stats, OutcomeFor("red", result))),
             m.player["black"],
             "blackRating" \in done, black.rating + change.black,
             "blackStats" \in done, Tally(black.stats, OutcomeFor("black", result)))

\* db_save_match: match_id is the primary key, and moves_json is bound as VARCHAR(8000), so
\* that the INSERT of a longer game fails.  The moves that are lost are written as zeros.
Archived(m, result, done) ==
  IF "archive" \in done /\ m.moveCount <= MaxArchived /\ \A a \in archive : a.id # m.id
  THEN archive \cup {[id |-> m.id, result |-> result, lost |-> m.lost]}
  ELSE archive

\* db_delete_active_match.
Unlisted(m, done) == IF "unlist" \in done THEN WithoutRow(m.id) ELSE rows

Settled(m, result, done) ==
  /\ users' = IF m.rated THEN Credited(m, result, done) ELSE users
  /\ archive' = Archived(m, result, done)
  /\ rows' = Unlisted(m, done)
-----------------------------------------------------------------------------
Init ==
  /\ slots = [i \in Slots |-> Blank]
  /\ matchCount = 0
  /\ batch = {}
  /\ sinceSweep = SweepPeriod      \* last_timeout_check = 0
  /\ boot = 1
  /\ rows = {}
  /\ archive = {}
  /\ users = [u \in Users |-> [rating |-> InitRating,
                               stats  |-> [wins |-> 0, losses |-> 0, draws |-> 0]]]

(***************************************************************************)
(* The process dies and is started again: match_init clears the table, and *)
(* main does not call match_restore_all.                                   *)
(***************************************************************************)
Reboot ==
  /\ boot < MaxBoots
  /\ boot' = boot + 1
  /\ slots' = [i \in Slots |-> Blank]
  /\ matchCount' = 0
  /\ batch' = {}
  /\ sinceSweep' = SweepPeriod

Crash == Reboot /\ UNCHANGED database

\* Mutant: the id of a match is its count without the time.
NewMatchTimeless(red, black, rated, time) ==
  [id |-> [boot |-> 1, n |-> matchCount + 1],
   player |-> [c \in Colours |-> IF c = "red" THEN red ELSE black],
   rated |-> rated, turn |-> "red", moveCount |-> 0, lost |-> 0,
   clock |-> [c \in Colours |-> time], idle |-> 0, active |-> TRUE,
   result |-> "ongoing", reason |-> "none"]

\* match_create.
NewMatch(red, black, rated, time) ==
  [id |-> [boot |-> boot, n |-> matchCount + 1],
   player |-> [c \in Colours |-> IF c = "red" THEN red ELSE black],
   rated |-> rated, turn |-> "red", moveCount |-> 0, lost |-> 0,
   clock |-> [c \in Colours |-> time], idle |-> 0, active |-> TRUE,
   result |-> "ongoing", reason |-> "none"]

Place(i, m) ==
  /\ AtEventLoop
  /\ FirstFree(i)
  /\ slots' = [slots EXCEPT ![i] = m]
  /\ matchCount' = matchCount + 1
  /\ UNCHANGED <<batch, sinceSweep, boot>>

\* match_create and match_persist, as every caller of match_create does them.
CreateAndPersist(i, m) ==
  /\ matchCount < MaxMatches
  /\ Place(i, m)
  /\ \E done \in Outcomes(PersistStatements) : rows' = Persisted(m, done)
  /\ UNCHANGED <<archive, users>>

\* handle_find_match, handle_start_room_game, handle_challenge_response.
Create(i, offer) == CreateAndPersist(i, NewMatch(offer[1], offer[2], offer[3], MoveTime))

(***************************************************************************)
(* handle_find_match when a match_found message cannot be sent: the match  *)
(* that was just persisted is ended in memory, and nowhere else.           *)
(***************************************************************************)
Finish(m, result, reason) ==
  [m EXCEPT !.active = FALSE, !.result = result, !.reason = reason]

CreateRolledBack(i, offer) ==
  LET m == NewMatch(offer[1], offer[2], offer[3], MoveTime) IN
  /\ matchCount < MaxMatches
  /\ Place(i, Finish(m, "aborted", "notify_failed"))
  /\ \E done \in Outcomes(PersistStatements) : rows' = Persisted(m, done)
  /\ UNCHANGED <<archive, users>>

(***************************************************************************)
(* handle_rematch_response with accept: colours swapped, whatever the      *)
(* state of the old match, with red's clock if it has not run out.         *)
(***************************************************************************)
Rematch(i, old) ==
  LET m == slots[old] IN
  /\ Visible(old)
  /\ CreateAndPersist(i, NewMatch(m.player["black"], m.player["red"], m.rated,
                       IF m.clock["red"] > 0 THEN m.clock["red"] ELSE MoveTime))
-----------------------------------------------------------------------------
\* Mutant: match_update_timer sets last_move_at and charges nothing.
SpentForFree(m) == [m EXCEPT !.idle = 0]
\* match_update_timer.
Spent(m) == [m EXCEPT !.clock[m.turn] = Remaining(m), !.idle = 0]

(***************************************************************************)
(* handle_move up to match_add_move: the turn is told from the parity of   *)
(* the move count, and an inactive match is left alone.                    *)
(***************************************************************************)
MayMove(u, i) ==
  /\ Found(i)
  /\ (slots[i].moveCount % 2 = 0) <=> (slots[i].player["red"] = u)

\* "Time expired" or "Failed to add move": the clock has been charged.
MoveRefused(u, i) ==
  /\ MayMove(u, i)
  /\ Remaining(slots[i]) = 0 \/ slots[i].moveCount >= MaxMoves
  /\ slots' = [slots EXCEPT ![i] = Spent(@)]
  /\ UNCHANGED <<matchCount, batch, sinceSweep, boot, database>>

\* match_add_move refills both clocks.
Moved(m) ==
  [m EXCEPT !.moveCount = @ + 1, !.turn = Other(@), !.idle = 0,
            !.clock = [c \in Colours |-> MoveTime]]

MoveAllowed(u, i) ==
  /\ MayMove(u, i)
  /\ Remaining(slots[i]) > 0
  /\ slots[i].moveCount < MaxMoves

\* The mover has his answer and the opponent the move before match_persist.
MoveAccepted(u, i) ==
  /\ MoveAllowed(u, i)
  /\ slots' = [slots EXCEPT ![i] = Moved(@)]
  /\ \E done \in Outcomes(PersistStatements) : rows' = Persisted(Moved(slots[i]), done)
  /\ UNCHANGED <<matchCount, batch, sinceSweep, boot, archive, users>>

\* The process dies between the DELETE and the INSERT of match_persist.
CrashInPersist(u, i) ==
  /\ MoveAllowed(u, i)
  /\ Reboot
  /\ \E done \in TornOutcomes(PersistStatements) : rows' = Persisted(Moved(slots[i]), done)
  /\ UNCHANGED <<archive, users>>
-----------------------------------------------------------------------------
\* The ways a client ends the match it sees in slot i.
EndRequest(i, result, reason) ==
  /\ Found(i)
  /\ \/ /\ reason = "resign"         \* handle_resign: red if the user is red
        /\ \E u \in Users :
             result = IF u = slots[i].player["red"] THEN "black_win" ELSE "red_win"
     \/ /\ reason = "agreement"      \* handle_draw_response, accept
        /\ result = "draw"
     \/ /\ reason = "game_over"      \* handle_game_over: as the client says
        /\ result \in Results

ClientReasons == {"resign", "agreement", "game_over"}

End(i, result, reason) ==
  /\ EndRequest(i, result, reason)
  /\ slots' = [slots EXCEPT ![i] = Finish(@, result, reason)]
  /\ \E done \in Outcomes(HandlerStatements) : Settled(slots[i], result, done)
  /\ UNCHANGED <<matchCount, batch, sinceSweep, boot>>

CrashInEnd(i, result, reason) ==
  /\ EndRequest(i, result, reason)
  /\ Reboot
  /\ \E done \in TornOutcomes(HandlerStatements) : Settled(slots[i], result, done)

(***************************************************************************)
(* handle_join_match when match_get finds no active match: the row is      *)
(* loaded into a fresh slot (match_load_from_db) before anything is asked  *)
(* about the user; last_move_at becomes now and moves[] stays zero.        *)
(***************************************************************************)
\* Mutant: the turn of a loaded match is that of a new one.
LoadedRedToMove(row) ==
  [id |-> row.id, player |-> row.player, rated |-> row.rated, turn |-> "red",
   moveCount |-> row.moveCount, lost |-> row.moveCount, clock |-> row.clock,
   idle |-> 0, active |-> TRUE, result |-> "ongoing", reason |-> "none"]
Loaded(row) ==
  [id |-> row.id, player |-> row.player, rated |-> row.rated, turn |-> row.turn,
   moveCount |-> row.moveCount, lost |-> row.moveCount, clock |-> row.clock,
   idle |-> 0, active |-> TRUE, result |-> "ongoing", reason |-> "none"]

\* match_load_from_db, for a row that it finds.
LoadFromDb(i, row) == Place(i, Loaded(row)) /\ UNCHANGED database

\* Mutant: nobody asks whether the match is running.
JoinAnyRow(i, row) == LoadFromDb(i, row)
Join(i, row) ==
  /\ \A j \in Slots : Visible(j) /\ slots[j].id = row.id => ~slots[j].active
  /\ LoadFromDb(i, row)
-----------------------------------------------------------------------------
Tick ==
  /\ AtEventLoop
  /\ slots' = [i \in Slots |->
                 IF slots[i].active /\ slots[i].idle < MoveTime
                 THEN [slots[i] EXCEPT !.idle = @ + 1] ELSE slots[i]]
  /\ sinceSweep' = IF sinceSweep < SweepPeriod THEN sinceSweep + 1 ELSE sinceSweep
  /\ UNCHANGED <<matchCount, batch, boot, database>>

(***************************************************************************)
(* match_check_all_timeouts looks at every slot, not by id; of the lapsed  *)
(* ones match_get_pending_timeouts hands out the first BatchMax and        *)
(* forgets the rest.                                                       *)
(***************************************************************************)
\* Mutant: the sweep looks a match up by its id.
LapsedVisible == {i \in Slots : Visible(i) /\ slots[i].active /\ Remaining(slots[i]) = 0}
Lapsed == {i \in Slots : slots[i].active /\ Remaining(slots[i]) = 0}

\* Mutant: one too few.
FirstButOneOf(S, k) == {i \in S : Cardinality({j \in S : j < i}) < k - 1}
FirstOf(S, k) == {i \in S : Cardinality({j \in S : j < i}) < k}

WinOf(colour) == IF colour = "red" THEN "red_win" ELSE "black_win"

Sweep ==
  /\ AtEventLoop
  /\ sinceSweep >= SweepPeriod
  /\ slots' = [i \in Slots |->
                 IF i \in Lapsed
                 THEN Finish(slots[i], WinOf(Other(slots[i].turn)), "timeout")
                 ELSE slots[i]]
  /\ batch' = FirstOf(Lapsed, BatchMax)
  /\ sinceSweep' = 0
  /\ UNCHANGED <<matchCount, boot, database>>

(***************************************************************************)
(* One round of server_run's loop over the lapsed matches: rated or not,   *)
(* the statistics are overwritten and the ratings change, the loser's by   *)
(* another TimeoutPenalty points, with RatingFloor for both.  Neither      *)
(* active_matches nor Matches is touched.                                  *)
(***************************************************************************)
TimeoutPenalty == 25
RatingFloor == 100
Floored(rating) == IF rating < RatingFloor THEN RatingFloor ELSE rating

\* Mutant: the winner is fined.
PenaltySwapped(m, colour) == IF m.result = WinOf(colour) THEN TimeoutPenalty ELSE 0
Penalty(m, colour) == IF m.result = WinOf(colour) THEN 0 ELSE TimeoutPenalty

Single(m, colour) == IF m.result = WinOf(colour)
                     THEN [wins |-> 1, losses |-> 0, draws |-> 0]
                     ELSE [wins |-> 0, losses |-> 1, draws |-> 0]

Penalized(m, done) ==
  LET red    == users[m.player["red"]].rating
      black  == users[m.player["black"]].rating
      change == RatingChange(red, black, m.result)
  IN  Booked(Booked(users, m.player["red"],
                    "redRating" \in done, Floored(red + change.red - Penalty(m, "red")),
                    "redStats" \in done, Single(m, "red")),
             m.player["black"],
             "blackRating" \in done, Floored(black + change.black - Penalty(m, "black")),
             "blackStats" \in done, Single(m, "black"))

NextInBatch(i) == i \in batch /\ \A j \in batch : i <= j

SettleTimeout(i) ==
  /\ NextInBatch(i)
  /\ batch' = batch \ {i}
  /\ \E done \in Outcomes(TimeoutStatements) : users' = Penalized(slots[i], done)
  /\ UNCHANGED <<slots, matchCount, sinceSweep, boot, rows, archive>>

CrashInTimeout(i) ==
  /\ NextInBatch(i)
  /\ Reboot
  /\ \E done \in TornOutcomes(TimeoutStatements) : users' = Penalized(slots[i], done)
  /\ UNCHANGED <<rows, archive>>
-----------------------------------------------------------------------------
Request ==
  \E i \in Slots :
    \/ \E offer \in Offers : Create(i, offer) \/ CreateRolledBack(i, offer)
    \/ \E old \in Slots : Rematch(i, old)
    \/ \E u \in Users : MoveRefused(u, i) \/ MoveAccepted(u, i)
    \/ \E result \in Results, reason \in ClientReasons : End(i, result, reason)
    \/ \E row \in rows : Join(i, row)

Failure ==
  \/ Crash
  \/ \E i \in Slots :
       \/ \E u \in Users : CrashInPersist(u, i)
       \/ \E result \in Results, reason \in ClientReasons : CrashInEnd(i, result, reason)
       \/ CrashInTimeout(i)

Settle == \E i \in Slots : SettleTimeout(i)

Next == Request \/ Failure \/ Tick \/ Sweep \/ Settle

Spec == Init /\ [][Next]_vars

(***************************************************************************)
(* Time passes; epoll_wait returns within a second, and then the loop body *)
(* reaches the sweep and the settlement of every lapsed match.             *)
(***************************************************************************)
Fairness == WF_vars(Tick) /\ WF_vars(Sweep) /\ WF_vars(Settle)

FairSpec == Spec /\ Fairness
-----------------------------------------------------------------------------
(***************************************************************************)
(* Invariants.                                                             *)
(***************************************************************************)
TypeOK ==
  /\ slots \in [Slots -> Match]
  /\ matchCount \in Nat
  /\ batch \subseteq Slots
  /\ sinceSweep \in 0..SweepPeriod
  /\ boot \in Nat
  /\ rows \subseteq Row
  /\ archive \subseteq [id : MatchId, result : Results, lost : Nat]
  /\ users \in [Users -> Account]

(***************************************************************************)
(* match_count and the search for an empty slot agree: exactly the first   *)
(* match_count slots are in use.  So match_create fails only when the      *)
(* table is full, and the "match_<count>_" of an id is never reused.       *)
(***************************************************************************)
UsedSlotsArePrefix ==
  /\ matchCount <= MaxMatches
  /\ \A i \in Slots : slots[i].id # NoId <=> i <= matchCount

(***************************************************************************)
(* handle_move tells the turn from the parity of move_count, the timers    *)
(* from current_turn: the two always agree, in memory and in the rows a    *)
(* match is restored from.  Were they to part, the player who may move     *)
(* would not be the one whose clock runs.                                  *)
(***************************************************************************)
ParityTellsTurn(m) == m.turn = (IF m.moveCount % 2 = 0 THEN "red" ELSE "black")

TurnAgreesWithMoves ==
  /\ \A i \in Slots : ParityTellsTurn(slots[i])
  /\ \A row \in rows : ParityTellsTurn(row)

(***************************************************************************)
(* A running match can be restored as it stands: active_matches has a row  *)
(* for it with the same players, turn and number of moves, unless a        *)
(* statement of match_persist failed.                                      *)
(***************************************************************************)
RunningMatchesAreListed ==
  DbFaults \cap {"delete", "insert"} = {} =>
    \A i \in Slots : slots[i].active =>
      \E row \in rows :
        /\ row.id = slots[i].id
        /\ row.player = slots[i].player
        /\ row.rated = slots[i].rated
        /\ row.turn = slots[i].turn
        /\ row.moveCount = slots[i].moveCount

(***************************************************************************)
(* A match that a player ended (resign, draw_response, game_over) is over  *)
(* for good: no row is left to revive it from, and no other slot holds it, *)
(* whatever requests to join it were handled before or after.              *)
(***************************************************************************)
EndedByPlayerIsFinal ==
  "unlist" \notin DbFaults =>
    \A i \in Slots : slots[i].reason \in ClientReasons =>
      /\ \A row \in rows : row.id # slots[i].id
      /\ \A j \in Slots \ {i} : slots[j].id # slots[i].id

(***************************************************************************)
(* Several slots hold the same match only after the first of them, which   *)
(* is the one that match_get finds, lapsed or was rolled back: nobody can  *)
(* play or end a copy, it can only lapse.                                  *)
(***************************************************************************)
CopiesFollowALapse ==
  "unlist" \notin DbFaults =>
    \A i, j \in Slots :
      Visible(i) /\ i < j /\ slots[i].id = slots[j].id =>
        ~slots[i].active /\ slots[i].reason \in {"timeout", "notify_failed"}
-----------------------------------------------------------------------------
(***************************************************************************)
(* Action properties.                                                      *)
(***************************************************************************)
SameBoot == boot' = boot

(***************************************************************************)
(* The first end of a match wins: once a slot is inactive no late move,    *)
(* second game_over, resignation or sweep changes anything in it.          *)
(***************************************************************************)
EndedIsFrozen ==
  [][\A i \in Slots : SameBoot /\ slots[i].id # NoId /\ ~slots[i].active
        => slots'[i] = slots[i]]_vars

(***************************************************************************)
(* A move is accepted only while the mover has time left, also when the    *)
(* sweep is late; and it is the only thing that gives a player time: while *)
(* the same player is to move, what is left to him never grows.            *)
(***************************************************************************)
ClockIsHonest ==
  [][\A i \in Slots : SameBoot /\ slots[i].active =>
       IF slots'[i].moveCount # slots[i].moveCount
       THEN Remaining(slots[i]) > 0
       ELSE Remaining(slots'[i]) <= Remaining(slots[i])]_vars

(***************************************************************************)
(* match_persist never takes a row back: while a row stays in              *)
(* active_matches its number of moves does not go down, although revived   *)
(* copies of the match may be in memory at other states of play.           *)
(***************************************************************************)
RowsOnlyAdvance ==
  [][\A old \in rows, new \in rows' : old.id = new.id =>
       new.moveCount >= old.moveCount /\ new.lost >= old.lost]_vars

(***************************************************************************)
(* A match leaves the database without a trace in two ways only: a crash   *)
(* amid match_persist, between the DELETE and the INSERT, and the end of a *)
(* game that is too long for db_save_match, whose failure the handlers     *)
(* ignore.  Otherwise its row leaves active_matches only once the match is *)
(* in Matches, whatever statement a crash comes after.                     *)
(***************************************************************************)
ListedUntilArchived ==
  [][DbFaults = {} =>
       \A old \in rows :
         \/ \E new \in rows' : new.id = old.id
         \/ \E a \in archive' : a.id = old.id
         \/ old.moveCount > MaxArchived
         \/ \E i \in Slots, u \in Users : CrashInPersist(u, i) /\ slots[i].id = old.id]_vars

(***************************************************************************)
(* A match that lapses is settled, however many lapse at once, as long as  *)
(* the array of server_run is not full.                                    *)
(***************************************************************************)
LapseIsQueued ==
  [][\A i \in Slots :
       SameBoot /\ slots[i].active /\ ~slots'[i].active /\ slots'[i].reason = "timeout"
         => i \in batch' \/ Cardinality(batch') = BatchMax]_vars

\* The match in slot i is settled by this step, by a handler or by the loop.
SettledByHandler(i) ==
  SameBoot /\ slots[i].active /\ ~slots'[i].active /\ slots'[i].reason \in ClientReasons
SettledByLoop(i) == SameBoot /\ i \in batch /\ i \notin batch'

Gained(u) == users'[u].rating - users[u].rating

(***************************************************************************)
(* Accounts change only by the settlement of a match that they played in   *)
(* and that ends now, or whose lapse is settled now (or by one torn by a   *)
(* crash): a match is not paid for twice by a repeated or late request.    *)
(***************************************************************************)
PaidWithTheEnd ==
  [][SameBoot =>
       \A u \in Users : users'[u] # users[u] =>
         \E i \in Slots :
           /\ SettledByHandler(i) \/ SettledByLoop(i)
           /\ \E c \in Colours : slots[i].player[c] = u]_vars

(***************************************************************************)
(* What a handler's settlement gives one player it takes from the other.   *)
(***************************************************************************)
HandlersConservePoints ==
  [][DbFaults \cap {"redRating", "blackRating"} = {} =>
       \A i \in Slots :
         SettledByHandler(i) /\ slots[i].player["red"] # slots[i].player["black"] =>
           Gained(slots[i].player["red"]) + Gained(slots[i].player["black"]) = 0]_vars

(***************************************************************************)
(* Whoever wins, by a handler or by a timeout, does not lose points, and   *)
(* the loser does not gain any - unless the loop lifts him to RatingFloor: *)
(* the handlers have no floor, so he may have been below it.               *)
(***************************************************************************)
WinnersGainLosersPay ==
  [][\A i \in Slots, c \in Colours :
       /\ SettledByHandler(i) \/ SettledByLoop(i)
       /\ slots'[i].result = WinOf(c)
       /\ slots[i].player[c] # slots[i].player[Other(c)]
       => /\ Gained(slots[i].player[c]) >= 0
          /\ \/ Gained(slots[i].player[Other(c)]) <= 0
             \/ /\ SettledByLoop(i)
                /\ users'[slots[i].player[Other(c)]].rating = RatingFloor]_vars
-----------------------------------------------------------------------------
(***************************************************************************)
(* Liveness.                                                               *)
(***************************************************************************)

(***************************************************************************)
(* Every match ends: a player to move moves, or ends the match, or is      *)
(* found out of time by the sweep; and there are MaxMoves moves at most.   *)
(***************************************************************************)
EveryMatchEnds == \A i \in Slots : slots[i].active ~> ~slots[i].active
-----------------------------------------------------------------------------
(***************************************************************************)
(* What the program says of itself and does not do.                        *)
(***************************************************************************)

(***************************************************************************)
(* handle_join_match answers "Match not found or ended": a match whose     *)
(* player ran out of time, and whose lapse is settled, is not running      *)
(* again.                                                                  *)
(***************************************************************************)
EndedIsNotJoined ==
  \A i, j \in Slots :
    slots[i].reason = "timeout" /\ i \notin batch /\ slots[j].id = slots[i].id
      => ~slots[j].active

(***************************************************************************)
(* match_restore_all reports that "restoration requires client reconnect": *)
(* a match that was restored and played on is archived with its moves.     *)
(***************************************************************************)
RestoredKeepsMoves == \A a \in archive : a.lost = 0
=============================================================================
