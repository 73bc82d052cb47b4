# Xiangqi over the network: a verification development

This directory holds TLA+ models of the Xiangqi server and client in this repository, the TLC
configurations that check them on small instances, and proofs, checked by TLAPS, of what holds
for every value of the constants. Source lines are written `file:line` relative to `server/src/`
(or to `client/` where it says so).

Contents: 1 the system · 2 the plan · 3 the modules and the code · 4 the runs · 5 fairness ·
6 the proofs · 7 where program and texts part · 8 what is not modelled.

## 1. The system

A server written in C, one thread around `epoll_wait` (`server.c: server_run`), keeps all state
of play in global arrays and writes four SQL Server tables through ODBC. A client is a web page
in a window of a Python launcher, which calls a small C library that owns the socket. Messages
are JSON objects, one to a line.

### Components

| component | state it keeps | operations |
|---|---|---|
| **match lifecycle** `match.c`, `handlers_match.c`, `handlers_query.c`, `handlers_rematch.c`, sweep in `server.c` | `matches[500]`, `match_count`; tables `active_matches`, `Matches`, `Users` | create, move, resign, draw, game over, rematch, join (revive), sweep of lapsed matches and their settlement |
| **rating** `rating.c` | none | `rating_calculate`: Elo with K = 32 |
| **lobby** `lobby.c`, `handlers_lobby.c`, `handlers_room.c`, `handlers_social.c` | `ready_players[100]`, `rooms[50]`, `challenges[100]` | set ready, find match (casual or rated), rooms: create, join, leave, start; challenge, accept, decline, expiry |
| **connections and sending** `server.c`, `broadcast.c` | `clients[1000]` with their buffers | accept, read, write, disconnect with its clean-up, `send_to_user` |
| **dispatch** `handlers.c`, `handlers_common.c` | none | message type to handler |
| **accounts and sessions** `account.c`, `session.c`, `handlers_auth.c` | tables `Users`, `Sessions`; `user_id` of each connection | register, login, logout, validate token, expiry |
| **spectators and chat** `handlers_spectate.c`, `handlers_social.c`, `match.c` | `spectator_ids[]` in a match | join, leave, relay of chat |
| **wire protocol** `protocol.c` | per-connection buffers | framing by newline, JSON fields |
| **database layer** `db.c`, `sql/` | the tables | one statement per function, each committed by itself |
| **client library, launcher** `client/lib/client.c`, `client/launcher.py` | one socket, a receive thread, a queue of messages | connect, disconnect, send, poll |
| **client bridge** `client/src/network/*.js` | pending requests, heartbeat, session token | send and wait, time out, poll every 50 ms, re-login |
| **client game controller** `client/src/core/*.js` | board, turn, move list, clocks of the page | execute a move after the server's answer, apply the opponent's, report the end |
| **board and pieces** `client/src/core/board.js`, `client/src/pieces/*.js` | none | legal moves, check, mate |
| **pages and rendering** `client/src/pages`, `client/src/ui` | layout | |

### How they interact

* A handler runs to its end before the next event is looked at: within the server, handlers are
  atomic as far as memory goes. They are not atomic against a crash: every database statement is
  committed by itself, and the results of nearly all of them are ignored.
* The lobby makes matches (`match_create` + `match_persist`); the match keeps going whether its
  players are connected or not. `client_disconnect` cleans up the ready list and the rooms of the
  connection's user, and touches no match.
* A match is found by id with `match_get`, which returns the first slot with that id. The sweep
  goes over slots, not ids. `match_load_from_db` fills a fresh slot from `active_matches`.
* The sweep (every 5 s) ends lapsed matches in memory; the loop behind it pays for the first 100.
* The server does not know the rules of the game: it relays squares. A client decides that the
  game is over and reports the result; both clients report it.

### What is hard here, and what makes each component correct

| component | hard behaviour | correct means |
|---|---|---|
| match lifecycle | resign, draw, two reports of game over and the sweep race for one match; copies of a revived match; crash between statements; more lapses than the array holds | the first end is final and is paid for once; the clock is honest; turn and move count agree; a match is in `active_matches` until it is in `Matches`; every match ends |
| rating | two roundings | zero sum; the winner does not pay; the gap saturates |
| lobby | a search removes both players before it knows that they can play; several connections of one user; a connection that changes its user; full arrays | nobody is listed twice; whoever was told that he waits can be found; two who fit do not both wait; a seat is kept; a room starts one match, with people who are there |
| connections | `EPOLLIN` with `EPOLLHUP`, partial sends, buffers that overflow | a connection is cleaned up once; messages are whole |
| sessions | expiry, re-login, two sessions of one user | a token is good for one user and not after its expiry |
| spectators | the array shifts while entries leave | every spectator once, none that left |
| client bridge | the request is registered after the `await` of its sending; time-outs and late answers | an answer reaches its request or nobody |
| game controller | board state used after an `await` | the two boards show the same game |

`hazards` in `PROJECT.json` lists every such point at its line with the properties that watch it.

## 2. The plan

The order was: what decides about points and matches first (`Rating`, `Ladder`, `Matches`), then
who meets whom (`Lobby`), then what they rest on: connections, accounts and sessions (`Sessions`,
`Spectators`), bytes and messages (`Wire`), the client's connection (`Launcher`), and at the end
the pages of the two players over all of it (`Play`). Abstract specifications are stated where a
component promises something simpler than what it does: `Channel` (an ordered stream of messages)
for `Wire`, `Access` (who speaks for whom) for `Sessions`, `Audience` (a set of limited size) for
the array of the spectators.

```
 pages of two players        Play      (one queue in each direction stands for the next two)
 launcher                    Launcher
 bytes and messages          Wire      --implements-> Channel
 accounts, connections       Sessions  --implements-> Access
 spectators                  Spectators (EXTENDS Sessions) --implements-> Audience
 ready list, rooms           Lobby     <- MCLobby
 matches and tables          Matches   <- MCMatches      (EXTENDS Rating)
 points                      Rating    <- Ladder
```

The proofs of `X` are in `XProofs`.

What a further step could add: `Lobby` and `Matches` in one module, so that the table of matches
fills up by itself instead of by a fault; one page after another of the same user, whose sequence
numbers start again (`Play` has one page for each player); the rules of the pieces.

## 3. The modules and the code

`PROJECT.json` (`map`) gives the lines each definition stands for.

### Rating, Ladder

`Rating` is `rating_calculate`. The code computes `round(32 * (S - E))` in doubles with
`E = 1 / (1 + 10^(d/400))`; the model gives the same integers by a table of thresholds: a win pays
one point for every `g` in 1..32 with `d <= Threshold[g]`. `Ladder` lets two players play rated
matches for ever, one action per result.

### Matches

| model | code |
|---|---|
| `slots[i]` | `matches[i]`: id, players, rated, turn, move count, clocks, active, result |
| `idle` in a slot | time since `last_move_at`, counted up to `MoveTime` |
| `lost` in a slot | how many of the leading moves have no squares in `moves[]` any more |
| `batch`, `sinceSweep` | `timeouts[]` and the time since `last_timeout_check` in `server_run` |
| `boot` | which start of the process this is; the second part of a match id (a time) |
| `rows`, `archive`, `users` | `active_matches`, `Matches`, `Users` |
| `Create`, `CreateRolledBack`, `Rematch` | every caller of `match_create`, with `match_persist` |
| `MoveAccepted`, `MoveRefused` | `handle_move`, `match_update_timer`, `match_add_move` |
| `End` | `handle_resign`, `handle_draw_response`, `handle_game_over` with their settlement |
| `Join` | `handle_join_match` with `match_load_from_db` |
| `Tick`, `Sweep`, `SettleTimeout` | time, `match_check_all_timeouts`, one round of the settlement loop |
| `Crash`, `CrashInPersist`, `CrashInEnd`, `CrashInTimeout` | the process dies, after a prefix of the statements of a handler, and is started again |

A handler is one action together with the statements it executes. `HandlerStatements`,
`TimeoutStatements` and `PersistStatements` list these in their order: `Outcomes` lets those named
in `DbFaults` fail without anybody noticing, `TornOutcomes` is every proper prefix, for a crash.
While `batch` is not empty only the settlement loop runs, one match per step, so that a crash can
come between two settlements.

What is abstracted: moves are a count (the server does not look at squares, and loses them on
restore, which `lost` records). A restart takes more than a second, so ids of two boots differ.
Reading the database succeeds. `elapsed_ms` does not overflow. `db_save_match` binds the moves as
`VARCHAR(8000)`; at 50 bytes a move only `MaxArchived` moves (159) of the 300 fit, and the `INSERT`
of a longer game fails, which no handler looks at: `Archived` leaves it out. Clients report only the
three results that the controller of this repository sends
(`client/src/core/networkGameController.js:37`). The draw offer, timer queries, `get_match`,
history, leaderboard and live list change nothing. `Offers` is who may be paired with whom; who
really is, is the business of `Lobby`.

### Lobby

| model | code |
|---|---|
| `clients[c]` | the user of connection c; `Nobody` before it authenticates, `Closed` if unused |
| `ready`, `rooms`, `challenges` | `ready_players[]`, `rooms[]`, `challenges[]` |
| `noted[u]` | the rating in `u`'s entry of `ready_players[]` |
| `Views` | what a search goes by after its two reads of the account (`handlers_lobby.c:38`, `:61`), either of which may fail |
| `made` | the match made by the last step (an output, for the properties) |
| `queued` | history: the search whose last answer to the user was "Queued for match" |
| `Connect`, `Bind`, `Logout`, `Disconnect` | `handle_new_connection`, any request with a token, `handle_logout`, `client_disconnect` |
| `SetReady`, `ClearReady` | `handle_set_ready` |
| `SearchQueued`, `SearchFoundAbsent`, `SearchFailed`, `SearchMatched`, `SearchRolledBack` | the five ways through `handle_find_match` |
| `CreateRoom`, `JoinRoom`, `LeaveRoom`, `StartRoomGame` | `handlers_room.c` |
| `ChallengeUser`, `AcceptChallenge`, `DeclineChallenge`, `Expire`, `CleanUp` | `handlers_social.c`, `lobby_cleanup_expired_challenges` |

What is abstracted: any user may hold a valid token (the table of sessions is in `Sessions`);
the ratings of accounts are constant (the list's copies of them are not: after a failing read the
code lists a user again with rating 0); codes and ids, which are random, are taken to be distinct; a
wrong password is a refused request. What users may do
is a parameter, `Habits`: be connected `"several"` times, `"switch"` a live connection to another
account by authenticating again, `"logout"`. So are the `Faults`: the table of matches is full
(`"create"`), a message cannot be sent (`"notify"`), an account cannot be read (`"read"`). After a
failing read a user is not listed, and a rated search goes by a rating that was never set, which
may be any of `Garbage`. Properties that hold only without some of these
say so in their formula.

### Sessions, Access, Spectators, Audience

| model | code |
|---|---|
| `accounts`, `sessions` | the tables `Users` (with its two UNIQUE columns) and `Sessions` |
| `open`, `user`, `authentic` | the used entries of `clients[]`, their `user_id` and `authenticated` |
| `places[m]` | `spectator_ids[]` up to `spectator_count` |
| `strangers` | history: connections that have proved nothing since they came or logged out |
| `Register`, `Login`, `Logout`, `ValidateToken` | `handlers_auth.c`, over `session.c` and `db.c` |
| `Connect`, `Disconnect` | `handle_new_connection` (the first free entry), `client_disconnect` |
| `Tick`, `CleanupExpired`, `ServerRestarts` | time, `session_cleanup_expired`, end and start of the process |
| `JoinSpectate`, `LeaveSpectate` | `handlers_spectate.c` with `match_add_spectator`, `match_remove_spectator` |
| `MatchStarts`, `MatchEnds` | what `Matches` does, as far as it matters to spectators |
| `SendToUser`, `BroadcastToMatch`, `ChatMessage` | whom `send_to_user` finds, and for whom it is asked |

What is abstracted: a password is right or the login does nothing; a token is never drawn twice;
a statement that fails is a choice of the step (`DbFaults`). `AdmitsTheEntitled` maps the
table to those of its sessions that have not expired, so that the clean-up is a stutter;
`SeatsAsASet` maps the array to the set of its entries and the counter to the places left.

### Wire, Channel

| model | code |
|---|---|
| `written`, `newlines`, `sent` | the bytes that `send()` took, which of them end a message, and whose they are |
| `read`, `start`, `lines` | what `recv()` returned, the beginning of the buffer in it, the lines handed on |
| `calls[t]` | a thread of the launcher in `client_send_json`, with what it has still to write |
| `edge`, `reading` | `epoll` is edge-triggered; `handle_client_read` is in its loop |
| `ClientSendJson`, `SendMore`, `SendLater`, `SendFails` | `client_send_json` with its retries |
| `SendToClient` | `send_to_client`: cut to the buffer, one `send()`, the rest dropped |
| `Wake`, `HandleClientRead`, `ReadNothing`, `ReadOverflow`, `TakeLine` | `handle_client_read` to `EAGAIN`, its overflow, `process_message` line by line |
| `ProcessMessages`, `ProcessNothing`, `PageLeaves` | `client_process_messages`, `client_disconnect` |

`dir` is the direction: the two have different writers and readers and share a module because a
stream of bytes with newlines lies between them. `Fortunes` and `LastDelivered` say what the stream
makes of each message, in the terms of `Channel`. A byte is its position; nothing else about it
matters. Bytes are sent in the order of the stream and are not lost (TCP); what gets lost is what
the two programs drop.

### Launcher

| model | code |
|---|---|
| `up`, `peer` | `is_connected` of the library, and whether the server's end is still there |
| `connected`, `stop`, `retrying` | `self.connected`, `_stop_event`, `_reconnect_active` |
| `poller`, `retrier`, `call[t]` | where the poll thread, the reconnect thread and the calls of pages are |
| `told` | the last status that a page was told |
| `Connect`, `ConnectSucceeds`, `ConnectFails`, `ConnectReturned`, `StartPollThread` | `connect` over `client_connect` |
| `Disconnect`, `Joined`, `Disconnected`, `DisconnectRefused` | `disconnect` with its `join` |
| `SendFails` | a `send` that finds the connection broken |
| `Poll...`, `StartReconnect`, `Retry...` | `_poll_loop`, `_start_reconnect`, `_reconnect_loop` |
| `muddled` | history: two calls overlapped that do not go together |

A step goes from one use of a shared field to the next, since the threads are real threads.

### Play

| model | code |
|---|---|
| `log`, `over` | `moves[]` and `active` of the match, as the server has them |
| `late` | `match_check_timeout`: the time of the player who is to move has run out |
| `bound`, `up` | the server knows the connection as the player's; the launcher has one |
| `requests`, `inbox` | what is on its way to the server and to the page (the launcher's queue included) |
| `page[p].board`, `.turn`, `.held` | the moves that `chessboard` shows, `chessboard.turn`, `curPiece` |
| `page[p].myTurn`, `.online`, `.connected` | `isMyTurn`, `isOnlineMode`, `bridge.connected` |
| `page[p].status` | `chessboard.status`, and no result covers the board |
| `page[p].local` | history: how many moves of the board were made without the server |
| `page[p].calls`, `.seq` | `pendingRequests`, and calls whose `send` has not returned; `seqCounter` |
| `page[p].polled`, `.jobs` | how many messages of a poll's batch are still to be handled; code behind an `await` that waits for its end |
| `at` in messages and jobs | history: how many moves the server had when it said so |
| `Click`, `Repick` | `executeMove` up to its `await`, `handleBoardClick` |
| `ClickOffline` | `executeMove` when `isOnlineMode` is false: the piece moves and nobody is told |
| `Resign`, `ResignCancelled` | the resign button with and without its confirmation; the first also the other ways to end the game |
| `Expire`, `Sweep` | the time runs out; `server_run` ends the match and tells both, or nobody if its array is full |
| `Call`, `SendReturns`, `TimeOut` | `CClientBridge.send`: the request, the late return of `pywebview.api.send`, the 10 s |
| `Poll`, `Handle...`, `Continue`, `After...` | `pollMessages`, `handleMessage`, and what runs behind each `await` |
| `Serve...` | `handle_move`, `handle_join_match`, `handle_resign`, `handle_game_over`, `handle_validate_token`, `handle_login` as the pages see them |
| `Lose`, `Reconnect` | the connection is lost with any suffix of what was sent, and is made again by the launcher |
| `astray` | history: the page has missed or mixed up something |

A page's script is one thread: a task, once begun, runs until it is over, and touches nothing but
its own page and its connection, so tasks of the two pages are not interleaved (`Settled`). What
is abstracted: a move is the colour of the piece moved, and whether it is the piece that the
server was told of; a board is the list of moves that it has shown, and shows a mate after `Mate`
of them. On a board that differs from the game an opponent's move finds any piece, or none.
Resigning costs two clicks, button and confirmation. An accepted draw and the button to leave are
as a resignation that does not lock the board. Tokens do not expire; that a token does not get
through is a time-out, after which the page tries the saved credentials (`"password"`,
`"repassword"`). The return of `send` may be late for moves (for other calls it is enough that
answers are late). Requests that a lost connection had not delivered are gone with it. A lapse
counts towards `MaxFaults`. A match that has lapsed can be joined again
(section 7); its copy takes no moves, and what the copy's own lapse sends is left out. Polls of one
page do not overlap, and a page whose game is over stays as it is: that it leaves for the lobby 5 s
after `showResult` is left out.

`astray` is what makes the properties sharp: it lists the ways in which the modelled code does lose
the game's thread (a message that does not come or comes at the wrong moment, a click while an
answer is awaited, while the page joins or when its game is over), and everything else must not.
`NeverAhead` holds of every page, astray or not, with its `local` moves set apart.

### MCMatches, MCLobby

The users and the sets that a `.cfg` cannot write: offers, ratings, habits and faults.

## 4. The runs

| run | instance | shows |
|---|---|---|
| `matches_safety` | 2 users, 2 slots, 2 moves, 2 ticks a move, an array of 1, `match_persist` failing at will, one boot, fairness | turns agree with moves (`TurnAgreesWithMoves`); a match that a player ended is final (`EndedByPlayerIsFinal`); no step changes an ended match (`EndedIsFrozen`), moves are paid with time (`ClockIsHonest`), accounts change with an end and only then (`PaidWithTheEnd`), handlers conserve points, winners gain and losers pay; lapses are queued as far as the array goes (`LapseIsQueued`); every match ends, also a copy that no request reaches (`EveryMatchEnds`) |
| `matches_crash` | 1 slot, 1 move, which is more than fits the archive (`MaxArchived` 0), rated or not, three boots | what a crash between any two statements leaves: `RunningMatchesAreListed`, `RowsOnlyAdvance`, `ListedUntilArchived` |
| `ladder` | two players for ever | `GapSaturates` (721) |
| `lobby_queue` | 3 users with one connection each, 1 room, no faults | `ReadyOnce`, `QueuedAreReady`, `WaitersAreApart`, `ReadyArePresent`, `RoomsOfThePresent` |
| `lobby_full` | 2 users, 2 connections, a list, a room and a challenge of one place, failing matches and messages, any habit (several connections, logout, another account on a connection), fairness | `SeatsAreKept`, `RoomStartsOnce`, `PlacesAreFreed` |
| `wire` | 2 threads, 3 messages of 2 or 4 bytes, buffers of 4, short sends | no buffer is overrun (`TypeOK`), lines are messages (`LinesAreMessages`), the stream implements `Channel` (`KeepsPromise`), what was written whole arrives (`EveryMessageArrives`) |
| `spectators` | 2 users, 2 connections, 2 tokens, 1 match with 2 places, expiry, failing statements, restarts | `StrangersHearNothing`, `AdmitsTheEntitled` (implements `Access`), `SeatsAsASet` (implements `Audience`), `OnlyTheHolderMoves` |
| `launcher` | 2 calls of pages, 2 attempts, 3 losses, fairness | `BeliefIsWatched`, `LossIsRetried` |
| `play` | 2 pages, black's still loading, 2 clicks, 1 fault, a mate after 2 moves, fairness | `TypeOK`; the boards follow the server's game (`BoardsAgree`) and never overtake it (`NeverAhead`); whose turn it is is known, and nobody plays on when the match is over (`TurnsAreKnown`); a mate is told (`MateIsTold`); nobody moves on a board that lags (`NobodyMovesBlind`); every wait ends (`EveryCallSettles`), every move is shown (`EveryMoveIsShown`), the end of the match, by a player or by time, is seen (`EndIsSeen`) |
| `matches_revived`, `matches_restore`, `lobby_unqueued` | small | the three disagreements of section 7 |

Every property of a passing run has a mutant in `PROJECT.json`: a plausible mistake in one
definition (`PersistedOnce`, `FoundEvenEnded`, `KeptOne`, `AfterRejoinAnew`, ...) that makes TLC
find the property violated under the same configuration. The mutants stand in the modules just
before the definition they replace. The type invariants of `Matches`, `Lobby`, `Spectators` and
`Launcher`, and `UsedSlotsArePrefix`, `CopiesFollowALapse`, `PointsConserved`, `PairedOnce` and
`DrawsNeverOvertake`, are left to the proofs of section 6, which cover every instance.

**Bounds.** *Matches*: two slots are enough for a match and its revived copy, or for two matches
that lapse in one sweep, of which the array of one takes only one. Two moves let each side move once
and hit `MaxMoves`. Two ticks a move separate "some time used" from "no time left"; a sweep period
of one tick still lets a move arrive after the lapse and before the sweep. Three boots let a crash
follow a crash, with a revived match in between. `MaxArchived` is one less than `MaxMoves` in both
runs, so that games that fit the archive and one that does not are there. *Lobby*: three users with
ratings 1200, 1350 and 1500 have two pairs within the tolerance of 200 and one beyond it; a list of
one is full with the second user; two connections are one for each user, or two of one of them, and
a connection that goes to the other account leaves an entry of somebody who is gone. The third user
and these habits are not in one run because the instance would be too large, and because what
waiting users are promised does not hold with such habits (`lobby_unqueued`); for the ready list and
the rooms section 6 has every combination, with reads of the account that fail, which no run has:
the liveness of `lobby_full` would take too long. *Wire*: a message of four bytes fills a buffer
with its newline missing and is cut or overflows, one of two fits; three messages let one be damaged
between two others. *Spectators*: two users and two places fill the array, with the place of those
without a token a third wants in; a life of one tick in a time of two has valid, expired and
cleaned-up sessions side by side. *Launcher*: two calls are the page that is left and the next;
three losses let one come during the retry of another. *Play*: two clicks are two moves, up to the
mate, or a move and a resignation, or a second click while the first is awaited, or a move and a
click when the game is over; one fault is one late answer, one early answer, one lost connection or
one lapse. That one page loads is enough, since a page may load before or after all else.
`MaxBoots`, `MaxSent`, `MaxTime`, `MaxUsers`, `MaxLosses`, `MaxClicks` and `MaxFaults` are bounds of
the models; the others are limits of the program, made small. Where numbers might matter beyond this
the theorems of section 6 take over.

Deadlock is checked in every run but two: in `wire` a closed connection is the end, and in `play`
the game may be over and the clicks used up. The server itself never stops.

## 5. Fairness

| specification | weak fairness of | why the code justifies it |
|---|---|---|
| `Matches!FairSpec` | `Tick`, `Sweep`, `Settle` | time passes; `epoll_wait` has a time-out of one second (`server.c:346`), after which the loop comes to the sweep, whose settlement is a plain `for` |
| `Lobby!FairSpec` | each `Expire`, `CleanUp` | time, and the same loop (`server.c:441`) |
| `Wire!FairSpec` | `ServerReads`, `PageReads`, `TakeLine` | the server comes back to `epoll_wait`, the launcher polls every 10 ms, both split what they have read before they read on |
| `Launcher!FairSpec` | each call, `Poll`, `Retry` | threads go on; `client_connect` gives up after 5 s; waits are for 0.01 s and 5 s |
| `Play!FairSpec` | `Serve`; `Sweep`; `Poll`, `Handle`, `Continue` of a page; `SendReturns`, `TimeOut` | the server's loop, which comes to its sweep because `epoll_wait` has a time-out; the page's event loop with a poll every 50 ms; the launcher's answer to a call and the timer of 10 s |

No request, crash, loss or reconnection is ever assumed to happen, nor, in `Play`, a lapse. Fairness
ignores a handler that blocks for ever in an ODBC call, which would stop the whole server.

## 6. The proofs

The assumptions are the named ones of the modules: constants are numbers of the right kind, sets
of users non-empty or disjoint from the markers. Nothing is assumed about the sizes, and
`DbFaults`, `Faults`, `Habits` and `ShortSends` are arbitrary except where a property's own formula
restricts them, or a theorem (`QueuedTheorem`, `ApartTheorem`) its hypotheses.

**Rating, Ladder.** `RatingChangeZeroSum`: red's change is minus black's, for all ratings, because
the thresholds are symmetric (`Threshold[33-g] = -Threshold[g] - 1`), whence
`WinGain(d) + WinGain(-d) = 32`. `WinnerDoesNotPay`. The sum of the two ratings is an invariant of
the ladder, and from more than 719 points ahead a win pays nothing, so the gap stops at 721:
`PointsTheorem`, `GapTheorem`; `DrawsTheorem` compares what a draw moves with half the gap, for
every gap below the bound.

**Matches.** The inductive invariant is `IInv == TypeOK /\ TurnAgreesWithMoves /\ Bookkeeping`. The
properties of the runs are not inductive by themselves: that match_create's id is fresh needs that
every id in a slot or a row was counted (`IdsAreCounted`); that the first free slot is
`match_count + 1` needs that free slots are blank; that a handler's `End` leaves no copy behind
needs that two slots share an id only if the earlier one has ended (`CopiesAreUnreachable`); that
no row is left needs that rows follow the slots. `Bookkeeping` is the conjunction of these with the
properties themselves. Steps are grouped by what they do to slots: keep them (`KeptBookkeeping`),
or fill the first free one (`PlacedBookkeeping`); each action is then shown to be of one kind.
From `Invariance` follow `TypeCorrect`, `TurnsAgree`, `PrefixTheorem`, `ListedTheorem`,
`FinalTheorem`, `CopiesTheorem`. `FrozenTheorem` and `ClockTheorem` are action properties, which
use the same invariant and a case analysis of what a step does to one used slot (`SlotStep`).
`PaidTheorem`, `ConserveTheorem` and `WinnersTheorem` add what a settlement does to the accounts,
and rest on the theorems about `Rating`.

The rows have an invariant of their own on top, `RowsAreBehind` (`BehindTheorem`): an id has one
row, and the running slot that a request finds under it has at least the row's moves and has lost
at least as many. Without it `AdvanceTheorem` would fail at the `INSERT` of a copy that is behind;
with it `match_persist` never takes a row back, whatever statements fail. `ArchivedTheorem` follows
each crash through the prefixes of a handler's statements: the row goes only after the archive has
the match, or between the two statements of `match_persist`, or if the game is longer than
`MaxArchived`; that the row tells how long the game is comes from `RunningMatchesAreListed` and
`RowsAreBehind`. `LapseTheorem` counts: a lapse found
by the sweep is in the array unless the array is full.

**Lobby.** `LobbyTypeCorrect`, `ReadyOnceTheorem`, `PairedOnceTheorem`, `SeatsTheorem`,
`RoomStartsTheorem`, `ReadyPresentTheorem`, `RoomsPresentTheorem`. The heart is that every step
either leaves the ready list or applies `Without`, `Listed` or what a search makes of them
(`StepOfList`), and that each keeps a list short and free of repetitions (`GoodList`). Presence is
inductive together with the types, as long as connections are not taken over (and, for rooms,
nobody logs out).

`QueuedTheorem` and `ApartTheorem` say what a waiting user is promised, for any number of users and
any ratings, and name what it takes. `RoomForAll`: the list has a place for every user, since a user
who does not fit is told that he is queued all the same. No habit `"switch"` or `"several"`: with
the first there is `lobby_unqueued`, with the second the close of one connection takes a user off
the list who waits on another. `"create"` and `"read"` are not among the faults: if `match_create`
fails, the opponent who was found has left the list without a word, and a user whose account cannot
be read is told that he is queued, and is not listed. `ApartTheorem` also excludes the failing send,
after which a match is rolled back and its two players stand in the list side by side; without
failing reads the ratings in the list are those of the accounts (`RatingsStayNoted`). The invariant
is `WaitingInv`: types, a good list, everybody in it connected, one connection for a user, and
`QueuedAreReady` itself; that two in the list do not fit follows from what a search that finds
nobody has looked at (`WhoComesToWait`).

**Wire.** `WireTypeCorrect`, `LinesCarryMessages`. That a line is a message is inductive only with
the order of everything in the stream: messages lie one behind the other, except where a thread
continues one behind another's bytes (`MessagesAreInPlace`); a newline is the last byte of a
message that is done (`NewlinesEndMessages`); a thread in `client_send_json` continues a message
that is not done (`CallsAreInOrder`); the server's messages are never continued (`DownIsWhole`).

`PromiseIsKept`: the stream implements `Channel`, which offers messages, spoils or resolves each
once, and delivers the good ones in their order. `PInv` adds to the invariant that messages which
no other has torn lie in the order of their numbers (`MessagesAreInOrder`), that every line ends
before the beginning of the buffer (`LinesAreBehind`), that a good message which that beginning
has passed was delivered (`PassedAreDelivered`), and that `LastDelivered` is the last of those
(`LastIsKnown`). So at most one message is undecided (`OnePending`), and each step of the program
maps to one step of `Channel` or to none.

**Spectators.** `SpectatorsTypeCorrect`, `StrangersAreLeftOut`, `HoldersMoveThemselves`, and two
refinements, `SeatsAreASet` and `TheEntitledAreAdmitted`: the initial states map to initial states
and every step to a step or a stutter of `Audience` and `Access`. The invariant says that a token
in the table was drawn (so that a login's is new), that a stranger's entry has no user, and that
the entries of an array differ, from which its removal by shifting is the removal from a set.

**Launcher.** `LauncherTypeCorrect`, `BeliefTheorem`, from what `IInv` says of the threads as long
as calls that do not go together have not come together: at most one call is on its way, the stop
event is set only by a disconnection, a retry goes with a poll thread, and the poll thread knows
that there was a connection to lose.

**Play.** All safety properties, for any number of clicks and faults and any place of the mate;
nothing is assumed but `PlayAssumption`. There are four invariants, each resting on those before it:

1. `TypeOK` (`TypeTheorem`).
2. `QueuesOK` (`QueuesTheorem`) holds of every page, astray or not. Dated by `at`, what a page
   shows, what its jobs owe it and what its inbox carries are in this order and are moves of the
   game (`Room`, `Timely`, `Ordered`, `Ahead`). Requests, answers and calls belong together by
   their sequence numbers (`CallOK`), and a job has what its call is to make of the answer
   (`JobsFit`). `NeverAheadTheorem` counts these moves: they are different ones, so there are no
   more of them than the server has, besides the `local` ones, which are counted apart.
3. `FollowsOK` (`FollowsTheorem`) holds of a page that is not astray: there the three queues are
   also complete. The board is the beginning of the game (`Prefix`), every later move is owed or
   carried (`Covered`), a page asks for a move only if it has all others (`AsksNext`), and it
   knows the turn on what it shows (`Turned`, `Knows`, `Rejoined`) and has been told of the end, or
   will be (`Warned`). `BoardsAgreeTheorem` is this
   with the order of 2. `ColoursTheorem` follows the colours of the moves through it, which the
   server does not check, and `BlindTheorem` (an action property) and `TurnsTheorem` conclude.
4. `CalmsOK` (`CalmsTheorem`): without faults, a board that has stopped because of a mate has its
   report on the way until the match has ended. `MateTheorem` is that when nothing is on the way.

The steps are grouped by what they do to one page's queues (`Grows`, `Settles`, `Runs`, `Rests`,
...); lemmas say which group an action belongs to and what a group does to each part.

**Only model-checked:** liveness (`EveryMatchEnds`, `PlacesAreFreed`, `EveryMessageArrives`,
`LossIsRetried`, `EveryCallSettles`, `EveryMoveIsShown`, `EndIsSeen`), which needs fairness and
ENABLED and is out of the prover's reach, and the three violations of section 7. Every safety
property, refinement included, of every passing run is a theorem. There are no RECURSIVE operators.

## 7. Where program and texts part

* **A lapsed match can be joined again** (`matches_revived`). Neither the sweep nor its settlement
  deletes the row of `active_matches`, so a request to join a match that has lapsed and been settled
  loads it into a new slot, running, instead of answering "Match not found or ended". (While the
  first copy is in memory nobody can play the second, since `match_get` finds the first:
  `CopiesFollowALapse`.)
* **A restored match is archived without its earlier moves** (`matches_restore`).
* **"Keeping user queued" does not** (`lobby_unqueued`). When the opponent found is not connected,
  both have already left the list. It takes an entry of somebody who is gone, which a connection
  that changes its user leaves behind.

Seen while modelling, in the models, and without a run of their own:

* *matches and lobby*: a game of more than 159 moves is not archived, and its row is deleted all the
  same; a lapsed match that is joined again lapses again, and is charged for again; a match that is
  rolled back keeps its row, and can be joined; the close of one of a user's connections takes him
  off the list and out of his rooms although he is connected elsewhere; logging out leaves one's
  rooms behind; a host can join his own room and play himself; a challenge can be accepted until it
  expires, each time for a new match; the list does not record whether a waiting user asked for a
  rated match; if `match_create` fails the opponent leaves the list without being told; a user whose
  account cannot be read is answered "Queued for match", and is not listed; the settlement of a
  timeout overwrites both players' statistics with 1-0-0 and 0-1-0.
* *spectators*: places are given up by their holders only, so those of users who are gone stay
  taken until the match is forgotten.
* *launcher*: `disconnect()` during a retry ends the reconnect thread and leaves
  `_reconnect_active` set, after which no loss is repaired; a loss by a failing `send` before the
  poll thread's first look is not noticed; the `disconnect` of a page that is left is not awaited
  and may come after the next page's `connect`. `muddled` is true from then on.
* *pages*: a page that loads after the opponent's first move never shows it; its board then lets
  the opponent's pieces be moved, which the server takes, and the opponent's page is locked out. A
  page whose move is accepted after the 10 s, or before the request was registered, does not show
  it. The piece that moves when the answer comes is the one held then, not the one that was asked
  for. A stale `is_my_turn` of an answer overwrites what a move in the same poll has set. After a
  reconnection the turn is asked for, the moves are not. A page that hears of the end while it still
  joins lets its player go on moving pieces, of which nobody hears. `astray` is true of such a page.
  A lapse beyond the array of the sweep is told to nobody. A resignation that is not confirmed
  leaves the board locked.

## 8. What is not modelled

* **Board and pieces** (`client/src/core/board.js`, `client/src/pieces`): pure functions of a board
  of 90 squares without state, failure or concurrency; the server does not know them, and `Play`
  needs only that a move is of one colour and that a mate ends the game.
* **Pages and rendering**, the lobby, login and replay pages, the page of a spectator, the clocks
  that a page shows, chat windows, rematch dialogues: layout and wiring over the calls that `Play`
  has.
* **The scan of JSON** (`protocol.c`) character by character: it keeps no state, and the handlers'
  inputs are small sets here. That the scan counts braces within strings is listed as a hazard.
* **Dispatch and read-only handlers**: a table from type to handler; leaderboard, history, live
  matches, profile, timer queries and draw offers change no state of the server.
* **`account.c`**, which no handler calls, and the send buffer behind `client_send`, which only the
  answer to a text that is no JSON goes through, and which is never written out.
* **ODBC and sockets as such**, hashing of passwords, logging. The heartbeat of a page and of the
  server changes nothing but a log.
