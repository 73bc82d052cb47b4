--------------------------------- MODULE Play ---------------------------------
(***************************************************************************)
(* The pages of the two players of one match, and the server between them: *)
(* executeMove sends a move, awaits the answer and only then moves the     *)
(* piece; the opponent's page moves it when it is told.                    *)
(*                                                                         *)
(* A page runs one task at a time.  A poll takes what the launcher has     *)
(* queued and handles it message by message; the code behind an "await"    *)
(* that a message resolves runs after the last message of the poll.        *)
(*                                                                         *)
(* A move is the colour of the piece that moves, and whether it is the     *)
(* piece that the server was asked to move; a board is the moves that it   *)
(* has shown.  The transport between server and launcher is one queue in   *)
(* each direction (see Wire and Launcher for what it is made of).          *)
(***************************************************************************)
EXTENDS Naturals, Sequences, FiniteSets

CONSTANTS None,       \* no move
          Mate,       \* a board shows a mate after so many moves
          Loading,    \* the players whose page still loads at the beginning
          MaxMoves,   \* MAX_MOVES (300)
          MaxClicks,  \* bound: how often the players use the mouse
          MaxFaults   \* bound: how often a connection is lost, an answer is late or the time
                      \* of a player runs out

Colors == {"red", "black"}
Pieces == {"asked", "another"}
Moves == [color : Colors, piece : Pieces]

ASSUME PlayAssumption ==
    /\ None \notin Moves /\ Loading \subseteq Colors
    /\ Mate \in Nat \ {0} /\ MaxMoves \in Nat /\ MaxClicks \in Nat /\ MaxFaults \in Nat

VARIABLES
    log,        \* the moves the server has
    over,       \* the match has ended
    late,       \* the time of the player who is to move has run out
    bound,      \* bound[p]: the server knows p's connection as p's
    up,         \* up[p]: p's launcher has a connection
    requests,   \* requests[p]: what p's page sent and the server has not read
    inbox,      \* inbox[p]: what was sent to p and its page has not handled
    page,       \* page[p]: the scripts of p's page
    clicks, faults,   \* what the bounds count
    astray      \* history: p's page has missed or mixed up something, see Stray

vars == <<log, over, late, bound, up, requests, inbox, page, clicks, faults, astray>>

Other(c) == IF c = "red" THEN "black" ELSE "red"

\* Who moves after n moves.
Mover(n) == IF n % 2 = 0 THEN "red" ELSE "black"
Awaited == Mover(Len(log))

(***************************************************************************)
(* Requests, messages, calls.  A call is a request whose answer some code  *)
(* awaits; "sent" says that the await of its sending is over, so that it   *)
(* stands in pendingRequests.                                              *)
(***************************************************************************)
Request(kind, move, seq) == [kind |-> kind, move |-> move, seq |-> seq]
EndRequest == Request("end", None, 0)     \* resign, game_over: their answer changes nothing

\* move: the move that is accepted, or that the opponent made; mine: whose turn it is, for all
\* the answer says; at (history): how many moves the server had when it said so.
Answer(seq, ok, move, mine, at) ==
    [kind |-> "answer", seq |-> seq, ok |-> ok, move |-> move, mine |-> mine, at |-> at]
Notice(kind, move, at) ==
    [kind |-> kind, seq |-> 0, ok |-> FALSE, move |-> move, mine |-> FALSE, at |-> at]
OpponentMove(move, at) == Notice("opponent_move", move, at)
GameEnd == Notice("game_end", None, 0)
Status(status) == Notice(status, None, 0)   \* connection_status, from the launcher

PageCall(seq, kind, move, sent) == [seq |-> seq, kind |-> kind, move |-> move, sent |-> sent]

\* online: isOnlineMode; status: the board takes clicks (chessboard.status, and no result covers
\* it); local (history): how many moves of the board were made without the server; polled: how
\* many messages of the inbox the poll under way is still to handle.
FreshPage(p) ==
    [where |-> "loading", online |-> TRUE, connected |-> TRUE, myTurn |-> p = "red",
     status |-> TRUE, turn |-> "red", board |-> <<>>, local |-> 0, held |-> None, seq |-> 2,
     polled |-> 0, jobs |-> <<>>, calls |-> {PageCall(1, "login", None, TRUE)}]
LoadedPage(p) == [FreshPage(p) EXCEPT !.where = "playing", !.calls = {}]
LeftPage(p) ==
    [FreshPage(p) EXCEPT !.where = "left", !.online = FALSE, !.connected = FALSE, !.calls = {}]

Init ==
    /\ log = <<>> /\ over = FALSE /\ late = FALSE
    /\ bound = [p \in Colors |-> p \notin Loading] /\ up = [p \in Colors |-> TRUE]
    /\ requests = [p \in Colors |-> IF p \in Loading THEN <<Request("login", None, 1)>> ELSE <<>>]
    /\ inbox = [p \in Colors |-> <<>>]
    /\ page = [p \in Colors |-> IF p \in Loading THEN FreshPage(p) ELSE LoadedPage(p)]
    /\ clicks = 0 /\ faults = 0 /\ astray = [p \in Colors |-> FALSE]

(***************************************************************************)
(* A page goes astray when                                                 *)
(*   - the opponent's move, the end of the game or the acceptance of its   *)
(*     own move does not reach it: the connection is lost, the server does *)
(*     not know it yet, the page still loads, the answer comes before its  *)
(*     sending has returned or after 10 s;                                 *)
(*   - the opponent's move is handled between an answer and the code that  *)
(*     awaits the answer, or before setupBoard;                            *)
(*   - the match ends by time in a sweep that ends too many to tell of all;*)
(*   - its player clicks while the answer to a move is awaited, before the *)
(*     page has joined the match, or when the game is over for the page    *)
(*     and the board still takes clicks;                                   *)
(*   - it is left.                                                         *)
(* Nothing else may part a page from the game: that is what the properties *)
(* say.                                                                    *)
(***************************************************************************)
Stray(p, cond) == astray' = [astray EXCEPT ![p] = @ \/ cond]

\* A task of a page touches nothing of the others': they wait for its end.
Settled == \A q \in Colors : page[q].polled = 0 /\ page[q].jobs = <<>>

(***************************************************************************)
(* The server.  A notification goes to a user whose connection is known;   *)
(* otherwise nobody hears of it.                                           *)
(***************************************************************************)
Answered(p, answer) == [inbox EXCEPT ![p] = Append(@, answer)]
Notified(box, q, notice) == IF bound'[q] THEN [box EXCEPT ![q] = Append(@, notice)] ELSE box

ServeLogin(p, r) ==
    /\ r.kind \in {"login", "password", "relogin", "repassword"}
    /\ inbox' = Answered(p, Answer(r.seq, TRUE, None, FALSE, Len(log)))
    /\ UNCHANGED <<log, over, astray>>

\* A match that has lapsed may be loaded again from its row and joined: a copy, which no move
\* reaches.  (That the copy lapses, too, tells both a second time, and is left out.)
ServeJoin(p, r) ==
    /\ r.kind \in {"join", "rejoin"}
    /\ \E ok \in BOOLEAN :
         /\ IF over THEN ok => late ELSE ok
         /\ inbox' = Answered(p, Answer(r.seq, ok, None, Awaited = p, Len(log)))
    /\ UNCHANGED <<log, over, astray>>

\* "Not your turn", "Time expired", "Failed to add move".
ServeMoveRefused(p, r) ==
    /\ r.kind = "move"
    /\ Awaited # p \/ over \/ late \/ Len(log) >= MaxMoves
    /\ inbox' = Answered(p, Answer(r.seq, FALSE, None, Awaited = p, Len(log)))
    /\ UNCHANGED <<log, over, astray>>

\* Mutant of ServeMoveAccepted: whose turn it is is not looked at.
ServeMoveOutOfTurn(p, r) ==
    /\ r.kind = "move"
    /\ ~over /\ ~late /\ Len(log) < MaxMoves
    /\ log' = Append(log, r.move)
    /\ inbox' = Notified(Answered(p, Answer(r.seq, TRUE, r.move, FALSE, Len(log'))),
                         Other(p), OpponentMove(r.move, Len(log')))
    /\ astray' = [astray EXCEPT ![Other(p)] = @ \/ ~bound[Other(p)]]
    /\ UNCHANGED over

ServeMoveAccepted(p, r) ==
    /\ r.kind = "move"
    /\ Awaited = p /\ ~over /\ ~late /\ Len(log) < MaxMoves
    /\ log' = Append(log, r.move)
    /\ inbox' = Notified(Answered(p, Answer(r.seq, TRUE, r.move, FALSE, Len(log'))),
                         Other(p), OpponentMove(r.move, Len(log')))
    /\ astray' = [astray EXCEPT ![Other(p)] = @ \/ ~bound[Other(p)]]
    /\ UNCHANGED over

ServeEnd(p, r) ==
    /\ r.kind = "end"
    /\ over' = TRUE
    /\ inbox' = IF over THEN inbox
                ELSE Notified(Notified(inbox, "red", GameEnd), "black", GameEnd)
    /\ astray' = [q \in Colors |-> astray[q] \/ (~over /\ ~bound'[q])]
    /\ UNCHANGED log

\* Any request carries the token, by which the server knows whose connection it is
\* (REQUIRE_AUTH in handlers_common.h); no token expires here.
Serve(p) ==
    /\ Settled /\ requests[p] # <<>>
    /\ requests' = [requests EXCEPT ![p] = Tail(@)]
    /\ bound' = [bound EXCEPT ![p] = TRUE]
    /\ LET r == Head(requests[p]) IN
         \/ ServeLogin(p, r) \/ ServeJoin(p, r) \/ ServeEnd(p, r)
         \/ ServeMoveRefused(p, r) \/ ServeMoveAccepted(p, r)
    /\ UNCHANGED <<late, up, page, clicks, faults>>

\* The clock of the player who is to move comes to its end: match_check_timeout says so from now
\* on.
Expire ==
    /\ Settled /\ ~over /\ ~late /\ faults < MaxFaults
    /\ late' = TRUE /\ faults' = faults + 1
    /\ UNCHANGED <<log, over, bound, up, requests, inbox, page, clicks, astray>>

\* Mutant of Sweep: only one player is told.
SweepTellsRed ==
    /\ Settled /\ late /\ ~over
    /\ over' = TRUE
    /\ UNCHANGED <<log, late, bound, up, requests, page, clicks, faults>>
    /\ \E told \in BOOLEAN :
         /\ inbox' = IF told THEN Notified(inbox, "red", GameEnd) ELSE inbox
         /\ astray' = [q \in Colors |-> astray[q] \/ ~told \/ ~bound[q]]

\* server_run ends the match and tells both - unless match_check_timeouts has ended so many at
\* once that this one is beyond the array.
Sweep ==
    /\ Settled /\ late /\ ~over
    /\ over' = TRUE
    /\ UNCHANGED <<log, late, bound, up, requests, page, clicks, faults>>
    /\ \E told \in BOOLEAN :
         /\ inbox' = IF told THEN Notified(Notified(inbox, "red", GameEnd), "black", GameEnd)
                     ELSE inbox
         /\ astray' = [q \in Colors |-> astray[q] \/ ~told \/ ~bound[q]]

(***************************************************************************)
(* The bridge of a page.                                                   *)
(***************************************************************************)
Requested(p, r) == IF up[p] THEN [requests EXCEPT ![p] = Append(@, r)] ELSE requests

\* A page that awaits one call more.
Awaiting(pg, c) == [pg EXCEPT !.calls = @ \cup {c}, !.seq = @ + 1]

\* Mutant of Call: the sequence number is not counted up.
CallAgain(p, pg, kind, move) ==
    /\ page' = [page EXCEPT ![p] =
                  [pg EXCEPT !.calls = @ \cup {PageCall(pg.seq, kind, move, TRUE)}]]
    /\ requests' = Requested(p, Request(kind, move, pg.seq))
    /\ UNCHANGED faults

\* sendAndWait from a page that is otherwise pg.  A send that fails is a request that nobody
\* answers.  The await of the sending may return late
\* (for a move: to lose the other answers it is enough that they come late).
Call(p, pg, kind, move) ==
    /\ \E sent \in BOOLEAN :
         /\ ~sent => kind = "move" /\ faults < MaxFaults
         /\ faults' = IF sent THEN faults ELSE faults + 1
         /\ page' = [page EXCEPT ![p] = Awaiting(pg, PageCall(pg.seq, kind, move, sent))]
    /\ requests' = Requested(p, Request(kind, move, pg.seq))

\* The page goes to the lobby or to the login, and the connection with it.
Left(p) ==
    /\ page' = [page EXCEPT ![p] = LeftPage(p)]
    /\ up' = [up EXCEPT ![p] = FALSE] /\ bound' = [bound EXCEPT ![p] = FALSE]
    /\ requests' = [requests EXCEPT ![p] = <<>>] /\ inbox' = [inbox EXCEPT ![p] = <<>>]
    /\ Stray(p, TRUE)
    /\ UNCHANGED faults

SendReturns(p, c) ==
    /\ Settled /\ c \in page[p].calls /\ ~c.sent
    /\ page' = [page EXCEPT ![p].calls = (@ \ {c}) \cup {[c EXCEPT !.sent = TRUE]}]
    /\ UNCHANGED <<log, over, late, bound, up, requests, inbox, clicks, faults, astray>>

Poll(p) ==
    /\ Settled
    /\ \E n \in 1 .. Len(inbox[p]) : page' = [page EXCEPT ![p].polled = n]
    /\ UNCHANGED <<log, over, late, bound, up, requests, inbox, clicks, faults, astray>>

\* What a call awaits has come: its code runs on after the poll.
Resolved(pg, c, answer) ==
    [pg EXCEPT !.calls = @ \ {c},
               !.jobs = Append(@, [call |-> c, ok |-> answer.ok, mine |-> answer.mine,
                                   at |-> answer.at])]

Underway(p, c) ==
    \/ \E i \in 1 .. Len(requests[p]) : requests[p][i].seq = c.seq
    \/ \E i \in 1 .. Len(inbox[p]) : inbox[p][i].kind = "answer" /\ inbox[p][i].seq = c.seq

\* Mutant of TimeOut: only while an answer can be expected.
TimeOutIfUnderway(p, c) ==
    /\ Settled /\ c \in page[p].calls /\ c.sent
    /\ Underway(p, c) /\ faults < MaxFaults
    /\ faults' = faults + 1
    /\ page' = [page EXCEPT ![p] = Resolved(@, c, Answer(c.seq, FALSE, None, TRUE, 0))]
    /\ Stray(p, c.kind = "move")
    /\ UNCHANGED <<log, over, late, bound, up, requests, inbox, clicks>>

\* Nobody answers within 10 s, or the answer comes later than that.
TimeOut(p, c) ==
    /\ Settled /\ c \in page[p].calls /\ c.sent
    /\ faults' = faults + (IF Underway(p, c) THEN 1 ELSE 0) /\ faults' =< MaxFaults
    /\ page' = [page EXCEPT ![p] = Resolved(@, c, Answer(c.seq, FALSE, None, TRUE, 0))]
    /\ Stray(p, c.kind = "move" /\ Underway(p, c))
    /\ UNCHANGED <<log, over, late, bound, up, requests, inbox, clicks>>

(***************************************************************************)
(* The board.                                                              *)
(***************************************************************************)
\* super.executeMove: the held piece moves, whatever was asked of the server.
Executed(pg, m) ==
    LET board == Append(pg.board, m) IN
    [pg EXCEPT !.board = board, !.turn = Other(@), !.held = None,
               !.status = @ /\ Len(board) < Mate, !.online = @ /\ Len(board) < Mate]

\* Mutant of Reported: it is left to the side that is to move, which has lost.
ReportedByLoser(p, pg) ==
    IF page[p].online /\ ~pg.online /\ page[p].connected /\ pg.turn = p
    THEN Requested(p, EndRequest) ELSE requests

\* A board that shows a mate reports it.
Reported(p, pg) ==
    IF page[p].online /\ ~pg.online /\ page[p].connected THEN Requested(p, EndRequest) ELSE requests

Agrees(pg, at) == pg.board = SubSeq(log, 1, at - 1)

(***************************************************************************)
(* Handling one message of a poll.                                         *)
(***************************************************************************)
HandleAnswer(p, m, pg) ==
    /\ m.kind = "answer"
    /\ \/ \E c \in pg.calls :
            /\ c.seq = m.seq /\ c.sent
            /\ page' = [page EXCEPT ![p] = Resolved(pg, c, m)]
            /\ UNCHANGED astray
       \/ /\ \A c \in pg.calls : ~(c.seq = m.seq /\ c.sent)
          /\ page' = [page EXCEPT ![p] = pg]
          /\ Stray(p, m.move # None)
    /\ UNCHANGED <<requests, up, bound, faults>>

\* While it loads, the page has no listeners.
HandleUnheard(p, m, pg) ==
    /\ m.kind \in {"opponent_move", "game_end"} /\ pg.where = "loading"
    /\ page' = [page EXCEPT ![p] = pg]
    /\ Stray(p, TRUE)
    /\ UNCHANGED <<requests, up, bound, faults>>

\* Mutant of HandleOpponentMove: not while a request is pending.
HandleMoveIfFree(p, m, pg) ==
    /\ m.kind = "opponent_move" /\ pg.where # "loading"
    /\ LET next == IF pg.calls # {} THEN pg
                   ELSE [Executed([pg EXCEPT !.turn = m.move.color], m.move)
                           EXCEPT !.myTurn = TRUE] IN
         /\ page' = [page EXCEPT ![p] = next]
         /\ requests' = Reported(p, next)
    /\ Stray(p, pg.jobs # <<>> \/ pg.where = "joining")
    /\ UNCHANGED <<up, bound, faults>>

\* On a board that differs any piece may stand where the opponent's stood, or none.
HandleOpponentMove(p, m, pg) ==
    /\ m.kind = "opponent_move" /\ pg.where # "loading"
    /\ \E found \in IF Agrees(pg, m.at) THEN {m.move} ELSE Moves \cup {None} :
         LET next == IF found = None THEN [pg EXCEPT !.myTurn = @ \/ pg.where = "playing"]
                     ELSE [Executed([pg EXCEPT !.turn = found.color], found)
                             EXCEPT !.myTurn = TRUE] IN
         /\ page' = [page EXCEPT ![p] = next]
         /\ requests' = Reported(p, next)
    /\ Stray(p, pg.jobs # <<>> \/ pg.where = "joining")
    /\ UNCHANGED <<up, bound, faults>>

\* showResult covers the board; it is not called before setupNetworkListeners of the page, behind
\* the join.
HandleGameEnd(p, m, pg) ==
    /\ m.kind = "game_end" /\ pg.where # "loading"
    /\ page' = [page EXCEPT ![p] = [pg EXCEPT !.online = FALSE, !.myTurn = FALSE,
                                              !.status = @ /\ pg.where # "playing"]]
    /\ UNCHANGED <<requests, up, bound, faults, astray>>

HandleStatus(p, m, pg) ==
    \/ /\ m.kind = "reconnecting"
       /\ page' = [page EXCEPT ![p] = [pg EXCEPT !.connected = FALSE]]
       /\ UNCHANGED <<requests, up, bound, faults, astray>>
    \/ /\ m.kind = "reconnected"
       /\ Call(p, [pg EXCEPT !.connected = TRUE], "relogin", None)
       /\ UNCHANGED <<up, bound, astray>>

Handle(p) ==
    /\ page[p].polled > 0
    /\ inbox' = [inbox EXCEPT ![p] = Tail(@)]
    /\ LET m == Head(inbox[p])
           pg == [page[p] EXCEPT !.polled = @ - 1] IN
         \/ HandleAnswer(p, m, pg) \/ HandleUnheard(p, m, pg) \/ HandleOpponentMove(p, m, pg)
         \/ HandleGameEnd(p, m, pg) \/ HandleStatus(p, m, pg)
    /\ UNCHANGED <<log, over, late, clicks>>

(***************************************************************************)
(* What runs behind an await, after the last message of the poll.          *)
(***************************************************************************)
\* reloginAfterReconnect, here on connect: when the token does not get through, the saved
\* credentials, if there are any.  connectToServer sets the listeners, whatever became of it.
AfterLogin(p, j, pg) ==
    /\ \/ j.call.kind \in {"login", "password"}
          /\ Call(p, [pg EXCEPT !.where = "joining"], "join", None)
       \/ j.call.kind = "login" /\ ~j.ok /\ Call(p, pg, "password", None)
    /\ UNCHANGED <<up, bound, inbox, astray>>

\* setupBoard: the pieces go back to where they stood at the beginning.
AfterJoin(p, j, pg) ==
    /\ j.call.kind = "join"
    /\ page' = [page EXCEPT ![p] =
                 [pg EXCEPT !.where = "playing", !.myTurn = IF j.ok THEN j.mine ELSE @,
                            !.status = TRUE, !.board = <<>>, !.local = 0, !.turn = "red",
                            !.held = None]]
    /\ UNCHANGED <<requests, up, bound, inbox, faults, astray>>

\* reloginAfterReconnect again, in handleConnectionStatus.
AfterRelogin(p, j, pg) ==
    /\ j.call.kind \in {"relogin", "repassword"}
    /\ \/ /\ j.ok /\ pg.where = "playing"
          /\ Call(p, pg, "rejoin", None)
          /\ UNCHANGED <<up, bound, inbox, astray>>
       \/ /\ j.ok /\ pg.where # "playing"
          /\ page' = [page EXCEPT ![p] = pg]
          /\ UNCHANGED <<requests, up, bound, inbox, faults, astray>>
       \/ /\ j.call.kind = "relogin" /\ ~j.ok
          /\ Call(p, pg, "repassword", None)
          /\ UNCHANGED <<up, bound, inbox, astray>>
       \/ ~j.ok /\ Left(p)

\* Mutant of AfterRejoin: the board is set up again, as when the page is loaded.
AfterRejoinAnew(p, j, pg) ==
    /\ j.call.kind = "rejoin"
    /\ \/ /\ j.ok
          /\ page' = [page EXCEPT ![p] = [pg EXCEPT !.myTurn = j.mine, !.status = TRUE,
                                                    !.board = <<>>, !.local = 0,
                                                    !.turn = "red", !.held = None]]
          /\ UNCHANGED <<requests, up, bound, inbox, faults, astray>>
       \/ ~j.ok /\ Left(p)

\* The turn is asked for again, the board is not.
AfterRejoin(p, j, pg) ==
    /\ j.call.kind = "rejoin"
    /\ \/ /\ j.ok
          /\ page' = [page EXCEPT ![p] = [pg EXCEPT !.myTurn = j.mine]]
          /\ UNCHANGED <<requests, up, bound, inbox, faults, astray>>
       \/ ~j.ok /\ Left(p)

\* Mutant of AfterMove: the piece moves whatever the answer was.
AfterMoveAnyway(p, j, pg) ==
    /\ j.call.kind = "move"
    /\ LET next == IF pg.held = None THEN pg
                   ELSE [Executed(pg, pg.held) EXCEPT !.myTurn = FALSE] IN
         /\ page' = [page EXCEPT ![p] = next]
         /\ requests' = Reported(p, next)
    /\ UNCHANGED <<up, bound, inbox, faults, astray>>

\* Mutant of AfterMove: isMyTurn is not reset.
AfterMoveStillMine(p, j, pg) ==
    /\ j.call.kind = "move"
    /\ LET next == IF ~j.ok THEN [pg EXCEPT !.myTurn = @ /\ j.mine]
                   ELSE IF pg.held = None THEN pg ELSE Executed(pg, pg.held) IN
         /\ page' = [page EXCEPT ![p] = next]
         /\ requests' = Reported(p, next)
    /\ UNCHANGED <<up, bound, inbox, faults, astray>>

\* The piece that moves is the one held now; without one the code throws, and catches it.
AfterMove(p, j, pg) ==
    /\ j.call.kind = "move"
    /\ LET next == IF ~j.ok THEN [pg EXCEPT !.myTurn = @ /\ j.mine]
                   ELSE IF pg.held = None THEN pg
                   ELSE [Executed(pg, pg.held) EXCEPT !.myTurn = FALSE] IN
         /\ page' = [page EXCEPT ![p] = next]
         /\ requests' = Reported(p, next)
    /\ UNCHANGED <<up, bound, inbox, faults, astray>>

Continue(p) ==
    /\ page[p].polled = 0 /\ page[p].jobs # <<>>
    /\ LET j == Head(page[p].jobs)
           pg == [page[p] EXCEPT !.jobs = Tail(@)] IN
         \/ AfterLogin(p, j, pg) \/ AfterJoin(p, j, pg) \/ AfterMove(p, j, pg)
         \/ AfterRelogin(p, j, pg) \/ AfterRejoin(p, j, pg)
    /\ UNCHANGED <<log, over, late, clicks>>

(***************************************************************************)
(* The player.                                                             *)
(***************************************************************************)
Moving(pg) == \E c \in pg.calls : c.kind = "move"

\* Two clicks: a piece of the colour that the board says is to move, and where to.
Click(p) ==
    /\ Settled /\ clicks < MaxClicks
    /\ page[p].status /\ page[p].online /\ page[p].myTurn /\ page[p].connected
    /\ clicks' = clicks + 1
    /\ LET m == [color |-> page[p].turn, piece |-> "asked"] IN
         Call(p, [page[p] EXCEPT !.held = m], "move", m)
    /\ Stray(p, Moving(page[p]) \/ page[p].where # "playing")
    /\ UNCHANGED <<log, over, late, bound, up, inbox>>

\* A piece moves of which the server hears nothing.
MovedAlone(pg, m) == [Executed(pg, m) EXCEPT !.local = @ + 1]

\* The same when the game is over for the page (executeMove without isOnlineMode): the piece
\* moves at once, and nobody is told.
ClickOffline(p) ==
    /\ Settled /\ clicks < MaxClicks
    /\ page[p].status /\ ~page[p].online /\ page[p].connected
    /\ clicks' = clicks + 1
    /\ LET m == [color |-> page[p].turn, piece |-> "asked"] IN
         page' = [page EXCEPT ![p] = MovedAlone(@, m)]
    /\ Stray(p, TRUE)
    /\ UNCHANGED <<log, over, late, bound, up, requests, inbox, faults>>

\* Another piece is picked, or none, while the answer is awaited.
Repick(p) ==
    /\ Settled /\ clicks < MaxClicks
    /\ Moving(page[p]) /\ page[p].status
    /\ clicks' = clicks + 1
    /\ \E m \in {[color |-> page[p].turn, piece |-> "another"], None} :
         page' = [page EXCEPT ![p].held = m]
    /\ Stray(p, TRUE)
    /\ UNCHANGED <<log, over, late, bound, up, requests, inbox, faults>>

\* The button and the confirmation; or the other ways to end the game (the button to leave, an
\* accepted draw), which do not lock the board.
Resign(p) ==
    /\ Settled /\ clicks + 2 =< MaxClicks
    /\ page[p].online /\ page[p].connected
    /\ clicks' = clicks + 2
    /\ requests' = Requested(p, EndRequest)
    /\ \E locked \in BOOLEAN : page' = [page EXCEPT ![p].status = @ /\ ~locked]
    /\ UNCHANGED <<log, over, late, bound, up, inbox, faults, astray>>

\* The button, without the confirmation: GameController.handleResign has locked the board.
ResignCancelled(p) ==
    /\ Settled /\ clicks < MaxClicks
    /\ page[p].status /\ page[p].connected
    /\ clicks' = clicks + 1
    /\ page' = [page EXCEPT ![p].status = FALSE]
    /\ UNCHANGED <<log, over, late, bound, up, requests, inbox, faults, astray>>

(***************************************************************************)
(* The connection.  What has reached the launcher stays; the rest is gone. *)
(***************************************************************************)
Matters(m) == m.kind = "game_end" \/ m.move # None

Lose(p) ==
    /\ Settled /\ up[p] /\ faults < MaxFaults
    /\ faults' = faults + 1
    /\ up' = [up EXCEPT ![p] = FALSE] /\ bound' = [bound EXCEPT ![p] = FALSE]
    /\ requests' = [requests EXCEPT ![p] = <<>>]
    /\ \E n \in 0 .. Len(inbox[p]) :
         /\ inbox' = [inbox EXCEPT ![p] = Append(SubSeq(@, 1, n), Status("reconnecting"))]
         /\ Stray(p, \E i \in n + 1 .. Len(inbox[p]) : Matters(inbox[p][i]))
    /\ UNCHANGED <<log, over, late, page, clicks>>

\* The launcher connects again (if it gives up, the page is left).
Reconnect(p) ==
    /\ Settled /\ ~up[p] /\ page[p].where # "left"
    /\ up' = [up EXCEPT ![p] = TRUE]
    /\ inbox' = [inbox EXCEPT ![p] = Append(@, Status("reconnected"))]
    /\ UNCHANGED <<log, over, late, bound, requests, page, clicks, faults, astray>>

Next ==
    \/ \E p \in Colors :
         \/ Serve(p) \/ Poll(p) \/ Handle(p) \/ Continue(p)
         \/ \E c \in page[p].calls : SendReturns(p, c) \/ TimeOut(p, c)
         \/ Click(p) \/ ClickOffline(p) \/ Repick(p) \/ Resign(p) \/ ResignCancelled(p)
         \/ Lose(p) \/ Reconnect(p)
    \/ Expire \/ Sweep

Spec == Init /\ [][Next]_vars

FairSpec ==
    /\ Spec
    /\ WF_vars(Sweep)
    /\ \A p \in Colors :
         /\ WF_vars(Serve(p))
         /\ WF_vars(Poll(p) \/ Handle(p) \/ Continue(p))
         /\ WF_vars(\E c \in page[p].calls : SendReturns(p, c) \/ TimeOut(p, c))

(***************************************************************************)
(* Properties.                                                             *)
(***************************************************************************)
Requests ==
    {r \in [kind : {"login", "password", "join", "relogin", "repassword", "rejoin",
                    "move", "end"},
            move : Moves \cup {None}, seq : Nat] : r.kind = "move" <=> r.move # None}
Messages ==
    {m \in [kind : {"answer", "opponent_move", "game_end", "reconnecting", "reconnected"},
            seq : Nat, ok : BOOLEAN, move : Moves \cup {None}, mine : BOOLEAN, at : Nat] :
       m.kind # "answer" => (m.kind = "opponent_move" <=> m.move # None)}
PageCalls ==
    {c \in [seq : Nat, kind : {"login", "password", "join", "relogin", "repassword", "rejoin",
                                "move"},
            move : Moves \cup {None}, sent : BOOLEAN] : c.kind = "move" <=> c.move # None}
Jobs == [call : PageCalls, ok : BOOLEAN, mine : BOOLEAN, at : Nat]
Pages ==
    [where : {"loading", "joining", "playing", "left"}, online : BOOLEAN, connected : BOOLEAN,
     myTurn : BOOLEAN, status : BOOLEAN, turn : Colors, board : Seq(Moves), local : Nat,
     held : Moves \cup {None}, seq : Nat, polled : Nat, jobs : Seq(Jobs), calls : SUBSET PageCalls]

\* Every variable has its type, and the calls of a page have sequence numbers of their own,
\* all of them used up (seqCounter in cClientBridge.js); the counts of a page are within what
\* they count.
TypeOK ==
    /\ log \in Seq(Moves) /\ over \in BOOLEAN /\ late \in BOOLEAN
    /\ bound \in [Colors -> BOOLEAN] /\ up \in [Colors -> BOOLEAN]
    /\ requests \in [Colors -> Seq(Requests)] /\ inbox \in [Colors -> Seq(Messages)]
    /\ page \in [Colors -> Pages]
    /\ clicks \in 0 .. MaxClicks /\ faults \in 0 .. MaxFaults /\ astray \in [Colors -> BOOLEAN]
    /\ \A p \in Colors :
         /\ page[p].polled =< Len(inbox[p])
         /\ page[p].local =< Len(page[p].board)
         /\ \A c, d \in page[p].calls : c.seq < page[p].seq /\ (c.seq = d.seq => c = d)

\* The moves on their way to p's board: acceptances whose code is still to run, and messages,
\* each with the place of its move in the game.
Owed(j) == j.ok /\ j.call.kind = "move"
OwedJobs(p) == {i \in 1 .. Len(page[p].jobs) : Owed(page[p].jobs[i])}
Carriers(p) == {i \in 1 .. Len(inbox[p]) : inbox[p][i].move # None}
Coming(p) == {page[p].jobs[i].at : i \in OwedJobs(p)} \cup {inbox[p][i].at : i \in Carriers(p)}

\* A page that is not astray shows the server's game up to the moves that are on their way to
\* it, each once and in order: own moves wait for their answer
\* (networkGameController.js:231-232), the opponent's for opponent_move, and neither overtakes
\* the other.  A loss of the connection that loses no message does no harm, although a page
\* never asks for the moves again.
BoardsAgree ==
    \A p \in Colors : ~astray[p] =>
       LET shown == Len(page[p].board) IN
       /\ page[p].board = SubSeq(log, 1, shown)
       /\ Coming(p) = shown + 1 .. Len(log)
       /\ \A i \in OwedJobs(p) :
            LET j == page[p].jobs[i] IN j.at = shown + 1 /\ j.call.move = log[j.at]
       /\ \A i \in Carriers(p) :
            /\ inbox[p][i].move = log[inbox[p][i].at]
            /\ \A h \in Carriers(p) : h < i => inbox[p][h].at < inbox[p][i].at
            /\ \A h \in OwedJobs(p) : page[p].jobs[h].at < inbox[p][i].at

\* However muddled a page is, it shows and is owed no more moves than the server has taken -
\* those not counted that its player made when the game was over for the page: each acceptance
\* moves at most one piece on each board.
NeverAhead ==
    \A p \in Colors :
       Len(page[p].board) + Cardinality(OwedJobs(p)) + Cardinality(Carriers(p))
         =< Len(log) + page[p].local

\* Nothing is on its way to p's page or from it.
Quiet(p) ==
    /\ Settled /\ inbox[p] = <<>> /\ requests[p] = <<>> /\ page[p].calls = {}
    /\ page[p].where = "playing" /\ up[p] /\ page[p].connected

\* Everybody knows whose move the server awaits, and nobody plays on when the match is over,
\* whether a player or the clock has ended it: when things are quiet, isMyTurn of a page says
\* whose move it is, and (unless the other page went astray, for the server takes moves of
\* either colour from it) its board holds the pieces of that colour to be the ones to move.
\* That the board takes clicks is not said: a resignation that was not confirmed locks it.
TurnsAreKnown ==
    \A p \in Colors :
       Quiet(p) /\ ~astray[p] /\ page[p].online =>
          /\ ~over
          /\ page[p].myTurn = (Awaited = p)
          /\ (\A q \in Colors : ~astray[q]) => page[p].turn = Awaited

\* A mate that one of the boards shows has reached the server when things are quiet, whichever
\* page it is that saw it; for both report it (networkGameController.js:37).
MateIsTold ==
    (\A p \in Colors : Quiet(p)) /\ (\E p \in Colors : Len(page[p].board) >= Mate) =>
       over \/ faults > 0

\* The server, which does not know the rules, takes a move only from somebody whose board
\* shows all moves so far, and of his own colour: handle_move counts moves, and the pages see
\* to the rest unless they are astray.
NobodyMovesBlind ==
    [][\A p \in Colors : log' # log /\ Awaited = p /\ ~astray[p] =>
         /\ page[p].board = log
         /\ (\A q \in Colors : ~astray[q]) => log'[Len(log')].color = p]_vars

\* A match that has ended, or is to end because the time of a player has run out, ends for both
\* pages, those that are astray excepted: what tells them is game_end, once, and no later
\* request is answered in a way that would (a refused move leaves the page as it is).
EndIsSeen == (late \/ over) ~> \A p \in Colors : astray[p] \/ ~page[p].online

Waiting == \E p \in Colors : page[p].calls # {}

\* Every call that a page awaits comes to an end, by an answer or by the time-out of
\* cClientBridge.js:103, also when its answer came before it was registered.
EveryCallSettles == Waiting ~> ~Waiting

Behind == \E p \in Colors : ~astray[p] /\ page[p].board # log

\* Every move that the server takes is shown by both pages, those that are astray excepted.
EveryMoveIsShown == Behind ~> ~Behind

=============================================================================
