------------------------------ MODULE PlayProofs ------------------------------
(***************************************************************************)
(* Proofs about Play: whatever the players, the network and the clocks of  *)
(* the pages do, for every number of clicks, faults and moves to a mate.   *)
(***************************************************************************)
EXTENDS Play, FiniteSetTheorems, TLAPS

(***************************************************************************)
(* Type correctness.  Every step rewrites one page at most.                *)
(***************************************************************************)
OwnSeqs(pg) == /\ pg.local =< Len(pg.board)
               /\ \A c, d \in pg.calls : c.seq < pg.seq /\ (c.seq = d.seq => c = d)
GoodPage(pg) == pg \in Pages /\ OwnSeqs(pg)

ServerOK == /\ log \in Seq(Moves) /\ over \in BOOLEAN /\ late \in BOOLEAN
            /\ bound \in [Colors -> BOOLEAN] /\ up \in [Colors -> BOOLEAN]
            /\ astray \in [Colors -> BOOLEAN]
BoundsOK == clicks \in 0 .. MaxClicks /\ faults \in 0 .. MaxFaults
RequestsOK == requests \in [Colors -> Seq(Requests)]
PagesOK == /\ inbox \in [Colors -> Seq(Messages)] /\ page \in [Colors -> Pages]
           /\ \A p \in Colors : page[p].polled =< Len(inbox[p]) /\ OwnSeqs(page[p])

\* The type invariant in parts, now and next.
LEMMA TypeParts == /\ TypeOK <=> ServerOK /\ BoundsOK /\ RequestsOK /\ PagesOK
                   /\ TypeOK' <=> ServerOK' /\ BoundsOK' /\ RequestsOK' /\ PagesOK'
BY DEF TypeOK, ServerOK, BoundsOK, RequestsOK, PagesOK, OwnSeqs

\* The colours, and who is the other.
LEMMA ColorFacts ==
  /\ "red" \in Colors /\ "black" \in Colors /\ Colors = {"red", "black"}
  /\ \A c \in Colors : /\ Other(c) \in Colors /\ Other(c) # c
                       /\ \A d \in Colors : d # c => d = Other(c)
  /\ \A n \in Nat : Mover(n) \in Colors /\ Mover(n + 1) = Other(Mover(n))
BY DEF Colors, Other, Mover

\* The record types, field by field.
LEMMA PageFields ==
  ASSUME NEW pg \in Pages
  PROVE  /\ pg.where \in {"loading", "joining", "playing", "left"}
         /\ pg.online \in BOOLEAN /\ pg.connected \in BOOLEAN /\ pg.myTurn \in BOOLEAN
         /\ pg.status \in BOOLEAN /\ pg.local \in Nat
         /\ pg.turn \in Colors /\ pg.board \in Seq(Moves) /\ pg.held \in Moves \cup {None}
         /\ pg.seq \in Nat /\ pg.polled \in Nat /\ pg.jobs \in Seq(Jobs)
         /\ pg.calls \subseteq PageCalls
BY DEF Pages

\* What is said on the wire has its type.
LEMMA MessageTypes ==
  /\ \A seq \in Nat, ok \in BOOLEAN, move \in Moves \cup {None}, mine \in BOOLEAN, at \in Nat :
       Answer(seq, ok, move, mine, at) \in Messages
  /\ \A move \in Moves, at \in Nat : OpponentMove(move, at) \in Messages
  /\ GameEnd \in Messages /\ Status("reconnecting") \in Messages
  /\ Status("reconnected") \in Messages
  /\ EndRequest \in Requests /\ None \notin Moves
BY PlayAssumption DEF Answer, OpponentMove, Notice, GameEnd, Status, Messages, EndRequest, Request, Requests

\* A page that waits for its login, one that plays, and one that is left.
LEMMA FreshTypes ==
  ASSUME NEW p \in Colors
  PROVE  /\ GoodPage(FreshPage(p)) /\ FreshPage(p).polled = 0
         /\ GoodPage(LoadedPage(p)) /\ LoadedPage(p).polled = 0
         /\ GoodPage(LeftPage(p)) /\ LeftPage(p).polled = 0
<1>1. PageCall(1, "login", None, TRUE) \in PageCalls
  BY DEF PageCalls, PageCall
<1>2. FreshPage(p) \in Pages
  <2> DEFINE calls == {PageCall(1, "login", None, TRUE)}
  <2>1. /\ calls \in SUBSET PageCalls
        /\ <<>> \in Seq(Moves)
        /\ <<>> \in Seq(Jobs)
    <3>1. calls \in SUBSET PageCalls
      BY <1>1
    <3>2. <<>> \in Seq(Moves) /\ <<>> \in Seq(Jobs)
      OBVIOUS
    <3>3. QED
      BY <3>1, <3>2
  <2>2. FreshPage(p).calls = calls /\ FreshPage(p) =
          [where |-> "loading", online |-> TRUE, connected |-> TRUE, myTurn |-> p = "red",
           status |-> TRUE, turn |-> "red", board |-> <<>>, local |-> 0, held |-> None,
           seq |-> 2, polled |-> 0, jobs |-> <<>>, calls |-> calls]
    BY DEF FreshPage
  <2> HIDE DEF calls
  <2>3. QED
    BY <2>1, <2>2 DEF Pages, Colors
<1>3. OwnSeqs(FreshPage(p))
  <2>1. FreshPage(p).seq = 2
    BY DEF FreshPage
  <2>2. FreshPage(p).calls = {PageCall(1, "login", None, TRUE)}
    BY DEF FreshPage
  <2>3. \A c, d \in FreshPage(p).calls : c = d
    BY <2>2
  <2>4. \A c \in FreshPage(p).calls : c.seq = 1
    BY <2>2 DEF PageCall
  <2>5. \A c \in FreshPage(p).calls : c.seq < FreshPage(p).seq
    BY <2>1, <2>4
  <2>6. FreshPage(p).local = 0 /\ Len(FreshPage(p).board) = 0
    BY DEF FreshPage
  <2>7. QED
    BY <2>3, <2>5, <2>6 DEF OwnSeqs
<1>4. FreshPage(p).polled = 0
  BY DEF FreshPage
<1> DEFINE f == FreshPage(p)
           n == LoadedPage(p)
           l == LeftPage(p)
<1>5. f.local =< Len(f.board)
  BY <1>3 DEF OwnSeqs
<1>6. n = [f EXCEPT !.where = "playing", !.calls = {}]
  BY DEF LoadedPage
<1>7. l = [f EXCEPT !.where = "left", !.online = FALSE, !.connected = FALSE, !.calls = {}]
  BY DEF LeftPage
<1>8. f \in Pages /\ f.polled = 0
  BY <1>2, <1>4
<1> HIDE DEF f, n, l
<1>9. GoodPage(n) /\ n.polled = 0
  <2>1. n \in Pages /\ n.polled = 0 /\ n.calls = {} /\ n.local = f.local /\ n.board = f.board
    BY <1>6, <1>8 DEF Pages
  <2>2. QED
    BY <1>5, <2>1 DEF GoodPage, OwnSeqs
<1>10. GoodPage(l) /\ l.polled = 0
  <2>1. l \in Pages /\ l.polled = 0 /\ l.calls = {} /\ l.local = f.local /\ l.board = f.board
    BY <1>7, <1>8 DEF Pages
  <2>2. QED
    BY <1>5, <2>1 DEF GoodPage, OwnSeqs
<1>11. QED
  BY <1>2, <1>3, <1>4, <1>9, <1>10 DEF GoodPage, n, l

\* A piece that moves leaves a page.
LEMMA ExecutedType ==
  ASSUME NEW pg, GoodPage(pg), NEW m \in Moves
  PROVE  GoodPage(Executed(pg, m)) /\ Executed(pg, m).polled = pg.polled
<1>1. pg.board \in Seq(Moves) /\ pg.turn \in Colors
  BY PageFields DEF GoodPage
<1>2. Append(pg.board, m) \in Seq(Moves) /\ Other(pg.turn) \in Colors
  BY <1>1, ColorFacts
<1> DEFINE n == Executed(pg, m)
<1>3. /\ n \in Pages /\ n.polled = pg.polled /\ n.local = pg.local /\ n.calls = pg.calls
      /\ n.seq = pg.seq /\ n.board = Append(pg.board, m)
  BY <1>2 DEF GoodPage, Executed, Pages
<1> HIDE DEF n
<1>4. n.local =< Len(n.board)
  BY <1>1, <1>3, PageFields DEF GoodPage, OwnSeqs
<1>5. OwnSeqs(n)
  BY <1>3, <1>4 DEF GoodPage, OwnSeqs
<1>6. QED
  BY <1>3, <1>5 DEF GoodPage, n

\* An answer that is awaited leaves a page.
LEMMA ResolvedType ==
  ASSUME NEW pg, GoodPage(pg), NEW c \in pg.calls, NEW m \in Messages
  PROVE  GoodPage(Resolved(pg, c, m)) /\ Resolved(pg, c, m).polled = pg.polled
<1>1. [call |-> c, ok |-> m.ok, mine |-> m.mine, at |-> m.at] \in Jobs
  BY DEF GoodPage, Pages, Messages, Jobs
<1>2. Append(pg.jobs, [call |-> c, ok |-> m.ok, mine |-> m.mine, at |-> m.at]) \in Seq(Jobs)
  BY <1>1, PageFields DEF GoodPage
<1>3. QED
  BY <1>2 DEF GoodPage, OwnSeqs, Resolved, Pages

\* A call that is made leaves a page.
LEMMA CalledType ==
  ASSUME NEW pg, GoodPage(pg), NEW c \in PageCalls, c.seq = pg.seq
  PROVE  GoodPage(Awaiting(pg, c)) /\ Awaiting(pg, c).polled = pg.polled
<1> DEFINE n == Awaiting(pg, c)
<1>1. pg \in Pages /\ pg.seq \in Nat /\ pg.calls \subseteq PageCalls
  BY PageFields DEF GoodPage
<1>2. \A d \in pg.calls : d.seq \in Nat /\ d.seq < pg.seq
  BY <1>1 DEF GoodPage, OwnSeqs, PageCalls
<1>3. pg.calls \cup {c} \in SUBSET PageCalls /\ pg.seq + 1 \in Nat
  BY <1>1
<1>4. /\ n \in Pages /\ n.polled = pg.polled /\ n.seq = pg.seq + 1 /\ n.calls = pg.calls \cup {c}
      /\ n.local = pg.local /\ n.board = pg.board
  BY <1>1, <1>3 DEF Awaiting, Pages
<1> HIDE DEF n
<1>5. OwnSeqs(n)
  <2>1. \A d \in n.calls : d.seq < n.seq
    BY <1>1, <1>2, <1>4
  <2>2. \A d, e \in n.calls : d.seq = e.seq => d = e
    BY <1>1, <1>2, <1>4 DEF GoodPage, OwnSeqs
  <2>3. n.local =< Len(n.board)
    BY <1>4 DEF GoodPage, OwnSeqs
  <2>4. QED
    BY <2>1, <2>2, <2>3 DEF OwnSeqs
<1>6. QED
  BY <1>4, <1>5 DEF GoodPage, n

\* A step that rewrites one page and its inbox.
LEMMA PageStepType ==
  ASSUME PagesOK, NEW p \in Colors, NEW n, GoodPage(n), page' = [page EXCEPT ![p] = n],
         inbox' \in [Colors -> Seq(Messages)], n.polled =< Len(inbox'[p]),
         \A q \in Colors \ {p} : inbox'[q] = inbox[q]
  PROVE  PagesOK'
<1>1. page' \in [Colors -> Pages] /\ page'[p] = n /\ \A q \in Colors \ {p} : page'[q] = page[q]
  BY DEF PagesOK, GoodPage
<1>2. \A q \in Colors : page'[q].polled =< Len(inbox'[q]) /\ OwnSeqs(page'[q])
  BY <1>1 DEF PagesOK, GoodPage
<1>3. QED
  BY <1>1, <1>2 DEF PagesOK, OwnSeqs

\* A page that is not rewritten, while its inbox does not shrink.
LEMMA PageKeptType ==
  ASSUME PagesOK, page' = page, inbox' \in [Colors -> Seq(Messages)],
         \A q \in Colors : Len(inbox[q]) =< Len(inbox'[q])
  PROVE  PagesOK'
<1>1. \A q \in Colors : page[q].polled \in Nat /\ inbox[q] \in Seq(Messages)
  BY PageFields DEF PagesOK
<1>2. \A q \in Colors : Len(inbox[q]) \in Nat /\ Len(inbox'[q]) \in Nat
  BY <1>1
<1>3. \A q \in Colors : page[q].polled =< Len(inbox'[q])
  BY <1>1, <1>2 DEF PagesOK
<1>4. QED
  BY <1>3 DEF PagesOK, OwnSeqs

\* Sending a request, or failing to.
LEMMA RequestedType ==
  ASSUME RequestsOK, NEW p \in Colors, NEW r \in Requests
  PROVE  Requested(p, r) \in [Colors -> Seq(Requests)]
<1>1. Append(requests[p], r) \in Seq(Requests)
  BY DEF RequestsOK
<1>2. QED
  BY <1>1 DEF Requested, RequestsOK

LEMMA ReportedType ==
  ASSUME RequestsOK, NEW p \in Colors, NEW pg
  PROVE  Reported(p, pg) \in [Colors -> Seq(Requests)]
BY RequestedType, MessageTypes DEF Reported, RequestsOK

\* What a call does, with the page it leaves.
LEMMA CallFacts ==
  ASSUME NEW p \in Colors, NEW pg, NEW kind, NEW move, Call(p, pg, kind, move)
  PROVE  /\ requests' = Requested(p, Request(kind, move, pg.seq))
         /\ \E sent \in BOOLEAN : /\ ~sent => kind = "move" /\ faults < MaxFaults
                                  /\ faults' = IF sent THEN faults ELSE faults + 1
                                  /\ page' = [page EXCEPT ![p] = Awaiting(pg, PageCall(pg.seq, kind, move, sent))]
BY DEF Call

\* A call leaves a page, a request more or none, and counts a fault if its sending returns late.
LEMMA CallType ==
  ASSUME TypeOK, NEW p \in Colors, NEW pg, GoodPage(pg), NEW move \in Moves \cup {None},
         NEW kind \in {"login", "password", "join", "relogin", "repassword", "rejoin", "move"},
         kind = "move" <=> move # None,
         Call(p, pg, kind, move)
  PROVE  /\ RequestsOK' /\ faults' \in 0 .. MaxFaults
         /\ \E n : GoodPage(n) /\ n.polled = pg.polled /\ page' = [page EXCEPT ![p] = n]
<1>1. RequestsOK /\ faults \in 0 .. MaxFaults /\ MaxFaults \in Nat /\ pg.seq \in Nat
  BY PageFields, TypeParts, PlayAssumption DEF BoundsOK, GoodPage
<1>2. Request(kind, move, pg.seq) \in Requests
  BY <1>1 DEF Request, Requests
<1>3. RequestsOK'
  BY <1>1, <1>2, RequestedType, CallFacts DEF RequestsOK
<1>4. PICK sent \in BOOLEAN :
        /\ ~sent => kind = "move" /\ faults < MaxFaults
        /\ faults' = IF sent THEN faults ELSE faults + 1
        /\ page' = [page EXCEPT ![p] = Awaiting(pg, PageCall(pg.seq, kind, move, sent))]
  BY CallFacts
<1>5. faults' \in 0 .. MaxFaults
  BY <1>1, <1>4
<1>6. PageCall(pg.seq, kind, move, sent) \in PageCalls
         /\ PageCall(pg.seq, kind, move, sent).seq = pg.seq
  BY <1>1 DEF PageCall, PageCalls
<1>7. GoodPage(Awaiting(pg, PageCall(pg.seq, kind, move, sent))) /\ Awaiting(pg, PageCall(pg.seq, kind, move, sent)).polled = pg.polled
  BY <1>6, CalledType
<1>8. QED
  BY <1>3, <1>4, <1>5, <1>7

\* A page that is rewritten between polls, its inbox left alone.
LEMMA RewriteType ==
  ASSUME PagesOK, NEW p \in Colors, NEW n, GoodPage(n), page' = [page EXCEPT ![p] = n],
         n.polled =< page[p].polled, inbox' = inbox
  PROVE  PagesOK'
<1>1. page[p].polled \in Nat /\ n.polled \in Nat /\ Len(inbox[p]) \in Nat
  BY PageFields DEF PagesOK, GoodPage
<1>2. n.polled =< Len(inbox'[p])
  BY <1>1 DEF PagesOK
<1>3. QED
  BY <1>2, PageStepType DEF PagesOK

\* The message that a poll handles next, and the page that has taken it.
Taking(pg) == [pg EXCEPT !.polled = @ - 1]
LEMMA TakingType ==
  ASSUME TypeOK, NEW p \in Colors, page[p].polled > 0
  PROVE  /\ GoodPage(Taking(page[p])) /\ Taking(page[p]).polled = page[p].polled - 1
         /\ inbox[p] # <<>> /\ Head(inbox[p]) \in Messages /\ Tail(inbox[p]) \in Seq(Messages)
         /\ Len(Tail(inbox[p])) = Len(inbox[p]) - 1
         /\ page[p].polled - 1 =< Len(Tail(inbox[p]))
<1>1. /\ page[p] \in Pages /\ page[p].polled \in Nat /\ inbox[p] \in Seq(Messages)
      /\ page[p].polled =< Len(inbox[p]) /\ OwnSeqs(page[p])
  BY TypeParts, PageFields DEF PagesOK
<1>2. inbox[p] # <<>> /\ Len(inbox[p]) \in Nat
  BY <1>1
<1>3. /\ Head(inbox[p]) \in Messages /\ Tail(inbox[p]) \in Seq(Messages)
      /\ Len(Tail(inbox[p])) = Len(inbox[p]) - 1
  BY <1>1, <1>2
<1>4. page[p].polled - 1 \in Nat
  BY <1>1
<1>5. Taking(page[p]) \in Pages /\ Taking(page[p]).polled = page[p].polled - 1
  BY <1>1, <1>4 DEF Taking, Pages
<1>6. OwnSeqs(Taking(page[p]))
  BY <1>1 DEF Taking, OwnSeqs, Pages
<1>7. page[p].polled - 1 =< Len(Tail(inbox[p]))
  BY <1>1, <1>2, <1>3
<1>8. QED
  BY <1>2, <1>3, <1>5, <1>6, <1>7 DEF GoodPage

LEMMA TakenType ==
  ASSUME TypeOK, NEW p \in Colors, page[p].polled > 0, NEW n, GoodPage(n),
         n.polled = page[p].polled - 1, page' = [page EXCEPT ![p] = n],
         inbox' = [inbox EXCEPT ![p] = Tail(@)]
  PROVE  PagesOK'
<1>1. PagesOK /\ inbox' \in [Colors -> Seq(Messages)] /\ inbox'[p] = Tail(inbox[p])
  BY TypeParts, TakingType DEF PagesOK
<1>2. n.polled =< Len(inbox'[p])
  BY <1>1, TakingType
<1>3. \A q \in Colors \ {p} : inbox'[q] = inbox[q]
  BY <1>1 DEF PagesOK
<1>4. QED
  BY <1>1, <1>2, <1>3, PageStepType

\* The job that runs next, and the page that has begun it.
Beginning(pg) == [pg EXCEPT !.jobs = Tail(@)]
LEMMA BeginningType ==
  ASSUME TypeOK, NEW p \in Colors, page[p].jobs # <<>>
  PROVE  /\ GoodPage(Beginning(page[p])) /\ Beginning(page[p]).polled = page[p].polled
         /\ Head(page[p].jobs) \in Jobs /\ Tail(page[p].jobs) \in Seq(Jobs)
<1>1. page[p] \in Pages /\ page[p].jobs \in Seq(Jobs) /\ OwnSeqs(page[p])
  BY TypeParts, PageFields DEF PagesOK
<1>2. Head(page[p].jobs) \in Jobs /\ Tail(page[p].jobs) \in Seq(Jobs)
  BY <1>1
<1>3. Beginning(page[p]) \in Pages /\ Beginning(page[p]).polled = page[p].polled
  BY <1>1, <1>2 DEF Beginning, Pages
<1>4. OwnSeqs(Beginning(page[p]))
  BY <1>1 DEF Beginning, OwnSeqs, Pages
<1>5. QED
  BY <1>2, <1>3, <1>4 DEF GoodPage

\* What is appended to a message queue, and what is told.
LEMMA NotifiedType ==
  ASSUME NEW box \in [Colors -> Seq(Messages)], NEW q \in Colors, NEW m \in Messages
  PROVE  /\ Notified(box, q, m) \in [Colors -> Seq(Messages)]
         /\ [box EXCEPT ![q] = Append(@, m)] \in [Colors -> Seq(Messages)]
         /\ \A r \in Colors : /\ Len(box[r]) =< Len(Notified(box, q, m)[r])
                              /\ Len(box[r]) =< Len([box EXCEPT ![q] = Append(@, m)][r])
<1>1. \A r \in Colors : box[r] \in Seq(Messages) /\ Len(box[r]) \in Nat
  OBVIOUS
<1>2. Append(box[q], m) \in Seq(Messages) /\ Len(Append(box[q], m)) = Len(box[q]) + 1
  BY <1>1
<1>3. [box EXCEPT ![q] = Append(@, m)] \in [Colors -> Seq(Messages)]
  BY <1>2
<1>4. \A r \in Colors : Len(box[r]) =< Len([box EXCEPT ![q] = Append(@, m)][r])
  BY <1>1, <1>2
<1>5. QED
  BY <1>1, <1>3, <1>4 DEF Notified

LEMMA ServeType ==
  ASSUME TypeOK, NEW p \in Colors, Serve(p)
  PROVE  TypeOK'
<1> DEFINE r == Head(requests[p])
<1>1. ServerOK /\ BoundsOK /\ RequestsOK /\ PagesOK /\ requests[p] # <<>>
  BY TypeParts DEF Serve
<1>2. r \in Requests /\ Tail(requests[p]) \in Seq(Requests) /\ r.seq \in Nat
  BY <1>1 DEF RequestsOK, Requests
<1>3. RequestsOK' /\ BoundsOK'
  BY <1>1, <1>2 DEF Serve, RequestsOK, BoundsOK
<1>4. /\ bound' \in [Colors -> BOOLEAN] /\ up' \in [Colors -> BOOLEAN] /\ page' = page
      /\ late' = late
  BY <1>1 DEF Serve, ServerOK
<1>5. inbox \in [Colors -> Seq(Messages)] /\ Len(log) \in Nat /\ over \in BOOLEAN /\ log \in Seq(Moves)
  BY <1>1 DEF PagesOK, ServerOK
<1> DEFINE Grown == /\ inbox' \in [Colors -> Seq(Messages)]
                    /\ \A q \in Colors : Len(inbox[q]) =< Len(inbox'[q])
           Told == log' \in Seq(Moves) /\ over' \in BOOLEAN /\ astray' \in [Colors -> BOOLEAN]
<1>6. \A m \in Messages : inbox' = Answered(p, m) => Grown
  BY <1>5, NotifiedType DEF Answered
<1>7. CASE ServeLogin(p, r)
  <2>1. Answer(r.seq, TRUE, None, FALSE, Len(log)) \in Messages
    BY <1>2, <1>5, MessageTypes
  <2>2. Grown /\ Told
    BY <1>1, <1>6, <1>7, <2>1 DEF ServeLogin, ServerOK
  <2>3. QED
    BY <1>1, <1>3, <1>4, <2>2, PageKeptType, TypeParts DEF ServerOK
<1>8. CASE ServeJoin(p, r)
  <2>1. \A ok \in BOOLEAN : Answer(r.seq, ok, None, Awaited = p, Len(log)) \in Messages
    BY <1>2, <1>5, MessageTypes
  <2>2. Grown /\ Told
    BY <1>1, <1>6, <1>8, <2>1 DEF ServeJoin, ServerOK
  <2>3. QED
    BY <1>1, <1>3, <1>4, <2>2, PageKeptType, TypeParts DEF ServerOK
<1>9. CASE ServeMoveRefused(p, r)
  <2>1. Answer(r.seq, FALSE, None, Awaited = p, Len(log)) \in Messages
    BY <1>2, <1>5, MessageTypes
  <2>2. Grown /\ Told
    BY <1>1, <1>6, <1>9, <2>1 DEF ServeMoveRefused, ServerOK
  <2>3. QED
    BY <1>1, <1>3, <1>4, <2>2, PageKeptType, TypeParts DEF ServerOK
<1>10. CASE ServeMoveAccepted(p, r)
  <2>1. r.move \in Moves
    BY <1>2, <1>10 DEF ServeMoveAccepted, Requests
  <2>2. log' \in Seq(Moves) /\ Len(log') \in Nat
    BY <1>5, <1>10, <2>1 DEF ServeMoveAccepted
  <2>3. /\ Answer(r.seq, TRUE, r.move, FALSE, Len(log')) \in Messages
        /\ OpponentMove(r.move, Len(log')) \in Messages
    BY <1>2, <2>1, <2>2, MessageTypes
  <2> DEFINE box == Answered(p, Answer(r.seq, TRUE, r.move, FALSE, Len(log')))
  <2>4. box \in [Colors -> Seq(Messages)] /\ \A q \in Colors : Len(inbox[q]) =< Len(box[q])
    BY <1>5, <2>3, NotifiedType DEF Answered
  <2>5. inbox' = Notified(box, Other(p), OpponentMove(r.move, Len(log')))
    BY <1>10 DEF ServeMoveAccepted
  <2> HIDE DEF box
  <2> DEFINE m == OpponentMove(r.move, Len(log'))
  <2> HIDE DEF m
  <2>6. inbox' \in [Colors -> Seq(Messages)] /\ \A q \in Colors : Len(box[q]) =< Len(inbox'[q])
    <3>1. m \in Messages /\ inbox' = Notified(box, Other(p), m) /\ Other(p) \in Colors
      BY <2>3, <2>5, ColorFacts DEF m
    <3>2. /\ Notified(box, Other(p), m) \in [Colors -> Seq(Messages)]
          /\ \A q \in Colors : Len(box[q]) =< Len(Notified(box, Other(p), m)[q])
      BY <2>4, <3>1, NotifiedType
    <3>3. QED
      BY <3>1, <3>2
  <2>7. \A q \in Colors : Len(inbox[q]) \in Nat /\ Len(box[q]) \in Nat /\ Len(inbox'[q]) \in Nat
    BY <1>5, <2>4, <2>6
  <2>8. Grown
    BY <2>4, <2>6, <2>7
  <2>9. Told
    BY <1>1, <1>10, <2>2 DEF ServeMoveAccepted, ServerOK
  <2>10. QED
    BY <1>1, <1>3, <1>4, <2>8, <2>9, PageKeptType, TypeParts DEF ServerOK
<1>11. CASE ServeEnd(p, r)
  <2> DEFINE box == Notified(inbox, "red", GameEnd)
  <2>1. box \in [Colors -> Seq(Messages)] /\ \A q \in Colors : Len(inbox[q]) =< Len(box[q])
    BY <1>5, MessageTypes, ColorFacts, NotifiedType
  <2>2. inbox' = inbox \/ inbox' = Notified(box, "black", GameEnd)
    BY <1>11 DEF ServeEnd
  <2> HIDE DEF box
  <2>3. Notified(box, "black", GameEnd) \in [Colors -> Seq(Messages)]
        /\ \A q \in Colors : Len(box[q]) =< Len(Notified(box, "black", GameEnd)[q])
    BY <2>1, MessageTypes, ColorFacts, NotifiedType
  <2>4. inbox' \in [Colors -> Seq(Messages)]
    BY <1>5, <2>2, <2>3
  <2>5. \A q \in Colors : Len(inbox[q]) \in Nat /\ Len(box[q]) \in Nat /\ Len(inbox'[q]) \in Nat
    BY <1>5, <2>1, <2>4
  <2>6. Grown
    <3>1. CASE inbox' = inbox
      BY <1>5, <2>5, <3>1
    <3>2. CASE inbox' = Notified(box, "black", GameEnd)
      BY <2>1, <2>3, <2>5, <3>2
    <3>3. QED
      BY <2>2, <3>1, <3>2
  <2>7. Told
    BY <1>1, <1>11 DEF ServeEnd, ServerOK
  <2>8. QED
    BY <1>1, <1>3, <1>4, <2>6, <2>7, PageKeptType, TypeParts DEF ServerOK
<1>12. QED
  BY <1>7, <1>8, <1>9, <1>10, <1>11 DEF Serve

LEMMA SendReturnsType ==
  ASSUME TypeOK, NEW p \in Colors, NEW c \in page[p].calls, SendReturns(p, c)
  PROVE  TypeOK'
<1>1. /\ ServerOK /\ BoundsOK /\ RequestsOK /\ PagesOK /\ page[p] \in Pages /\ c \in PageCalls
      /\ page[p].calls \subseteq PageCalls /\ OwnSeqs(page[p]) /\ page[p].polled \in Nat
  BY TypeParts, PageFields DEF PagesOK
<1> DEFINE d == [c EXCEPT !.sent = TRUE]
           n == [page[p] EXCEPT !.calls = (@ \ {c}) \cup {d}]
<1>2. d \in PageCalls /\ d.seq = c.seq
  BY <1>1 DEF PageCalls
<1> HIDE DEF d
<1>3. /\ n \in Pages /\ n.polled = page[p].polled /\ n.seq = page[p].seq
      /\ n.calls = (page[p].calls \ {c}) \cup {d}
      /\ n.local = page[p].local /\ n.board = page[p].board
  BY <1>1, <1>2 DEF Pages
<1>4. page' = [page EXCEPT ![p] = n] /\ inbox' = inbox
  BY <1>1 DEF SendReturns, d, PagesOK
<1> HIDE DEF n
<1>5. OwnSeqs(n)
  BY <1>1, <1>2, <1>3 DEF OwnSeqs
<1>6. n.polled =< page[p].polled
  BY <1>1, <1>3
<1>7. PagesOK'
  BY <1>1, <1>3, <1>4, <1>5, <1>6, RewriteType DEF GoodPage
<1>8. QED
  BY <1>1, <1>7, TypeParts DEF SendReturns, ServerOK, BoundsOK, RequestsOK

LEMMA PollType ==
  ASSUME TypeOK, NEW p \in Colors, Poll(p)
  PROVE  TypeOK'
<1>1. /\ ServerOK /\ BoundsOK /\ RequestsOK /\ PagesOK /\ page[p] \in Pages
      /\ OwnSeqs(page[p]) /\ Len(inbox[p]) \in Nat
  BY TypeParts DEF PagesOK
<1>2. PICK k \in 1 .. Len(inbox[p]) : page' = [page EXCEPT ![p].polled = k]
  BY DEF Poll
<1> DEFINE n == [page[p] EXCEPT !.polled = k]
<1>3. /\ n \in Pages /\ n.polled = k /\ n.seq = page[p].seq /\ n.calls = page[p].calls
      /\ n.local = page[p].local /\ n.board = page[p].board
  <2>1. k \in Nat
    BY <1>1, <1>2
  <2>2. QED
    BY <1>1, <2>1 DEF Pages
<1>4. page' = [page EXCEPT ![p] = n] /\ inbox' = inbox
  BY <1>1, <1>2 DEF Poll, PagesOK
<1> HIDE DEF n
<1>5. GoodPage(n)
  BY <1>1, <1>3 DEF OwnSeqs, GoodPage
<1>6. n.polled =< Len(inbox'[p])
  BY <1>1, <1>2, <1>3, <1>4
<1>7. PagesOK'
  BY <1>1, <1>4, <1>5, <1>6, PageStepType DEF PagesOK
<1>8. QED
  BY <1>1, <1>7, TypeParts DEF Poll, ServerOK, BoundsOK, RequestsOK

LEMMA TimeOutType ==
  ASSUME TypeOK, NEW p \in Colors, NEW c \in page[p].calls, TimeOut(p, c)
  PROVE  TypeOK'
<1>1. /\ ServerOK /\ BoundsOK /\ RequestsOK /\ PagesOK /\ GoodPage(page[p])
      /\ page[p].polled \in Nat /\ c \in PageCalls
  BY TypeParts, PageFields DEF PagesOK, GoodPage
<1>2. Answer(c.seq, FALSE, None, TRUE, 0) \in Messages
  BY <1>1, MessageTypes DEF PageCalls
<1> DEFINE n == Resolved(page[p], c, Answer(c.seq, FALSE, None, TRUE, 0))
<1>3. GoodPage(n) /\ n.polled = page[p].polled
  BY <1>1, <1>2, ResolvedType
<1>4. page' = [page EXCEPT ![p] = n] /\ inbox' = inbox
  BY <1>1 DEF TimeOut, PagesOK
<1> HIDE DEF n
<1>5. PagesOK'
  <2>1. n.polled =< page[p].polled
    BY <1>1, <1>3
  <2>2. QED
    BY <1>1, <1>3, <1>4, <2>1, RewriteType
<1>6. faults' \in 0 .. MaxFaults /\ clicks' = clicks
  BY <1>1, PlayAssumption DEF TimeOut, BoundsOK
<1>7. QED
  BY <1>1, <1>5, <1>6, TypeParts DEF TimeOut, Stray, ServerOK, BoundsOK, RequestsOK

\* A page that is left is a page, and so are the others.
LEMMA LeftType ==
  ASSUME TypeOK, NEW p \in Colors, Left(p), UNCHANGED <<log, over, late, clicks>>
  PROVE  TypeOK'
<1>1. ServerOK /\ BoundsOK /\ RequestsOK /\ PagesOK
  BY TypeParts
<1> DEFINE n == LeftPage(p)
<1>2. GoodPage(n) /\ n.polled = 0
  BY FreshTypes
<1>3. page' = [page EXCEPT ![p] = n]
  BY DEF Left
<1> HIDE DEF n
<1>4. /\ inbox' \in [Colors -> Seq(Messages)] /\ inbox'[p] = <<>>
      /\ \A q \in Colors \ {p} : inbox'[q] = inbox[q]
  BY <1>1 DEF Left, PagesOK
<1>5. n.polled =< Len(inbox'[p])
  BY <1>2, <1>4
<1>6. PagesOK'
  BY <1>1, <1>2, <1>3, <1>4, <1>5, PageStepType
<1>7. RequestsOK'
  BY <1>1 DEF Left, RequestsOK
<1>8. ServerOK' /\ BoundsOK'
  BY <1>1 DEF Left, Stray, ServerOK, BoundsOK
<1>9. QED
  BY <1>6, <1>7, <1>8, TypeParts

LEMMA HandleType ==
  ASSUME TypeOK, NEW p \in Colors, Handle(p)
  PROVE  TypeOK'
<1> DEFINE m == Head(inbox[p])
           pg == Taking(page[p])
<1>1. ServerOK /\ BoundsOK /\ RequestsOK /\ PagesOK
  BY TypeParts
<1>2. /\ page[p].polled > 0 /\ inbox' = [inbox EXCEPT ![p] = Tail(@)]
      /\ UNCHANGED <<log, over, late, clicks>>
  BY DEF Handle
<1>3. \/ HandleAnswer(p, m, pg) \/ HandleUnheard(p, m, pg) \/ HandleOpponentMove(p, m, pg)
      \/ HandleGameEnd(p, m, pg) \/ HandleStatus(p, m, pg)
  BY DEF Handle, Taking
<1>4. GoodPage(pg) /\ pg.polled = page[p].polled - 1 /\ m \in Messages
  BY <1>2, TakingType
<1> HIDE DEF pg, m
<1>5. pg \in Pages /\ pg.calls \subseteq PageCalls
  BY <1>4, PageFields DEF GoodPage
<1>6. ASSUME NEW n, GoodPage(n), n.polled = pg.polled, page' = [page EXCEPT ![p] = n],
             RequestsOK', up' = up, bound' = bound, astray' \in [Colors -> BOOLEAN],
             faults' \in 0 .. MaxFaults
      PROVE  TypeOK'
  <2>1. PagesOK'
    BY <1>2, <1>4, <1>6, TakenType
  <2>2. ServerOK' /\ BoundsOK'
    BY <1>1, <1>2, <1>6 DEF ServerOK, BoundsOK
  <2>3. QED
    BY <1>6, <2>1, <2>2, TypeParts
<1>7. astray \in [Colors -> BOOLEAN] /\ faults \in 0 .. MaxFaults
  BY <1>1 DEF ServerOK, BoundsOK
<1>8. CASE HandleAnswer(p, m, pg)
  <2>1. /\ requests' = requests /\ up' = up /\ bound' = bound /\ faults' = faults
        /\ astray' \in [Colors -> BOOLEAN]
    BY <1>7, <1>8 DEF HandleAnswer, Stray
  <2>2. RequestsOK'
    BY <1>1, <2>1 DEF RequestsOK
  <2>3. \/ page' = [page EXCEPT ![p] = pg]
        \/ \E c \in pg.calls : page' = [page EXCEPT ![p] = Resolved(pg, c, m)]
    BY <1>8 DEF HandleAnswer
  <2>4. CASE page' = [page EXCEPT ![p] = pg]
    BY <1>4, <1>6, <1>7, <2>1, <2>2, <2>4
  <2>5. ASSUME NEW c \in pg.calls, page' = [page EXCEPT ![p] = Resolved(pg, c, m)]
        PROVE  TypeOK'
    <3>1. GoodPage(Resolved(pg, c, m)) /\ Resolved(pg, c, m).polled = pg.polled
      BY <1>4, ResolvedType
    <3>2. QED
      BY <1>6, <1>7, <2>1, <2>2, <2>5, <3>1
  <2>6. QED
    BY <2>3, <2>4, <2>5
<1>9. CASE HandleUnheard(p, m, pg)
  <2>1. /\ requests' = requests /\ up' = up /\ bound' = bound /\ faults' = faults
        /\ astray' \in [Colors -> BOOLEAN] /\ page' = [page EXCEPT ![p] = pg]
    BY <1>7, <1>9 DEF HandleUnheard, Stray
  <2>2. RequestsOK'
    BY <1>1, <2>1 DEF RequestsOK
  <2>3. QED
    BY <1>4, <1>6, <1>7, <2>1, <2>2
<1>10. CASE HandleOpponentMove(p, m, pg)
  <2>1. PICK found \in IF Agrees(pg, m.at) THEN {m.move} ELSE Moves \cup {None} :
          LET n == IF found = None THEN [pg EXCEPT !.myTurn = @ \/ pg.where = "playing"]
                   ELSE [Executed([pg EXCEPT !.turn = found.color], found) EXCEPT !.myTurn = TRUE]
          IN  page' = [page EXCEPT ![p] = n] /\ requests' = Reported(p, n)
    BY <1>10 DEF HandleOpponentMove
  <2>2. found \in Moves \cup {None}
    BY <1>4, <2>1 DEF Messages
  <2>3. /\ up' = up /\ bound' = bound /\ faults' = faults /\ astray' \in [Colors -> BOOLEAN]
    BY <1>7, <1>10 DEF HandleOpponentMove, Stray
  <2>4. CASE found = None
    <3> DEFINE n == [pg EXCEPT !.myTurn = @ \/ pg.where = "playing"]
    <3>1. GoodPage(n) /\ n.polled = pg.polled
      BY <1>4 DEF GoodPage, Pages, OwnSeqs
    <3>2. page' = [page EXCEPT ![p] = n] /\ requests' = Reported(p, n)
      BY <2>1, <2>4
    <3> HIDE DEF n
    <3>3. RequestsOK'
      BY <1>1, <3>2, ReportedType DEF RequestsOK
    <3>4. QED
      BY <1>6, <1>7, <2>3, <3>1, <3>2, <3>3
  <2>5. CASE found # None
    <3> DEFINE f == [pg EXCEPT !.turn = found.color]
               e == Executed(f, found)
               n == [e EXCEPT !.myTurn = TRUE]
    <3>1. found \in Moves /\ found.color \in Colors
      BY <2>2, <2>5 DEF Moves
    <3>2. GoodPage(f) /\ f.polled = pg.polled
      BY <1>4, <3>1 DEF GoodPage, Pages, OwnSeqs
    <3>3. page' = [page EXCEPT ![p] = n] /\ requests' = Reported(p, n)
      BY <2>1, <2>5
    <3> HIDE DEF f
    <3>4. GoodPage(e) /\ e.polled = pg.polled
      BY <3>1, <3>2, ExecutedType
    <3> HIDE DEF e
    <3>5. GoodPage(n) /\ n.polled = pg.polled
      BY <3>4 DEF GoodPage, Pages, OwnSeqs
    <3> HIDE DEF n
    <3>6. RequestsOK'
      BY <1>1, <3>3, ReportedType DEF RequestsOK
    <3>7. QED
      BY <1>6, <1>7, <2>3, <3>3, <3>5, <3>6
  <2>6. QED
    BY <2>4, <2>5
<1>11. CASE HandleGameEnd(p, m, pg)
  <2> DEFINE n == [pg EXCEPT !.online = FALSE, !.myTurn = FALSE,
                             !.status = @ /\ pg.where # "playing"]
  <2>1. GoodPage(n) /\ n.polled = pg.polled
    BY <1>4 DEF GoodPage, Pages, OwnSeqs
  <2>2. /\ requests' = requests /\ up' = up /\ bound' = bound /\ faults' = faults
        /\ astray' = astray /\ page' = [page EXCEPT ![p] = n]
    BY <1>11 DEF HandleGameEnd
  <2> HIDE DEF n
  <2>3. RequestsOK'
    BY <1>1, <2>2 DEF RequestsOK
  <2>4. QED
    BY <1>6, <1>7, <2>1, <2>2, <2>3
<1>12. CASE HandleStatus(p, m, pg)
  <2>1. CASE m.kind = "reconnecting"
    <3> DEFINE n == [pg EXCEPT !.connected = FALSE]
    <3>1. GoodPage(n) /\ n.polled = pg.polled
      BY <1>4 DEF GoodPage, Pages, OwnSeqs
    <3>2. /\ requests' = requests /\ up' = up /\ bound' = bound /\ faults' = faults
          /\ astray' = astray /\ page' = [page EXCEPT ![p] = n]
      BY <1>12, <2>1 DEF HandleStatus
    <3> HIDE DEF n
    <3>3. RequestsOK'
      BY <1>1, <3>2 DEF RequestsOK
    <3>4. QED
      BY <1>6, <1>7, <3>1, <3>2, <3>3
  <2>2. CASE m.kind # "reconnecting"
    <3> DEFINE f == [pg EXCEPT !.connected = TRUE]
    <3>1. GoodPage(f) /\ f.polled = pg.polled
      BY <1>4 DEF GoodPage, Pages, OwnSeqs
    <3>2. Call(p, f, "relogin", None) /\ up' = up /\ bound' = bound /\ astray' = astray
      BY <1>12, <2>2 DEF HandleStatus
    <3> HIDE DEF f
    <3>3. /\ RequestsOK' /\ faults' \in 0 .. MaxFaults
          /\ \E n : GoodPage(n) /\ n.polled = f.polled /\ page' = [page EXCEPT ![p] = n]
      BY <3>1, <3>2, CallType
    <3>4. QED
      BY <1>6, <1>7, <3>1, <3>2, <3>3
  <2>3. QED
    BY <2>1, <2>2
<1>13. QED
  BY <1>3, <1>8, <1>9, <1>10, <1>11, <1>12

LEMMA ContinueType ==
  ASSUME TypeOK, NEW p \in Colors, Continue(p)
  PROVE  TypeOK'
<1> DEFINE j == Head(page[p].jobs)
           pg == Beginning(page[p])
<1>1. ServerOK /\ BoundsOK /\ RequestsOK /\ PagesOK
  BY TypeParts
<1>2. page[p].jobs # <<>> /\ UNCHANGED <<log, over, late, clicks>>
  BY DEF Continue
<1>3. \/ AfterLogin(p, j, pg) \/ AfterJoin(p, j, pg) \/ AfterMove(p, j, pg)
      \/ AfterRelogin(p, j, pg) \/ AfterRejoin(p, j, pg)
  BY DEF Continue, Beginning
<1>4. GoodPage(pg) /\ pg.polled = page[p].polled /\ j \in Jobs
  BY <1>2, BeginningType
<1> HIDE DEF pg, j
<1>5. /\ pg \in Pages /\ pg.held \in Moves \cup {None} /\ pg.polled \in Nat
      /\ j.ok \in BOOLEAN /\ j.mine \in BOOLEAN
  BY <1>4, PageFields DEF GoodPage, Jobs
<1>6. ASSUME NEW n, GoodPage(n), n.polled = pg.polled, page' = [page EXCEPT ![p] = n],
             inbox' = inbox, RequestsOK', up' = up, bound' = bound, astray' = astray,
             faults' \in 0 .. MaxFaults
      PROVE  TypeOK'
  <2>1. n.polled =< page[p].polled
    BY <1>4, <1>5, <1>6
  <2>2. PagesOK'
    BY <1>1, <1>6, <2>1, RewriteType
  <2>3. ServerOK' /\ BoundsOK'
    BY <1>1, <1>2, <1>6 DEF ServerOK, BoundsOK
  <2>4. QED
    BY <1>6, <2>2, <2>3, TypeParts
<1>7. faults \in 0 .. MaxFaults
  BY <1>1 DEF BoundsOK
<1>8. ASSUME NEW kind \in {"password", "join", "repassword", "rejoin"}, NEW f, GoodPage(f), f.polled = pg.polled,
             Call(p, f, kind, None), inbox' = inbox, up' = up, bound' = bound, astray' = astray
      PROVE  TypeOK'
  <2>1. /\ RequestsOK' /\ faults' \in 0 .. MaxFaults
        /\ \E n : GoodPage(n) /\ n.polled = f.polled /\ page' = [page EXCEPT ![p] = n]
    BY <1>8, CallType
  <2>2. QED
    BY <1>6, <1>8, <2>1
<1>9. CASE AfterLogin(p, j, pg)
  <2> DEFINE f == [pg EXCEPT !.where = "joining"]
  <2>1. GoodPage(f) /\ f.polled = pg.polled
    BY <1>4 DEF GoodPage, Pages, OwnSeqs
  <2>2. /\ Call(p, f, "join", None) \/ Call(p, pg, "password", None)
        /\ inbox' = inbox /\ up' = up /\ bound' = bound /\ astray' = astray
    BY <1>9 DEF AfterLogin
  <2> HIDE DEF f
  <2>3. CASE Call(p, f, "join", None)
    BY <1>8, <2>1, <2>2, <2>3
  <2>4. CASE Call(p, pg, "password", None)
    BY <1>4, <1>8, <2>2, <2>4
  <2>5. QED
    BY <2>2, <2>3, <2>4
<1>10. CASE AfterJoin(p, j, pg)
  <2> DEFINE mine == IF j.ok THEN j.mine ELSE pg.myTurn
             n == [pg EXCEPT !.where = "playing", !.myTurn = mine, !.status = TRUE,
                             !.board = <<>>, !.local = 0, !.turn = "red", !.held = None]
  <2>1. mine \in BOOLEAN /\ <<>> \in Seq(Moves) /\ "red" \in Colors
    BY <1>5, PageFields DEF Colors
  <2>2. /\ requests' = requests /\ inbox' = inbox /\ up' = up /\ bound' = bound
        /\ faults' = faults /\ astray' = astray /\ page' = [page EXCEPT ![p] = n]
    BY <1>10 DEF AfterJoin
  <2> HIDE DEF mine
  <2>5. /\ n \in Pages /\ n.polled = pg.polled /\ n.seq = pg.seq /\ n.calls = pg.calls
        /\ n.local = 0 /\ n.board = <<>>
    BY <1>5, <2>1 DEF Pages
  <2>6. GoodPage(n)
    BY <1>4, <2>5 DEF GoodPage, OwnSeqs
  <2> HIDE DEF n
  <2>3. RequestsOK'
    BY <1>1, <2>2 DEF RequestsOK
  <2>4. QED
    BY <1>6, <1>7, <2>2, <2>3, <2>5, <2>6
<1>11. CASE AfterMove(p, j, pg)
  <2> DEFINE k == [pg EXCEPT !.myTurn = @ /\ j.mine]
             e == Executed(pg, pg.held)
             f == [e EXCEPT !.myTurn = FALSE]
  <2>1. PICK n : /\ n = k \/ n = pg \/ (pg.held # None /\ n = f)
                 /\ page' = [page EXCEPT ![p] = n] /\ requests' = Reported(p, n)
    BY <1>11 DEF AfterMove
  <2>2. GoodPage(k) /\ k.polled = pg.polled
    BY <1>4, <1>5 DEF GoodPage, Pages, OwnSeqs
  <2>3. pg.held # None => GoodPage(e) /\ e.polled = pg.polled
    BY <1>4, <1>5, ExecutedType
  <2> HIDE DEF k, e
  <2>4. pg.held # None => GoodPage(f) /\ f.polled = pg.polled
    BY <2>3 DEF GoodPage, Pages, OwnSeqs
  <2> HIDE DEF f
  <2>5. GoodPage(n) /\ n.polled = pg.polled
    BY <1>4, <2>1, <2>2, <2>4
  <2>6. RequestsOK'
    BY <1>1, <2>1, ReportedType DEF RequestsOK
  <2>7. inbox' = inbox /\ up' = up /\ bound' = bound /\ faults' = faults /\ astray' = astray
    BY <1>11 DEF AfterMove
  <2>8. QED
    BY <1>6, <1>7, <2>1, <2>5, <2>6, <2>7
<1>12. CASE AfterRelogin(p, j, pg)
  <2>1. CASE j.ok /\ pg.where = "playing"
    <3>1. /\ Call(p, pg, "rejoin", None) /\ inbox' = inbox /\ up' = up /\ bound' = bound
          /\ astray' = astray
      BY <1>12, <2>1 DEF AfterRelogin
    <3>2. QED
      BY <1>4, <1>8, <3>1
  <2>2. CASE j.ok /\ pg.where # "playing"
    <3>1. /\ requests' = requests /\ inbox' = inbox /\ up' = up /\ bound' = bound
          /\ faults' = faults /\ astray' = astray /\ page' = [page EXCEPT ![p] = pg]
      BY <1>12, <2>2 DEF AfterRelogin
    <3>2. RequestsOK'
      BY <1>1, <3>1 DEF RequestsOK
    <3>3. QED
      BY <1>4, <1>6, <1>7, <3>1, <3>2
  <2>3. CASE ~j.ok
    <3>1. \/ Left(p)
          \/ /\ Call(p, pg, "repassword", None) /\ inbox' = inbox /\ up' = up /\ bound' = bound
             /\ astray' = astray
      BY <1>12, <2>3 DEF AfterRelogin
    <3>2. CASE Left(p)
      BY <1>2, <3>2, LeftType
    <3>3. CASE /\ Call(p, pg, "repassword", None) /\ inbox' = inbox /\ up' = up /\ bound' = bound
               /\ astray' = astray
      BY <1>4, <1>8, <3>3
    <3>4. QED
      BY <3>1, <3>2, <3>3
  <2>4. QED
    BY <1>5, <2>1, <2>2, <2>3
<1>13. CASE AfterRejoin(p, j, pg)
  <2>1. CASE j.ok
    <3> DEFINE n == [pg EXCEPT !.myTurn = j.mine]
    <3>1. GoodPage(n) /\ n.polled = pg.polled
      BY <1>4, <1>5 DEF GoodPage, Pages, OwnSeqs
    <3>2. /\ requests' = requests /\ inbox' = inbox /\ up' = up /\ bound' = bound
          /\ faults' = faults /\ astray' = astray /\ page' = [page EXCEPT ![p] = n]
      BY <1>13, <2>1 DEF AfterRejoin
    <3> HIDE DEF n
    <3>3. RequestsOK'
      BY <1>1, <3>2 DEF RequestsOK
    <3>4. QED
      BY <1>6, <1>7, <3>1, <3>2, <3>3
  <2>2. CASE ~j.ok
    <3>1. Left(p)
      BY <1>13, <2>2 DEF AfterRejoin
    <3>2. QED
      BY <1>2, <3>1, LeftType
  <2>3. QED
    BY <1>5, <2>1, <2>2
<1>14. QED
  BY <1>3, <1>9, <1>10, <1>11, <1>12, <1>13

\* The player, and the connection.
LEMMA ClickType ==
  ASSUME TypeOK, NEW p \in Colors, Click(p)
  PROVE  TypeOK'
<1> DEFINE m == [color |-> page[p].turn, piece |-> "asked"]
           f == [page[p] EXCEPT !.held = m]
<1>1. /\ ServerOK /\ BoundsOK /\ RequestsOK /\ PagesOK /\ GoodPage(page[p])
      /\ page[p].polled \in Nat /\ page[p].turn \in Colors
  BY TypeParts, PageFields DEF PagesOK, GoodPage
<1>2. m \in Moves /\ m # None
  BY <1>1, PlayAssumption DEF Moves, Pieces
<1>3. Call(p, f, "move", m)
  BY DEF Click
<1> HIDE DEF m
<1>4. GoodPage(f) /\ f.polled = page[p].polled
  BY <1>1, <1>2 DEF GoodPage, Pages, OwnSeqs
<1> HIDE DEF f
<1>5. /\ RequestsOK' /\ faults' \in 0 .. MaxFaults
      /\ \E n : GoodPage(n) /\ n.polled = f.polled /\ page' = [page EXCEPT ![p] = n]
  BY <1>2, <1>3, <1>4, CallType
<1>6. PICK n : GoodPage(n) /\ n.polled = f.polled /\ page' = [page EXCEPT ![p] = n]
  BY <1>5
<1>7. n.polled =< page[p].polled /\ inbox' = inbox
  BY <1>1, <1>4, <1>6 DEF Click
<1>8. PagesOK'
  BY <1>1, <1>6, <1>7, RewriteType
<1>9. clicks' \in 0 .. MaxClicks
  BY <1>1, PlayAssumption DEF Click, BoundsOK
<1>10. ServerOK'
  BY <1>1 DEF Click, Stray, ServerOK
<1>11. QED
  BY <1>5, <1>8, <1>9, <1>10, TypeParts DEF BoundsOK

LEMMA RepickType ==
  ASSUME TypeOK, NEW p \in Colors, Repick(p)
  PROVE  TypeOK'
<1>1. /\ ServerOK /\ BoundsOK /\ RequestsOK /\ PagesOK /\ GoodPage(page[p])
      /\ page[p].polled \in Nat /\ page[p].turn \in Colors
  BY TypeParts, PageFields DEF PagesOK, GoodPage
<1>2. PICK m \in {[color |-> page[p].turn, piece |-> "another"], None} :
        page' = [page EXCEPT ![p].held = m]
  BY DEF Repick
<1>3. m \in Moves \cup {None}
  BY <1>1, <1>2 DEF Moves, Pieces
<1> DEFINE n == [page[p] EXCEPT !.held = m]
<1>4. GoodPage(n) /\ n.polled = page[p].polled
  BY <1>1, <1>3 DEF GoodPage, Pages, OwnSeqs
<1>5. page' = [page EXCEPT ![p] = n] /\ inbox' = inbox
  BY <1>1, <1>2 DEF PagesOK, Repick
<1> HIDE DEF n
<1>6. n.polled =< page[p].polled
  BY <1>1, <1>4
<1>7. PagesOK'
  BY <1>1, <1>4, <1>5, <1>6, RewriteType
<1>8. BoundsOK'
  BY <1>1, PlayAssumption DEF Repick, BoundsOK
<1>9. ServerOK' /\ RequestsOK'
  BY <1>1 DEF Repick, Stray, ServerOK, RequestsOK
<1>10. QED
  BY <1>7, <1>8, <1>9, TypeParts

\* A step that rewrites a page, a request more or none, and counts clicks.
LEMMA RewritesType ==
  ASSUME TypeOK, NEW p \in Colors, NEW n, GoodPage(n), n.polled = page[p].polled,
         page' = [page EXCEPT ![p] = n], clicks' \in 0 .. MaxClicks, RequestsOK',
         UNCHANGED <<log, over, late, bound, up, inbox, faults>>, astray' \in [Colors -> BOOLEAN]
  PROVE  TypeOK'
<1>1. ServerOK /\ BoundsOK /\ RequestsOK /\ PagesOK /\ page[p].polled \in Nat
  BY TypeParts, PageFields DEF PagesOK
<1>2. n.polled =< page[p].polled /\ inbox' = inbox
  BY <1>1
<1>3. PagesOK'
  BY <1>1, <1>2, RewriteType
<1>4. ServerOK' /\ BoundsOK'
  BY <1>1 DEF ServerOK, BoundsOK
<1>5. QED
  BY <1>3, <1>4, TypeParts

LEMMA ClickOfflineType ==
  ASSUME TypeOK, NEW p \in Colors, ClickOffline(p)
  PROVE  TypeOK'
<1> DEFINE m == [color |-> page[p].turn, piece |-> "asked"]
           e == Executed(page[p], m)
           n == [e EXCEPT !.local = @ + 1]
<1>1. /\ ServerOK /\ BoundsOK /\ RequestsOK /\ PagesOK /\ GoodPage(page[p])
      /\ page \in [Colors -> Pages] /\ page[p].turn \in Colors
  BY TypeParts, PageFields DEF PagesOK, GoodPage
<1>2. m \in Moves
  BY <1>1 DEF Moves, Pieces
<1>3. page' = [page EXCEPT ![p] = n]
  <2>1. page' = [page EXCEPT ![p] = MovedAlone(@, m)]
    BY DEF ClickOffline
  <2> HIDE DEF m
  <2>2. page' = [page EXCEPT ![p] = MovedAlone(page[p], m)]
    BY <1>1, <2>1
  <2>3. QED
    BY <2>2 DEF MovedAlone
<1> HIDE DEF m
<1>4. GoodPage(e) /\ e.polled = page[p].polled
  BY <1>1, <1>2, ExecutedType
<1> HIDE DEF e
<1>5. GoodPage(n) /\ n.polled = page[p].polled
  <2>1. e.local = page[p].local /\ Len(e.board) = Len(page[p].board) + 1
    BY <1>1, <1>2, PageFields DEF e, Executed, Pages
  <2>2. /\ n \in Pages /\ n.polled = page[p].polled /\ n.local = e.local + 1 /\ n.board = e.board
        /\ n.calls = e.calls /\ n.seq = e.seq
    <3>1. e \in Pages /\ e.local + 1 \in Nat
      BY <1>4, PageFields DEF GoodPage
    <3>2. QED
      BY <1>4, <3>1 DEF Pages
  <2> HIDE DEF n
  <2>3. n.local =< Len(n.board)
    BY <1>1, <2>1, <2>2, PageFields DEF GoodPage, OwnSeqs
  <2>4. QED
    BY <1>4, <2>2, <2>3 DEF GoodPage, OwnSeqs
<1> HIDE DEF n
<1>6. clicks' \in 0 .. MaxClicks
  BY <1>1, PlayAssumption DEF ClickOffline, BoundsOK
<1>7. UNCHANGED <<log, over, late, bound, up, requests, inbox, faults>>
  BY DEF ClickOffline
<1>8. astray' \in [Colors -> BOOLEAN]
  BY <1>1 DEF ClickOffline, Stray, ServerOK
<1>9. RequestsOK'
  BY <1>1, <1>7 DEF RequestsOK
<1>10. QED
  BY <1>3, <1>5, <1>6, <1>7, <1>8, <1>9, RewritesType

\* A page whose board takes clicks no longer, or as before.
LEMMA LockedType ==
  ASSUME TypeOK, NEW p \in Colors, NEW open \in BOOLEAN
  PROVE  LET n == [page[p] EXCEPT !.status = open] IN GoodPage(n) /\ n.polled = page[p].polled
<1>1. GoodPage(page[p])
  BY TypeParts DEF PagesOK, GoodPage
<1>2. QED
  BY <1>1 DEF GoodPage, Pages, OwnSeqs

LEMMA ResignType ==
  ASSUME TypeOK, NEW p \in Colors, Resign(p)
  PROVE  TypeOK'
<1>1. /\ ServerOK /\ BoundsOK /\ RequestsOK /\ PagesOK /\ page \in [Colors -> Pages]
      /\ page[p].status \in BOOLEAN
  BY TypeParts, PageFields DEF PagesOK
<1>2. PICK locked \in BOOLEAN : page' = [page EXCEPT ![p].status = @ /\ ~locked]
  BY DEF Resign
<1> DEFINE n == [page[p] EXCEPT !.status = page[p].status /\ ~locked]
<1>3. page' = [page EXCEPT ![p] = n]
  BY <1>1, <1>2
<1>4. GoodPage(n) /\ n.polled = page[p].polled
  BY <1>1, LockedType
<1> HIDE DEF n
<1>5. RequestsOK'
  BY <1>1, MessageTypes, RequestedType DEF Resign, RequestsOK
<1>6. clicks' \in 0 .. MaxClicks
  BY <1>1, PlayAssumption DEF Resign, BoundsOK
<1>7. UNCHANGED <<log, over, late, bound, up, inbox, faults, astray>>
  BY DEF Resign
<1>8. QED
  BY <1>1, <1>3, <1>4, <1>5, <1>6, <1>7, RewritesType DEF ServerOK

LEMMA ResignCancelledType ==
  ASSUME TypeOK, NEW p \in Colors, ResignCancelled(p)
  PROVE  TypeOK'
<1>1. ServerOK /\ BoundsOK /\ RequestsOK /\ PagesOK /\ page \in [Colors -> Pages]
  BY TypeParts DEF PagesOK
<1> DEFINE n == [page[p] EXCEPT !.status = FALSE]
<1>2. page' = [page EXCEPT ![p] = n]
  BY <1>1 DEF ResignCancelled
<1>3. GoodPage(n) /\ n.polled = page[p].polled
  BY LockedType
<1> HIDE DEF n
<1>4. clicks' \in 0 .. MaxClicks
  BY <1>1, PlayAssumption DEF ResignCancelled, BoundsOK
<1>5. UNCHANGED <<log, over, late, bound, up, requests, inbox, faults, astray>>
  BY DEF ResignCancelled
<1>6. RequestsOK'
  BY <1>1, <1>5 DEF RequestsOK
<1>7. QED
  BY <1>1, <1>2, <1>3, <1>4, <1>5, <1>6, RewritesType DEF ServerOK

\* The clock.
LEMMA ExpireType ==
  ASSUME TypeOK, Expire
  PROVE  TypeOK'
<1>1. ServerOK /\ BoundsOK /\ RequestsOK /\ PagesOK
  BY TypeParts
<1>2. BoundsOK'
  BY <1>1, PlayAssumption DEF Expire, BoundsOK
<1>3. ServerOK' /\ RequestsOK' /\ PagesOK'
  BY <1>1 DEF Expire, ServerOK, RequestsOK, PagesOK, OwnSeqs
<1>4. QED
  BY <1>2, <1>3, TypeParts

LEMMA SweepType ==
  ASSUME TypeOK, Sweep
  PROVE  TypeOK'
<1>1. ServerOK /\ BoundsOK /\ RequestsOK /\ PagesOK
  BY TypeParts
<1>2. PICK told \in BOOLEAN :
        /\ inbox' = IF told THEN Notified(Notified(inbox, "red", GameEnd), "black", GameEnd)
                    ELSE inbox
        /\ astray' = [q \in Colors |-> astray[q] \/ ~told \/ ~bound[q]]
  BY DEF Sweep
<1>3. page' = page /\ requests' = requests /\ UNCHANGED <<log, late, bound, up, clicks, faults>>
  BY DEF Sweep
<1>4. inbox \in [Colors -> Seq(Messages)] /\ GameEnd \in Messages
  BY <1>1, MessageTypes DEF PagesOK
<1> DEFINE one == Notified(inbox, "red", GameEnd)
           two == Notified(one, "black", GameEnd)
<1>5. /\ one \in [Colors -> Seq(Messages)]
      /\ \A q \in Colors : Len(inbox[q]) =< Len(one[q])
  BY <1>4, NotifiedType, ColorFacts
<1> HIDE DEF one
<1>6. /\ two \in [Colors -> Seq(Messages)]
      /\ \A q \in Colors : Len(one[q]) =< Len(two[q])
  BY <1>4, <1>5, NotifiedType, ColorFacts
<1>7. inbox' = two \/ inbox' = inbox
  BY <1>2 DEF one
<1> HIDE DEF two
<1>8. \A q \in Colors : Len(inbox[q]) \in Nat /\ Len(one[q]) \in Nat /\ Len(two[q]) \in Nat
  BY <1>4, <1>5, <1>6
<1>9. /\ inbox' \in [Colors -> Seq(Messages)]
      /\ \A q \in Colors : Len(inbox[q]) =< Len(inbox'[q])
  BY <1>4, <1>5, <1>6, <1>7, <1>8
<1>10. PagesOK'
  BY <1>1, <1>3, <1>9, PageKeptType
<1>11. astray' \in [Colors -> BOOLEAN]
  BY <1>1, <1>2 DEF ServerOK
<1>12. over' \in BOOLEAN
  BY DEF Sweep
<1>13. ServerOK' /\ BoundsOK' /\ RequestsOK'
  BY <1>1, <1>3, <1>11, <1>12 DEF ServerOK, BoundsOK, RequestsOK
<1>14. QED
  BY <1>10, <1>13, TypeParts

LEMMA LoseType ==
  ASSUME TypeOK, NEW p \in Colors, Lose(p)
  PROVE  TypeOK'
<1>1. ServerOK /\ BoundsOK /\ RequestsOK /\ PagesOK
  BY TypeParts
<1>2. PICK k \in 0 .. Len(inbox[p]) :
        /\ inbox' = [inbox EXCEPT ![p] = Append(SubSeq(@, 1, k), Status("reconnecting"))]
        /\ Stray(p, \E i \in k + 1 .. Len(inbox[p]) : Matters(inbox[p][i]))
  BY DEF Lose
<1>3. inbox \in [Colors -> Seq(Messages)] /\ inbox[p] \in Seq(Messages) /\ Len(inbox[p]) \in Nat
  BY <1>1 DEF PagesOK
<1>4. SubSeq(inbox[p], 1, k) \in Seq(Messages)
  BY <1>2, <1>3
<1>5. Append(SubSeq(inbox[p], 1, k), Status("reconnecting")) \in Seq(Messages)
  BY <1>4, MessageTypes
<1>6. inbox' \in [Colors -> Seq(Messages)] /\ page' = page /\ page[p].polled = 0
  BY <1>2, <1>3, <1>5 DEF Lose, Settled
<1>7. /\ page' = [page EXCEPT ![p] = page[p]] /\ GoodPage(page[p])
      /\ \A q \in Colors \ {p} : inbox'[q] = inbox[q]
  BY <1>1, <1>2, <1>3, <1>6 DEF PagesOK, GoodPage
<1>8. page[p].polled =< Len(inbox'[p])
  BY <1>6
<1>9. PagesOK'
  BY <1>1, <1>6, <1>7, <1>8, PageStepType
<1>10. BoundsOK'
  BY <1>1, PlayAssumption DEF Lose, BoundsOK
<1>11. ServerOK' /\ RequestsOK'
  BY <1>1, <1>2 DEF Lose, Stray, ServerOK, RequestsOK
<1>12. QED
  BY <1>9, <1>10, <1>11, TypeParts

LEMMA ReconnectType ==
  ASSUME TypeOK, NEW p \in Colors, Reconnect(p)
  PROVE  TypeOK'
<1>1. ServerOK /\ BoundsOK /\ RequestsOK /\ PagesOK
  BY TypeParts
<1>2. /\ inbox' \in [Colors -> Seq(Messages)] /\ page' = page
      /\ \A q \in Colors : Len(inbox[q]) =< Len(inbox'[q])
  BY <1>1, MessageTypes, NotifiedType DEF Reconnect, PagesOK
<1>3. PagesOK'
  BY <1>1, <1>2, PageKeptType
<1>4. QED
  BY <1>1, <1>3, TypeParts DEF Reconnect, ServerOK, BoundsOK, RequestsOK

LEMMA InitType == Init => TypeOK
<1> SUFFICES ASSUME Init PROVE TypeOK
  OBVIOUS
<1>1. log \in Seq(Moves)
  BY DEF Init
<1>2. ServerOK /\ BoundsOK
  <2>1. ServerOK
    BY <1>1 DEF Init, ServerOK
  <2>2. MaxClicks \in Nat /\ MaxFaults \in Nat /\ clicks = 0 /\ faults = 0
    BY PlayAssumption DEF Init
  <2>3. QED
    BY <2>1, <2>2 DEF BoundsOK
<1>3. Request("login", None, 1) \in Requests
  BY DEF Request, Requests
<1>4. <<Request("login", None, 1)>> \in Seq(Requests) /\ <<>> \in Seq(Requests)
  BY <1>3
<1>5. RequestsOK
  BY <1>4 DEF Init, RequestsOK
<1>6. \A p \in Colors : /\ page[p] = FreshPage(p) \/ page[p] = LoadedPage(p)
                        /\ inbox[p] = <<>>
  BY DEF Init
<1>7. ASSUME NEW p \in Colors PROVE GoodPage(page[p]) /\ page[p].polled = 0
  <2>1. CASE page[p] = FreshPage(p)
    <3>1. GoodPage(FreshPage(p)) /\ FreshPage(p).polled = 0
      BY FreshTypes
    <3>2. QED
      BY <2>1, <3>1
  <2>2. CASE page[p] = LoadedPage(p)
    <3>1. GoodPage(LoadedPage(p)) /\ LoadedPage(p).polled = 0
      BY FreshTypes
    <3>2. QED
      BY <2>2, <3>1
  <2>3. QED
    BY <1>6, <2>1, <2>2
<1>8. \A p \in Colors : page[p].polled =< Len(inbox[p])
  BY <1>6, <1>7
<1>9. inbox \in [Colors -> Seq(Messages)]
  BY DEF Init
<1>10. page \in [Colors -> Pages]
  BY <1>7 DEF Init, GoodPage
<1>11. PagesOK
  BY <1>7, <1>8, <1>9, <1>10 DEF PagesOK, GoodPage
<1>12. QED
  BY <1>2, <1>5, <1>11, TypeParts

LEMMA NextType == TypeOK /\ [Next]_vars => TypeOK'
<1> SUFFICES ASSUME TypeOK, [Next]_vars PROVE TypeOK'
  OBVIOUS
<1>1. CASE UNCHANGED vars
  BY <1>1 DEF vars, TypeOK
<1>2. CASE Next
  BY <1>2, ServeType, SendReturnsType, PollType, TimeOutType, HandleType, ContinueType, ClickType,
     ClickOfflineType, RepickType, ResignType, ResignCancelledType, LoseType, ReconnectType,
     ExpireType, SweepType DEF Next
<1>3. QED
  BY <1>1, <1>2

\* Every variable has its type, and the calls of a page have sequence numbers of their own
\* (seqCounter in cClientBridge.js).
THEOREM TypeTheorem == Spec => []TypeOK
BY InitType, NextType, PTL DEF Spec

(***************************************************************************)
(* What a step of p's page makes of it, field by field; the other page and *)
(* its queues rest.                                                        *)
(***************************************************************************)
\* Nothing that concerns q changes.
Rests(q) == /\ page'[q] = page[q] /\ requests'[q] = requests[q] /\ inbox'[q] = inbox[q]
            /\ log' = log /\ over' = over /\ astray'[q] = astray[q] /\ up'[q] = up[q]

\* What happens on p's page, or to p's connection.
Own(p) == \/ Poll(p) \/ Handle(p) \/ Continue(p)
          \/ \E c \in page[p].calls : SendReturns(p, c) \/ TimeOut(p, c)
          \/ Click(p) \/ ClickOffline(p) \/ Repick(p) \/ Resign(p) \/ ResignCancelled(p)
          \/ Lose(p) \/ Reconnect(p)

LEMMA OthersRest ==
  ASSUME TypeOK, NEW p \in Colors, NEW q \in Colors \ {p}, Own(p)
  PROVE  Rests(q) /\ log' = log /\ over' = over
<1>1. /\ DOMAIN page = Colors /\ DOMAIN requests = Colors /\ DOMAIN inbox = Colors
      /\ DOMAIN astray = Colors /\ DOMAIN up = Colors
  BY DEF TypeOK
<1> DEFINE Kept == /\ page'[q] = page[q] /\ requests'[q] = requests[q] /\ inbox'[q] = inbox[q]
                   /\ astray'[q] = astray[q] /\ up'[q] = up[q]
<1>2. \A pg, kind, move :
        Call(p, pg, kind, move) => page'[q] = page[q] /\ requests'[q] = requests[q]
  BY <1>1, CallFacts DEF Requested
<1>3. Left(p) => Kept
  BY <1>1 DEF Left, Stray
<1>4. \A pg : Reported(p, pg)[q] = requests[q]
  BY <1>1 DEF Reported, Requested
<1>5. CASE Poll(p)
  BY <1>1, <1>5 DEF Poll, Rests
<1>6. CASE Handle(p)
  <2> DEFINE m == Head(inbox[p])
             pg == Taking(page[p])
  <2>1. \/ HandleAnswer(p, m, pg) \/ HandleUnheard(p, m, pg) \/ HandleOpponentMove(p, m, pg)
        \/ HandleGameEnd(p, m, pg) \/ HandleStatus(p, m, pg)
    BY <1>6 DEF Handle, Taking
  <2>2. inbox'[q] = inbox[q] /\ log' = log /\ over' = over
    BY <1>1, <1>6 DEF Handle
  <2> HIDE DEF m, pg
  <2>3. CASE HandleAnswer(p, m, pg)
    BY <1>1, <2>2, <2>3 DEF HandleAnswer, Stray, Rests
  <2>4. CASE HandleUnheard(p, m, pg)
    BY <1>1, <2>2, <2>4 DEF HandleUnheard, Stray, Rests
  <2>5. CASE HandleOpponentMove(p, m, pg)
    <3>1. PICK n : page' = [page EXCEPT ![p] = n] /\ requests' = Reported(p, n)
      BY <2>5 DEF HandleOpponentMove
    <3>2. up' = up /\ astray'[q] = astray[q]
      BY <1>1, <2>5 DEF HandleOpponentMove, Stray
    <3>3. page'[q] = page[q] /\ requests'[q] = requests[q]
      BY <1>1, <1>4, <3>1
    <3>4. QED
      BY <2>2, <3>2, <3>3 DEF Rests
  <2>6. CASE HandleGameEnd(p, m, pg)
    BY <1>1, <2>2, <2>6 DEF HandleGameEnd, Rests
  <2>7. CASE HandleStatus(p, m, pg)
    <3>1. up' = up /\ astray' = astray
      BY <2>7 DEF HandleStatus
    <3>2. page'[q] = page[q] /\ requests'[q] = requests[q]
      <4>1. CASE m.kind = "reconnecting"
        BY <1>1, <2>7, <4>1 DEF HandleStatus
      <4>2. CASE m.kind # "reconnecting"
        BY <1>2, <2>7, <4>2 DEF HandleStatus
      <4>3. QED
        BY <4>1, <4>2
    <3>3. QED
      BY <2>2, <3>1, <3>2 DEF Rests
  <2>8. QED
    BY <2>1, <2>2, <2>3, <2>4, <2>5, <2>6, <2>7
<1>7. CASE Continue(p)
  <2> DEFINE j == Head(page[p].jobs)
             pg == Beginning(page[p])
  <2>1. \/ AfterLogin(p, j, pg) \/ AfterJoin(p, j, pg) \/ AfterMove(p, j, pg)
        \/ AfterRelogin(p, j, pg) \/ AfterRejoin(p, j, pg)
    BY <1>7 DEF Continue, Beginning
  <2>2. log' = log /\ over' = over
    BY <1>7 DEF Continue
  <2> HIDE DEF j, pg
  <2>3. CASE AfterLogin(p, j, pg)
    BY <1>1, <1>2, <2>2, <2>3 DEF AfterLogin, Rests
  <2>4. CASE AfterJoin(p, j, pg)
    BY <1>1, <2>2, <2>4 DEF AfterJoin, Rests
  <2>5. CASE AfterMove(p, j, pg)
    <3>1. PICK n : page' = [page EXCEPT ![p] = n] /\ requests' = Reported(p, n)
      BY <2>5 DEF AfterMove
    <3>2. QED
      BY <1>1, <1>4, <2>2, <2>5, <3>1 DEF AfterMove, Rests
  <2>6. CASE AfterRelogin(p, j, pg)
    <3>1. CASE ~j.ok
      <4>1. Left(p) \/ (Call(p, pg, "repassword", None) /\ UNCHANGED <<up, bound, inbox, astray>>)
        BY <2>6, <3>1 DEF AfterRelogin
      <4>2. QED
        BY <1>1, <1>2, <1>3, <2>2, <4>1 DEF Rests
    <3>2. CASE j.ok /\ pg.where = "playing"
      BY <1>1, <1>2, <2>2, <2>6, <3>2 DEF AfterRelogin, Rests
    <3>3. CASE j.ok /\ pg.where # "playing"
      BY <1>1, <2>2, <2>6, <3>3 DEF AfterRelogin, Rests
    <3>4. QED
      BY <3>1, <3>2, <3>3
  <2>7. CASE AfterRejoin(p, j, pg)
    <3>1. CASE ~j.ok
      BY <1>3, <2>2, <2>7, <3>1 DEF AfterRejoin, Rests
    <3>2. CASE j.ok
      BY <1>1, <2>2, <2>7, <3>2 DEF AfterRejoin, Rests
    <3>3. QED
      BY <3>1, <3>2
  <2>8. QED
    BY <2>1, <2>2, <2>3, <2>4, <2>5, <2>6, <2>7
<1>8. ASSUME NEW c \in page[p].calls, SendReturns(p, c) PROVE Rests(q) /\ log' = log /\ over' = over
  BY <1>1, <1>8 DEF SendReturns, Rests
<1>9. ASSUME NEW c \in page[p].calls, TimeOut(p, c) PROVE Rests(q) /\ log' = log /\ over' = over
  BY <1>1, <1>9 DEF TimeOut, Stray, Rests
<1>10. CASE Click(p)
  <2>1. PICK pg, m : Call(p, pg, "move", m)
    BY <1>10 DEF Click
  <2>2. page'[q] = page[q] /\ requests'[q] = requests[q]
    BY <1>2, <2>1
  <2>3. QED
    BY <1>1, <1>10, <2>2 DEF Click, Stray, Rests
<1>11. CASE Repick(p)
  BY <1>1, <1>11 DEF Repick, Stray, Rests
<1>12. CASE Resign(p)
  BY <1>1, <1>12 DEF Resign, Requested, Rests
<1>13. CASE Lose(p)
  BY <1>1, <1>13 DEF Lose, Stray, Rests
<1>14. CASE Reconnect(p)
  BY <1>1, <1>14 DEF Reconnect, Rests
<1>15. CASE ClickOffline(p)
  <2>1. PICK n : page' = [page EXCEPT ![p] = n]
    BY <1>15 DEF ClickOffline
  <2>2. QED
    BY <1>1, <1>15, <2>1 DEF ClickOffline, Stray, Rests
<1>16. CASE ResignCancelled(p)
  BY <1>1, <1>16 DEF ResignCancelled, Rests
<1>17. QED
  BY <1>5, <1>6, <1>7, <1>8, <1>9, <1>10, <1>11, <1>12, <1>13, <1>14, <1>15, <1>16 DEF Own

\* The rest of a page stays as it is.
SameView(p) == /\ page'[p].where = page[p].where /\ page'[p].online = page[p].online
               /\ page'[p].connected = page[p].connected
SameBoard(p) == /\ page'[p].myTurn = page[p].myTurn /\ page'[p].turn = page[p].turn
                /\ page'[p].board = page[p].board /\ page'[p].local = page[p].local
                /\ page'[p].held = page[p].held
SameCalls(p) == page'[p].seq = page[p].seq /\ page'[p].calls = page[p].calls

Resulting(c, m) == [call |-> c, ok |-> m.ok, mine |-> m.mine, at |-> m.at]

\* A board that has moved, and the report of a mate that it shows.
Moved(p, m, turn, myTurn) ==
  /\ page'[p].board = Append(page[p].board, m) /\ page'[p].local = page[p].local
  /\ page'[p].turn = turn /\ page'[p].held = None
  /\ page'[p].myTurn = myTurn /\ page'[p].where = page[p].where
  /\ page'[p].connected = page[p].connected
  /\ page'[p].online = (page[p].online /\ Len(page[p].board) + 1 < Mate)
  /\ requests'[p] = IF page[p].online /\ ~page'[p].online /\ page[p].connected /\ up[p]
                    THEN Append(requests[p], EndRequest) ELSE requests[p]

\* A call is made.
Called(p, c, kind, move) ==
  /\ c \in PageCalls /\ c.seq = page[p].seq /\ c.kind = kind /\ c.move = move
  /\ page'[p].seq = page[p].seq + 1 /\ page'[p].calls = page[p].calls \cup {c}
  /\ requests'[p] = IF up[p] THEN Append(requests[p], Request(kind, move, page[p].seq))
                    ELSE requests[p]

\* What becomes of a message m that is handled.
Resolves(p, m) ==
  \E c \in page[p].calls :
     /\ m.kind = "answer" /\ c.seq = m.seq
     /\ SameView(p) /\ SameBoard(p) /\ page'[p].seq = page[p].seq
     /\ page'[p].calls = page[p].calls \ {c}
     /\ page'[p].jobs = Append(page[p].jobs, Resulting(c, m))
     /\ requests'[p] = requests[p] /\ astray'[p] = astray[p]
Misses(p, m) ==
  /\ m.kind \in {"answer", "opponent_move", "game_end"}
  /\ m.kind = "answer" => \A c \in page[p].calls : ~(c.seq = m.seq /\ c.sent)
  /\ m.kind = "answer" /\ m.move = None => astray'[p] = astray[p]
  /\ m.kind # "answer" \/ m.move # None => astray'[p]
  /\ SameView(p) /\ SameBoard(p) /\ SameCalls(p) /\ page'[p].jobs = page[p].jobs
  /\ requests'[p] = requests[p]
Gropes(p, m) ==   \* no piece to move
  /\ m.kind = "opponent_move" /\ ~Agrees(page[p], m.at)
  /\ SameView(p) /\ SameCalls(p) /\ page'[p].jobs = page[p].jobs
  /\ page'[p].turn = page[p].turn /\ page'[p].board = page[p].board
  /\ page'[p].local = page[p].local
  /\ page'[p].held = page[p].held /\ requests'[p] = requests[p]
  /\ astray'[p] = (astray[p] \/ page[p].jobs # <<>> \/ page[p].where = "joining")
Follows(p, m) ==
  /\ m.kind = "opponent_move" /\ page[p].where # "loading"
  /\ \E found \in Moves : /\ Agrees(page[p], m.at) => found = m.move
                          /\ Moved(p, found, Other(found.color), TRUE)
  /\ SameCalls(p) /\ page'[p].jobs = page[p].jobs
  /\ astray'[p] = (astray[p] \/ page[p].jobs # <<>> \/ page[p].where = "joining")
Stops(p, m) ==
  /\ m.kind = "game_end"
  /\ page'[p].where = page[p].where /\ page'[p].connected = page[p].connected
  /\ page'[p].online = FALSE /\ page'[p].myTurn = FALSE
  /\ page'[p].turn = page[p].turn /\ page'[p].board = page[p].board
  /\ page'[p].local = page[p].local
  /\ page'[p].held = page[p].held /\ SameCalls(p) /\ page'[p].jobs = page[p].jobs
  /\ requests'[p] = requests[p] /\ astray'[p] = astray[p]
Waits(p, m) ==
  /\ m.kind = "reconnecting" /\ page'[p].connected = FALSE
  /\ page'[p].where = page[p].where /\ page'[p].online = page[p].online
  /\ SameBoard(p) /\ SameCalls(p) /\ page'[p].jobs = page[p].jobs
  /\ requests'[p] = requests[p] /\ astray'[p] = astray[p]
Returns(p, m) ==
  /\ m.kind = "reconnected" /\ page'[p].connected = TRUE
  /\ page'[p].where = page[p].where /\ page'[p].online = page[p].online
  /\ SameBoard(p) /\ page'[p].jobs = page[p].jobs
  /\ \E c : Called(p, c, "relogin", None)
  /\ astray'[p] = astray[p]

LEMMA TakingFields ==
  ASSUME NEW pg \in Pages
  PROVE  LET n == Taking(pg) IN
         /\ n.where = pg.where /\ n.online = pg.online /\ n.connected = pg.connected
         /\ n.myTurn = pg.myTurn /\ n.turn = pg.turn /\ n.board = pg.board /\ n.held = pg.held
         /\ n.local = pg.local
         /\ n.seq = pg.seq /\ n.jobs = pg.jobs /\ n.calls = pg.calls
BY DEF Taking, Pages

LEMMA AwaitingFields ==
  ASSUME NEW pg \in Pages, NEW c
  PROVE  LET n == Awaiting(pg, c) IN
         /\ n.where = pg.where /\ n.online = pg.online /\ n.connected = pg.connected
         /\ n.myTurn = pg.myTurn /\ n.turn = pg.turn /\ n.board = pg.board /\ n.held = pg.held
         /\ n.local = pg.local
         /\ n.seq = pg.seq + 1 /\ n.jobs = pg.jobs /\ n.calls = pg.calls \cup {c}
BY DEF Awaiting, Pages

LEMMA CallFields ==
  ASSUME TypeOK, NEW p \in Colors, NEW pg \in Pages, NEW move \in Moves \cup {None},
         NEW kind \in {"login", "password", "join", "relogin", "repassword", "rejoin", "move"},
         kind = "move" <=> move # None,
         Call(p, pg, kind, move), pg.seq = page[p].seq, pg.calls = page[p].calls
  PROVE  /\ \E c : Called(p, c, kind, move)
         /\ page'[p].where = pg.where /\ page'[p].online = pg.online
         /\ page'[p].connected = pg.connected /\ page'[p].myTurn = pg.myTurn
         /\ page'[p].turn = pg.turn /\ page'[p].board = pg.board /\ page'[p].held = pg.held
         /\ page'[p].local = pg.local
         /\ page'[p].jobs = pg.jobs /\ faults' \in Nat /\ faults' >= faults
<1>1. PICK sent \in BOOLEAN :
        /\ faults' = IF sent THEN faults ELSE faults + 1
        /\ page' = [page EXCEPT ![p] = Awaiting(pg, PageCall(pg.seq, kind, move, sent))]
  BY CallFacts
<1> DEFINE c == PageCall(pg.seq, kind, move, sent)
<1>2. c \in PageCalls /\ c.seq = page[p].seq /\ c.kind = kind /\ c.move = move
  BY PageFields DEF PageCall, PageCalls
<1>3. page'[p] = Awaiting(pg, c)
  BY <1>1 DEF TypeOK
<1>4. requests'[p] = IF up[p] THEN Append(requests[p], Request(kind, move, page[p].seq))
                     ELSE requests[p]
  <2>1. requests' = Requested(p, Request(kind, move, page[p].seq)) /\ DOMAIN requests = Colors
    BY CallFacts DEF TypeOK
  <2>2. QED
    BY <2>1 DEF Requested
<1> HIDE DEF c
<1>5. Called(p, c, kind, move)
  BY <1>2, <1>3, <1>4, AwaitingFields DEF Called
<1>6. faults' \in Nat /\ faults' >= faults
  BY <1>1, PlayAssumption DEF TypeOK
<1>7. QED
  BY <1>3, <1>5, <1>6, AwaitingFields

LEMMA ReportedFields ==
  ASSUME TypeOK, NEW p \in Colors, NEW n \in Pages, page' = [page EXCEPT ![p] = n],
         requests' = Reported(p, n)
  PROVE  /\ page'[p] = n
         /\ requests'[p] = IF page[p].online /\ ~page'[p].online /\ page[p].connected /\ up[p]
                           THEN Append(requests[p], EndRequest) ELSE requests[p]
BY DEF Reported, Requested, TypeOK

\* A message that is handled.
LEMMA HandleFacts ==
  ASSUME TypeOK, NEW p \in Colors, Handle(p)
  PROVE  LET m == Head(inbox[p]) IN
         /\ inbox[p] # <<>> /\ inbox'[p] = Tail(inbox[p]) /\ m \in Messages
         /\ up'[p] = up[p] /\ faults' \in Nat /\ faults' >= faults
         /\ \/ Resolves(p, m) \/ Misses(p, m) \/ Gropes(p, m) \/ Follows(p, m) \/ Stops(p, m)
            \/ Waits(p, m) \/ Returns(p, m)
<1> DEFINE m == Head(inbox[p])
           pg == Taking(page[p])
           Goal == \/ Resolves(p, m) \/ Misses(p, m) \/ Gropes(p, m) \/ Follows(p, m) \/ Stops(p, m)
                   \/ Waits(p, m) \/ Returns(p, m)
           Faults == faults' \in Nat /\ faults' >= faults
<1>1. page[p] \in Pages /\ faults \in Nat /\ DOMAIN page = Colors /\ DOMAIN astray = Colors
  BY PlayAssumption DEF TypeOK
<1>2. /\ inbox[p] # <<>> /\ inbox'[p] = Tail(inbox[p]) /\ m \in Messages /\ pg \in Pages
  BY TakingType DEF Handle, TypeOK, GoodPage
<1>3. \/ HandleAnswer(p, m, pg) \/ HandleUnheard(p, m, pg) \/ HandleOpponentMove(p, m, pg)
      \/ HandleGameEnd(p, m, pg) \/ HandleStatus(p, m, pg)
  BY DEF Handle, Taking
<1>4. /\ pg.where = page[p].where /\ pg.online = page[p].online
      /\ pg.connected = page[p].connected /\ pg.myTurn = page[p].myTurn
      /\ pg.turn = page[p].turn /\ pg.board = page[p].board /\ pg.held = page[p].held
      /\ pg.local = page[p].local
      /\ pg.seq = page[p].seq /\ pg.jobs = page[p].jobs /\ pg.calls = page[p].calls
  BY <1>1, TakingFields
<1> HIDE DEF m, pg
<1>5. CASE HandleAnswer(p, m, pg)
  <2>1. m.kind = "answer" /\ requests' = requests /\ up' = up /\ faults' = faults
    BY <1>5 DEF HandleAnswer
  <2>2. ASSUME NEW c \in pg.calls, c.seq = m.seq, page' = [page EXCEPT ![p] = Resolved(pg, c, m)],
               astray' = astray
        PROVE  Resolves(p, m)
    <3>1. page'[p] = Resolved(pg, c, m)
      BY <1>1, <2>2
    <3>2. SameView(p) /\ SameBoard(p) /\ page'[p].seq = page[p].seq
      BY <1>2, <1>4, <3>1 DEF Resolved, Pages, SameView, SameBoard
    <3>3. /\ page'[p].calls = page[p].calls \ {c}
          /\ page'[p].jobs = Append(page[p].jobs, Resulting(c, m))
      BY <1>2, <1>4, <3>1 DEF Resolved, Pages, Resulting
    <3>4. QED
      BY <1>4, <2>1, <2>2, <3>2, <3>3 DEF Resolves
  <2>3. ASSUME \A c \in pg.calls : ~(c.seq = m.seq /\ c.sent), page' = [page EXCEPT ![p] = pg],
               Stray(p, m.move # None)
        PROVE  Misses(p, m)
    <3>1. page'[p] = pg /\ astray'[p] = (astray[p] \/ m.move # None)
      BY <1>1, <2>3 DEF Stray
    <3>2. /\ m.move = None => astray'[p] = astray[p]
          /\ m.move # None => astray'[p]
      BY <3>1 DEF TypeOK
    <3>3. SameView(p) /\ SameBoard(p) /\ SameCalls(p) /\ page'[p].jobs = page[p].jobs
      BY <1>4, <3>1 DEF SameView, SameBoard, SameCalls
    <3>4. QED
      BY <1>4, <2>1, <2>3, <3>2, <3>3 DEF Misses
  <2>4. Resolves(p, m) \/ Misses(p, m)
    BY <1>5, <2>2, <2>3 DEF HandleAnswer
  <2>5. QED
    BY <1>1, <1>2, <2>1, <2>4 DEF m
<1>6. CASE HandleUnheard(p, m, pg)
  <2>1. page'[p] = pg /\ astray'[p] /\ requests' = requests /\ up' = up /\ faults' = faults
    BY <1>1, <1>6 DEF HandleUnheard, Stray
  <2>2. m.kind \in {"opponent_move", "game_end"}
    BY <1>6 DEF HandleUnheard
  <2>3. SameView(p) /\ SameBoard(p) /\ SameCalls(p) /\ page'[p].jobs = page[p].jobs
    BY <1>4, <2>1 DEF SameView, SameBoard, SameCalls
  <2>4. Misses(p, m)
    BY <2>1, <2>2, <2>3 DEF Misses
  <2>5. QED
    BY <1>1, <1>2, <2>1, <2>4 DEF m
<1>7. CASE HandleOpponentMove(p, m, pg)
  <2>1. PICK found \in IF Agrees(pg, m.at) THEN {m.move} ELSE Moves \cup {None} :
          LET n == IF found = None THEN [pg EXCEPT !.myTurn = @ \/ pg.where = "playing"]
                   ELSE [Executed([pg EXCEPT !.turn = found.color], found) EXCEPT !.myTurn = TRUE]
          IN  page' = [page EXCEPT ![p] = n] /\ requests' = Reported(p, n)
    BY <1>7 DEF HandleOpponentMove
  <2>2. /\ m.kind = "opponent_move" /\ up' = up /\ faults' = faults
        /\ page[p].where # "loading"
        /\ astray'[p] = (astray[p] \/ page[p].jobs # <<>> \/ page[p].where = "joining")
    BY <1>1, <1>4, <1>7 DEF HandleOpponentMove, Stray
  <2>3. m.move \in Moves /\ (Agrees(pg, m.at) <=> Agrees(page[p], m.at)) /\ None \notin Moves
    BY <1>2, <1>4, <2>2, PlayAssumption DEF Messages, Agrees
  <2>4. CASE found = None
    <3> DEFINE n == [pg EXCEPT !.myTurn = @ \/ pg.where = "playing"]
    <3>1. page' = [page EXCEPT ![p] = n] /\ requests' = Reported(p, n)
      BY <2>1, <2>4
    <3>2. /\ n \in Pages /\ n.where = pg.where /\ n.online = pg.online
          /\ n.connected = pg.connected /\ n.turn = pg.turn /\ n.board = pg.board
          /\ n.local = pg.local /\ n.held = pg.held /\ n.seq = pg.seq /\ n.jobs = pg.jobs
          /\ n.calls = pg.calls
      BY <1>2 DEF Pages
    <3> HIDE DEF n
    <3>3. /\ page'[p] = n
          /\ requests'[p] = IF page[p].online /\ ~page'[p].online /\ page[p].connected /\ up[p]
                            THEN Append(requests[p], EndRequest) ELSE requests[p]
      BY <3>1, <3>2, ReportedFields
    <3>4. ~Agrees(page[p], m.at)
      BY <2>1, <2>3, <2>4
    <3>5. requests'[p] = requests[p]
      BY <1>4, <3>2, <3>3
    <3>6. Gropes(p, m)
      BY <1>4, <2>2, <3>2, <3>3, <3>4, <3>5 DEF Gropes, SameView, SameCalls
    <3>7. QED
      BY <1>1, <1>2, <2>2, <3>6 DEF m
  <2>5. CASE found # None
    <3> DEFINE f == [pg EXCEPT !.turn = found.color]
               n == [Executed(f, found) EXCEPT !.myTurn = TRUE]
    <3>1. found \in Moves /\ found.color \in Colors /\ (Agrees(page[p], m.at) => found = m.move)
      BY <2>1, <2>3, <2>5 DEF Moves
    <3>2. page' = [page EXCEPT ![p] = n] /\ requests' = Reported(p, n)
      BY <2>1, <2>5
    <3>3. /\ f \in Pages /\ f.where = pg.where /\ f.online = pg.online
          /\ f.connected = pg.connected /\ f.turn = found.color /\ f.board = pg.board
          /\ f.local = pg.local /\ f.seq = pg.seq /\ f.jobs = pg.jobs /\ f.calls = pg.calls
      BY <1>2, <3>1 DEF Pages
    <3> HIDE DEF f
    <3>4. /\ Append(f.board, found) \in Seq(Moves) /\ Other(f.turn) \in Colors
          /\ Len(Append(f.board, found)) = Len(page[p].board) + 1
      <4>1. f.board = page[p].board /\ f.board \in Seq(Moves) /\ f.turn \in Colors
        BY <1>4, <3>1, <3>3, PageFields
      <4>2. QED
        BY <3>1, <4>1, ColorFacts
    <3>5. /\ n \in Pages /\ n.where = pg.where /\ n.connected = pg.connected
          /\ n.turn = Other(found.color) /\ n.board = Append(pg.board, found) /\ n.local = pg.local
          /\ n.held = None /\ n.seq = pg.seq /\ n.jobs = pg.jobs /\ n.calls = pg.calls
          /\ n.myTurn = TRUE /\ n.online = (pg.online /\ Len(Append(f.board, found)) < Mate)
      BY <3>3, <3>4 DEF Executed, Pages
    <3> HIDE DEF n
    <3>6. /\ page'[p] = n
          /\ requests'[p] = IF page[p].online /\ ~page'[p].online /\ page[p].connected /\ up[p]
                            THEN Append(requests[p], EndRequest) ELSE requests[p]
      BY <3>2, <3>5, ReportedFields
    <3>7. Moved(p, found, Other(found.color), TRUE)
      BY <1>4, <3>4, <3>5, <3>6 DEF Moved
    <3>8. SameCalls(p) /\ page'[p].jobs = page[p].jobs
      BY <1>4, <3>5, <3>6 DEF SameCalls
    <3>9. Follows(p, m)
      BY <2>2, <3>1, <3>7, <3>8 DEF Follows
    <3>10. QED
      BY <1>1, <1>2, <2>2, <3>9 DEF m
  <2>6. QED
    BY <2>4, <2>5
<1>8. CASE HandleGameEnd(p, m, pg)
  <2> DEFINE n == [pg EXCEPT !.online = FALSE, !.myTurn = FALSE,
                             !.status = @ /\ pg.where # "playing"]
  <2>1. page'[p] = n /\ requests' = requests /\ up' = up /\ faults' = faults /\ astray' = astray
    BY <1>1, <1>8 DEF HandleGameEnd
  <2>2. m.kind = "game_end"
    BY <1>8 DEF HandleGameEnd
  <2>3. Stops(p, m)
    BY <1>2, <1>4, <2>1, <2>2 DEF Stops, SameCalls, Pages
  <2>4. QED
    BY <1>1, <1>2, <2>1, <2>3 DEF m
<1>9. CASE HandleStatus(p, m, pg)
  <2>1. up' = up /\ astray' = astray
    BY <1>9 DEF HandleStatus
  <2>2. CASE m.kind = "reconnecting"
    <3> DEFINE n == [pg EXCEPT !.connected = FALSE]
    <3>1. page'[p] = n /\ requests' = requests /\ faults' = faults
      BY <1>1, <1>9, <2>2 DEF HandleStatus
    <3>2. Waits(p, m)
      BY <1>2, <1>4, <2>1, <2>2, <3>1 DEF Waits, SameBoard, SameCalls, Pages
    <3>3. QED
      BY <1>1, <1>2, <2>1, <3>1, <3>2 DEF m
  <2>3. CASE m.kind # "reconnecting"
    <3> DEFINE f == [pg EXCEPT !.connected = TRUE]
    <3>1. /\ f \in Pages /\ f.where = pg.where /\ f.online = pg.online
          /\ f.connected = TRUE /\ f.myTurn = pg.myTurn /\ f.turn = pg.turn /\ f.board = pg.board
          /\ f.local = pg.local /\ f.held = pg.held /\ f.seq = pg.seq /\ f.jobs = pg.jobs /\ f.calls = pg.calls
      BY <1>2 DEF Pages
    <3>2. m.kind = "reconnected" /\ Call(p, f, "relogin", None)
      BY <1>9, <2>3 DEF HandleStatus
    <3> HIDE DEF f
    <3>3. /\ \E c : Called(p, c, "relogin", None)
          /\ page'[p].where = f.where /\ page'[p].online = f.online
          /\ page'[p].connected = f.connected /\ page'[p].myTurn = f.myTurn
          /\ page'[p].turn = f.turn /\ page'[p].board = f.board /\ page'[p].held = f.held
          /\ page'[p].local = f.local
          /\ page'[p].jobs = f.jobs /\ faults' \in Nat /\ faults' >= faults
      BY <1>4, <3>1, <3>2, CallFields
    <3>4. Returns(p, m)
      BY <1>4, <2>1, <3>1, <3>2, <3>3 DEF Returns, SameBoard
    <3>5. QED
      BY <1>2, <2>1, <3>3, <3>4 DEF m
  <2>4. QED
    BY <2>2, <2>3
<1>10. QED
  BY <1>3, <1>5, <1>6, <1>7, <1>8, <1>9

\* What becomes of a job j that runs.
Enters(p, j) ==
  /\ j.call.kind \in {"login", "password"} /\ page'[p].where = "joining"
  /\ page'[p].online = page[p].online /\ page'[p].connected = page[p].connected
  /\ SameBoard(p) /\ \E c : Called(p, c, "join", None)
SetsUp(p, j) ==
  /\ j.call.kind = "join" /\ page'[p].where = "playing"
  /\ page'[p].online = page[p].online /\ page'[p].connected = page[p].connected
  /\ page'[p].myTurn = (IF j.ok THEN j.mine ELSE page[p].myTurn) /\ page'[p].turn = "red"
  /\ page'[p].board = <<>> /\ page'[p].local = 0 /\ page'[p].held = None
  /\ SameCalls(p) /\ requests'[p] = requests[p]
Retries(p, j) ==
  /\ SameView(p) /\ SameBoard(p)
  /\ \/ j.call.kind = "login" /\ \E c : Called(p, c, "password", None)
     \/ j.call.kind = "relogin" /\ ~j.ok /\ \E c : Called(p, c, "repassword", None)
Rejoins(p, j) ==
  /\ j.call.kind \in {"relogin", "repassword"} /\ SameView(p) /\ SameBoard(p)
  /\ \E c : Called(p, c, "rejoin", None)
Idles(p, j) ==
  /\ j.call.kind \in {"relogin", "repassword"} \/ (j.call.kind = "move" /\ j.ok /\ page[p].held = None)
  /\ SameView(p) /\ SameBoard(p) /\ SameCalls(p) /\ requests'[p] = requests[p]
Learns(p, j) ==
  /\ \/ j.call.kind = "rejoin" /\ j.ok /\ page'[p].myTurn = j.mine
     \/ j.call.kind = "move" /\ ~j.ok /\ page'[p].myTurn = (page[p].myTurn /\ j.mine)
  /\ page'[p].turn = page[p].turn /\ page'[p].board = page[p].board
  /\ page'[p].local = page[p].local
  /\ page'[p].held = page[p].held /\ SameView(p) /\ SameCalls(p) /\ requests'[p] = requests[p]
Plays(p, j) ==
  /\ j.call.kind = "move" /\ j.ok /\ page[p].held \in Moves
  /\ Moved(p, page[p].held, Other(page[p].turn), FALSE) /\ SameCalls(p)
Quits(p, j) ==
  /\ j.call.kind \in {"relogin", "repassword", "rejoin"} /\ page'[p] = LeftPage(p)
  /\ requests'[p] = <<>> /\ inbox'[p] = <<>> /\ astray'[p] /\ ~up'[p]

LEMMA BeginningFields ==
  ASSUME NEW pg \in Pages
  PROVE  LET n == Beginning(pg) IN
         /\ n.where = pg.where /\ n.online = pg.online /\ n.connected = pg.connected
         /\ n.myTurn = pg.myTurn /\ n.turn = pg.turn /\ n.board = pg.board /\ n.held = pg.held
         /\ n.local = pg.local
         /\ n.seq = pg.seq /\ n.jobs = Tail(pg.jobs) /\ n.calls = pg.calls
BY DEF Beginning, Pages

\* A job that runs.
LEMMA ContinueFacts ==
  ASSUME TypeOK, NEW p \in Colors, Continue(p)
  PROVE  LET j == Head(page[p].jobs) IN
         /\ page[p].jobs # <<>> /\ j \in Jobs /\ faults' \in Nat /\ faults' >= faults
         /\ \/ Quits(p, j)
            \/ /\ page'[p].jobs = Tail(page[p].jobs) /\ inbox'[p] = inbox[p]
               /\ astray'[p] = astray[p] /\ up'[p] = up[p]
               /\ \/ Enters(p, j) \/ SetsUp(p, j) \/ Retries(p, j) \/ Rejoins(p, j) \/ Idles(p, j)
                  \/ Learns(p, j) \/ Plays(p, j)
<1> DEFINE j == Head(page[p].jobs)
           pg == Beginning(page[p])
           Mail == inbox'[p] = inbox[p] /\ astray'[p] = astray[p] /\ up'[p] = up[p]
           Rest == page'[p].jobs = Tail(page[p].jobs) /\ Mail
           Ways == \/ Enters(p, j) \/ SetsUp(p, j) \/ Retries(p, j) \/ Rejoins(p, j) \/ Idles(p, j)
                   \/ Learns(p, j) \/ Plays(p, j)
           Goal == /\ faults' \in Nat /\ faults' >= faults
                   /\ Quits(p, j) \/ (Rest /\ Ways)
<1>1. page[p] \in Pages /\ faults \in Nat /\ DOMAIN page = Colors /\ DOMAIN astray = Colors
      /\ DOMAIN requests = Colors /\ DOMAIN inbox = Colors /\ DOMAIN up = Colors
  BY PlayAssumption DEF TypeOK
<1>2. page[p].jobs # <<>> /\ j \in Jobs /\ pg \in Pages
  BY BeginningType DEF Continue, GoodPage
<1>3. \/ AfterLogin(p, j, pg) \/ AfterJoin(p, j, pg) \/ AfterMove(p, j, pg)
      \/ AfterRelogin(p, j, pg) \/ AfterRejoin(p, j, pg)
  BY DEF Continue, Beginning
<1>4. /\ pg.where = page[p].where /\ pg.online = page[p].online
      /\ pg.connected = page[p].connected /\ pg.myTurn = page[p].myTurn
      /\ pg.turn = page[p].turn /\ pg.board = page[p].board /\ pg.held = page[p].held
      /\ pg.local = page[p].local
      /\ pg.seq = page[p].seq /\ pg.jobs = Tail(page[p].jobs) /\ pg.calls = page[p].calls
  BY <1>1, BeginningFields
<1>5. j.ok \in BOOLEAN /\ j.mine \in BOOLEAN /\ pg.held \in Moves \cup {None} /\ pg.turn \in Colors
      /\ pg.board \in Seq(Moves)
  BY <1>2, PageFields DEF Jobs
<1> HIDE DEF j, pg
<1>6. Goal
  <2>1. CASE AfterLogin(p, j, pg)
    <3> DEFINE f == [pg EXCEPT !.where = "joining"]
    <3>1. /\ f \in Pages /\ f.where = "joining" /\ f.online = pg.online
          /\ f.connected = pg.connected /\ f.myTurn = pg.myTurn /\ f.turn = pg.turn
          /\ f.board = pg.board /\ f.local = pg.local /\ f.held = pg.held /\ f.seq = pg.seq
          /\ f.jobs = pg.jobs /\ f.calls = pg.calls
      BY <1>2 DEF Pages
    <3>2. /\ \/ j.call.kind \in {"login", "password"} /\ Call(p, f, "join", None)
             \/ j.call.kind = "login" /\ Call(p, pg, "password", None)
          /\ Mail
      BY <2>1 DEF AfterLogin
    <3> HIDE DEF f
    <3>3. CASE j.call.kind \in {"login", "password"} /\ Call(p, f, "join", None)
      <4>1. /\ \E c : Called(p, c, "join", None)
            /\ page'[p].where = f.where /\ page'[p].online = f.online
            /\ page'[p].connected = f.connected /\ page'[p].myTurn = f.myTurn
            /\ page'[p].turn = f.turn /\ page'[p].board = f.board /\ page'[p].held = f.held
            /\ page'[p].local = f.local
            /\ page'[p].jobs = f.jobs /\ faults' \in Nat /\ faults' >= faults
        BY <1>4, <3>1, <3>3, CallFields
      <4>2. Enters(p, j)
        BY <1>4, <3>1, <3>3, <4>1 DEF Enters, SameBoard
      <4>3. QED
        BY <1>4, <3>1, <3>2, <4>1, <4>2
    <3>4. CASE j.call.kind = "login" /\ Call(p, pg, "password", None)
      <4>1. /\ \E c : Called(p, c, "password", None)
            /\ page'[p].where = pg.where /\ page'[p].online = pg.online
            /\ page'[p].connected = pg.connected /\ page'[p].myTurn = pg.myTurn
            /\ page'[p].turn = pg.turn /\ page'[p].board = pg.board /\ page'[p].held = pg.held
            /\ page'[p].local = pg.local
            /\ page'[p].jobs = pg.jobs /\ faults' \in Nat /\ faults' >= faults
        BY <1>2, <1>4, <3>4, CallFields
      <4>2. Retries(p, j)
        BY <1>4, <3>4, <4>1 DEF Retries, SameView, SameBoard
      <4>3. QED
        BY <1>4, <3>2, <4>1, <4>2
    <3>5. QED
      BY <3>2, <3>3, <3>4
  <2>2. CASE AfterJoin(p, j, pg)
    <3> DEFINE mine == IF j.ok THEN j.mine ELSE pg.myTurn
               n == [pg EXCEPT !.where = "playing", !.myTurn = mine, !.status = TRUE,
                               !.board = <<>>, !.local = 0, !.turn = "red", !.held = None]
    <3>1. /\ page'[p] = n /\ requests' = requests /\ faults' = faults /\ Mail
          /\ j.call.kind = "join"
      BY <1>1, <2>2 DEF AfterJoin
    <3> HIDE DEF mine
    <3>2. SetsUp(p, j) /\ page'[p].jobs = pg.jobs
      BY <1>2, <1>4, <3>1 DEF SetsUp, SameCalls, Pages, mine
    <3>3. QED
      BY <1>1, <1>4, <3>1, <3>2
  <2>3. CASE AfterMove(p, j, pg)
    <3>1. j.call.kind = "move" /\ Mail /\ faults' = faults
      BY <2>3 DEF AfterMove
    <3>2. CASE ~j.ok
      <4> DEFINE n == [pg EXCEPT !.myTurn = @ /\ j.mine]
      <4>1. page' = [page EXCEPT ![p] = n] /\ requests' = Reported(p, n)
        BY <2>3, <3>2 DEF AfterMove
      <4>2. /\ n \in Pages /\ n.where = pg.where /\ n.online = pg.online
            /\ n.connected = pg.connected /\ n.myTurn = (pg.myTurn /\ j.mine) /\ n.turn = pg.turn
            /\ n.board = pg.board /\ n.local = pg.local /\ n.held = pg.held /\ n.seq = pg.seq
            /\ n.jobs = pg.jobs /\ n.calls = pg.calls
        BY <1>2, <1>5 DEF Pages
      <4> HIDE DEF n
      <4>3. page'[p] = n /\ requests'[p] = requests[p]
        BY <1>4, <4>1, <4>2, ReportedFields
      <4>4. Learns(p, j)
        BY <1>4, <3>1, <3>2, <4>2, <4>3 DEF Learns, SameView, SameCalls
      <4>5. QED
        BY <1>1, <1>4, <3>1, <4>2, <4>3, <4>4
    <3>3. CASE j.ok /\ pg.held = None
      <4>1. page' = [page EXCEPT ![p] = pg] /\ requests' = Reported(p, pg)
        BY <2>3, <3>3 DEF AfterMove
      <4>2. page'[p] = pg /\ requests'[p] = requests[p]
        BY <1>2, <1>4, <4>1, ReportedFields
      <4>3. Idles(p, j)
        BY <1>4, <3>1, <3>3, <4>2 DEF Idles, SameView, SameBoard, SameCalls
      <4>4. QED
        BY <1>1, <1>4, <3>1, <4>2, <4>3
    <3>4. CASE j.ok /\ pg.held # None
      <4> DEFINE e == Executed(pg, pg.held)
                 n == [e EXCEPT !.myTurn = FALSE]
      <4>1. page' = [page EXCEPT ![p] = n] /\ requests' = Reported(p, n)
        BY <2>3, <3>4 DEF AfterMove
      <4>2. /\ Append(pg.board, pg.held) \in Seq(Moves) /\ Other(pg.turn) \in Colors
            /\ Len(Append(pg.board, pg.held)) = Len(page[p].board) + 1 /\ pg.held \in Moves
        BY <1>4, <1>5, <3>4, ColorFacts
      <4>3. /\ n \in Pages /\ n.where = pg.where /\ n.connected = pg.connected
            /\ n.turn = Other(pg.turn) /\ n.board = Append(pg.board, pg.held) /\ n.local = pg.local
            /\ n.held = None /\ n.seq = pg.seq /\ n.jobs = pg.jobs /\ n.calls = pg.calls
            /\ n.myTurn = FALSE /\ n.online = (pg.online /\ Len(Append(pg.board, pg.held)) < Mate)
        BY <1>2, <4>2 DEF Executed, Pages
      <4> HIDE DEF n
      <4>4. /\ page'[p] = n
            /\ requests'[p] = IF page[p].online /\ ~page'[p].online /\ page[p].connected /\ up[p]
                              THEN Append(requests[p], EndRequest) ELSE requests[p]
        BY <4>1, <4>3, ReportedFields
      <4>5. Moved(p, page[p].held, Other(page[p].turn), FALSE)
        BY <1>4, <4>2, <4>3, <4>4 DEF Moved
      <4>6. Plays(p, j) /\ page'[p].jobs = pg.jobs
        BY <1>4, <3>1, <3>4, <4>2, <4>3, <4>4, <4>5 DEF Plays, SameCalls
      <4>7. QED
        BY <1>1, <1>4, <3>1, <4>6
    <3>5. QED
      BY <1>5, <3>2, <3>3, <3>4
  <2>4. Left(p) /\ j.call.kind \in {"relogin", "repassword", "rejoin"} => Goal
    <3>1. SUFFICES ASSUME Left(p), j.call.kind \in {"relogin", "repassword", "rejoin"} PROVE Goal
      OBVIOUS
    <3>2. Quits(p, j) /\ faults' = faults
      BY <1>1, <3>1 DEF Left, Stray, Quits
    <3>3. QED
      BY <1>1, <3>2
  <2>5. CASE AfterRelogin(p, j, pg)
    <3>1. j.call.kind \in {"relogin", "repassword"}
      BY <2>5 DEF AfterRelogin
    <3>2. CASE j.ok /\ pg.where = "playing"
      <4>1. Call(p, pg, "rejoin", None) /\ Mail
        BY <2>5, <3>2 DEF AfterRelogin
      <4>2. /\ \E c : Called(p, c, "rejoin", None)
            /\ page'[p].where = pg.where /\ page'[p].online = pg.online
            /\ page'[p].connected = pg.connected /\ page'[p].myTurn = pg.myTurn
            /\ page'[p].turn = pg.turn /\ page'[p].board = pg.board /\ page'[p].held = pg.held
            /\ page'[p].local = pg.local
            /\ page'[p].jobs = pg.jobs /\ faults' \in Nat /\ faults' >= faults
        BY <1>2, <1>4, <4>1, CallFields
      <4>3. Rejoins(p, j)
        BY <1>4, <3>1, <4>2 DEF Rejoins, SameView, SameBoard
      <4>4. QED
        BY <1>4, <4>1, <4>2, <4>3
    <3>3. CASE j.ok /\ pg.where # "playing"
      <4>1. page'[p] = pg /\ requests' = requests /\ faults' = faults /\ Mail
        BY <1>1, <2>5, <3>3 DEF AfterRelogin
      <4>2. Idles(p, j)
        BY <1>4, <3>1, <4>1 DEF Idles, SameView, SameBoard, SameCalls
      <4>3. QED
        BY <1>1, <1>4, <4>1, <4>2
    <3>4. CASE ~j.ok
      <4>1. Left(p) \/ (j.call.kind = "relogin" /\ Call(p, pg, "repassword", None) /\ Mail)
        BY <2>5, <3>4 DEF AfterRelogin
      <4>2. CASE Left(p)
        BY <2>4, <3>1, <4>2
      <4>3. CASE j.call.kind = "relogin" /\ Call(p, pg, "repassword", None) /\ Mail
        <5>1. /\ \E c : Called(p, c, "repassword", None)
              /\ page'[p].where = pg.where /\ page'[p].online = pg.online
              /\ page'[p].connected = pg.connected /\ page'[p].myTurn = pg.myTurn
              /\ page'[p].turn = pg.turn /\ page'[p].board = pg.board
              /\ page'[p].held = pg.held /\ page'[p].local = pg.local
              /\ page'[p].jobs = pg.jobs /\ faults' \in Nat /\ faults' >= faults
          BY <1>2, <1>4, <4>3, CallFields
        <5>2. Retries(p, j)
          BY <1>4, <3>4, <4>3, <5>1 DEF Retries, SameView, SameBoard
        <5>3. QED
          BY <1>4, <4>3, <5>1, <5>2
      <4>4. QED
        BY <4>1, <4>2, <4>3
    <3>5. QED
      BY <1>5, <3>2, <3>3, <3>4
  <2>6. CASE AfterRejoin(p, j, pg)
    <3>1. j.call.kind = "rejoin"
      BY <2>6 DEF AfterRejoin
    <3>2. CASE j.ok
      <4> DEFINE n == [pg EXCEPT !.myTurn = j.mine]
      <4>1. page'[p] = n /\ requests' = requests /\ faults' = faults /\ Mail
        BY <1>1, <2>6, <3>2 DEF AfterRejoin
      <4>2. Learns(p, j) /\ page'[p].jobs = pg.jobs
        BY <1>2, <1>4, <3>1, <3>2, <4>1 DEF Learns, SameView, SameCalls, Pages
      <4>3. QED
        BY <1>1, <1>4, <4>1, <4>2
    <3>3. CASE ~j.ok
      BY <2>4, <2>6, <3>1, <3>3 DEF AfterRejoin
    <3>4. QED
      BY <1>5, <3>2, <3>3
  <2>7. QED
    BY <1>3, <2>1, <2>2, <2>3, <2>5, <2>6
<1>7. QED
  BY <1>2, <1>6 DEF j

Still(p) == SameView(p) /\ SameBoard(p) /\ SameCalls(p) /\ page'[p].jobs = page[p].jobs

\* Steps of the page, the player and the connection that are about no message and no job.
LEMMA SmallFacts ==
  ASSUME TypeOK, NEW p \in Colors
  PROVE  /\ \A c \in page[p].calls : SendReturns(p, c) =>
              /\ ~c.sent /\ SameView(p) /\ SameBoard(p) /\ page'[p].seq = page[p].seq
              /\ page'[p].calls = (page[p].calls \ {c}) \cup {[c EXCEPT !.sent = TRUE]}
              /\ page'[p].jobs = page[p].jobs /\ requests'[p] = requests[p]
              /\ inbox'[p] = inbox[p] /\ astray'[p] = astray[p] /\ up'[p] = up[p]
              /\ faults' = faults
         /\ Poll(p) => /\ Still(p) /\ requests'[p] = requests[p] /\ inbox'[p] = inbox[p]
                       /\ astray'[p] = astray[p] /\ up'[p] = up[p] /\ faults' = faults
         /\ Repick(p) => /\ SameView(p) /\ SameCalls(p) /\ page'[p].jobs = page[p].jobs
                         /\ page'[p].myTurn = page[p].myTurn /\ page'[p].turn = page[p].turn
                         /\ page'[p].board = page[p].board /\ page'[p].local = page[p].local
                         /\ requests'[p] = requests[p]
                         /\ inbox'[p] = inbox[p] /\ astray'[p] /\ up'[p] = up[p]
                         /\ faults' = faults
         /\ ResignCancelled(p) =>
              /\ Still(p) /\ requests'[p] = requests[p] /\ inbox'[p] = inbox[p]
              /\ astray'[p] = astray[p] /\ up'[p] = up[p] /\ faults' = faults
         /\ Resign(p) => /\ Still(p) /\ inbox'[p] = inbox[p]
                         /\ requests'[p] = requests[p]
                            \/ requests'[p] = Append(requests[p], EndRequest)
                         /\ astray'[p] = astray[p] /\ up'[p] = up[p] /\ faults' = faults
         /\ Lose(p) => /\ page'[p] = page[p] /\ requests'[p] = <<>> /\ ~up'[p]
                       /\ faults' = faults + 1
                       /\ \E n \in 0 .. Len(inbox[p]) :
                            /\ inbox'[p] = Append(SubSeq(inbox[p], 1, n), Status("reconnecting"))
                            /\ astray'[p] =
                                 (astray[p] \/ \E i \in n + 1 .. Len(inbox[p]) : Matters(inbox[p][i]))
         /\ Reconnect(p) => /\ page'[p] = page[p] /\ requests'[p] = requests[p] /\ up'[p]
                            /\ inbox'[p] = Append(inbox[p], Status("reconnected"))
                            /\ astray'[p] = astray[p] /\ faults' = faults
                            /\ ~up[p] /\ page[p].where # "left"
<1>1. page[p] \in Pages /\ DOMAIN page = Colors /\ DOMAIN astray = Colors
      /\ DOMAIN requests = Colors /\ DOMAIN inbox = Colors /\ DOMAIN up = Colors
  BY DEF TypeOK
<1>2. ASSUME NEW c \in page[p].calls, SendReturns(p, c)
      PROVE  /\ ~c.sent /\ SameView(p) /\ SameBoard(p) /\ page'[p].seq = page[p].seq
             /\ page'[p].calls = (page[p].calls \ {c}) \cup {[c EXCEPT !.sent = TRUE]}
             /\ page'[p].jobs = page[p].jobs /\ requests'[p] = requests[p]
             /\ inbox'[p] = inbox[p] /\ astray'[p] = astray[p] /\ up'[p] = up[p]
             /\ faults' = faults
  <2> DEFINE d == [c EXCEPT !.sent = TRUE]
  <2>1. page'[p] = [page[p] EXCEPT !.calls = (@ \ {c}) \cup {d}]
    BY <1>1, <1>2 DEF SendReturns
  <2> HIDE DEF d
  <2>2. /\ SameView(p) /\ SameBoard(p) /\ page'[p].seq = page[p].seq
        /\ page'[p].calls = (page[p].calls \ {c}) \cup {d} /\ page'[p].jobs = page[p].jobs
    BY <1>1, <2>1 DEF SameView, SameBoard, Pages
  <2>3. QED
    BY <1>2, <2>2 DEF SendReturns, d
<1>3. ASSUME Poll(p)
      PROVE  /\ Still(p) /\ requests'[p] = requests[p] /\ inbox'[p] = inbox[p]
             /\ astray'[p] = astray[p] /\ up'[p] = up[p] /\ faults' = faults
  <2>1. PICK n : page'[p] = [page[p] EXCEPT !.polled = n]
    BY <1>1, <1>3 DEF Poll
  <2>2. Still(p)
    BY <1>1, <2>1 DEF Still, SameView, SameBoard, SameCalls, Pages
  <2>3. QED
    BY <1>3, <2>2 DEF Poll
<1>4. ASSUME Repick(p)
      PROVE  /\ SameView(p) /\ SameCalls(p) /\ page'[p].jobs = page[p].jobs
             /\ page'[p].myTurn = page[p].myTurn /\ page'[p].turn = page[p].turn
             /\ page'[p].board = page[p].board /\ page'[p].local = page[p].local
             /\ requests'[p] = requests[p]
             /\ inbox'[p] = inbox[p] /\ astray'[p] /\ up'[p] = up[p]
             /\ faults' = faults
  <2>1. PICK m : page'[p] = [page[p] EXCEPT !.held = m]
    BY <1>1, <1>4 DEF Repick
  <2>2. /\ SameView(p) /\ SameCalls(p) /\ page'[p].jobs = page[p].jobs
        /\ page'[p].myTurn = page[p].myTurn /\ page'[p].turn = page[p].turn
        /\ page'[p].board = page[p].board /\ page'[p].local = page[p].local
    BY <1>1, <2>1 DEF SameView, SameCalls, Pages
  <2>3. QED
    BY <1>1, <1>4, <2>2 DEF Repick, Stray
<1>5. ASSUME Resign(p)
      PROVE  /\ Still(p) /\ inbox'[p] = inbox[p]
             /\ requests'[p] = requests[p] \/ requests'[p] = Append(requests[p], EndRequest)
             /\ astray'[p] = astray[p] /\ up'[p] = up[p] /\ faults' = faults
  <2>1. PICK open : page'[p] = [page[p] EXCEPT !.status = open]
    BY <1>1, <1>5 DEF Resign
  <2>2. Still(p)
    BY <1>1, <2>1 DEF Still, SameView, SameBoard, SameCalls, Pages
  <2>3. QED
    BY <1>1, <1>5, <2>2 DEF Resign, Requested
<1>6. ASSUME Lose(p)
      PROVE  /\ page'[p] = page[p] /\ requests'[p] = <<>> /\ ~up'[p]
             /\ faults' = faults + 1
             /\ \E n \in 0 .. Len(inbox[p]) :
                  /\ inbox'[p] = Append(SubSeq(inbox[p], 1, n), Status("reconnecting"))
                  /\ astray'[p] =
                       (astray[p] \/ \E i \in n + 1 .. Len(inbox[p]) : Matters(inbox[p][i]))
  BY <1>1, <1>6 DEF Lose, Stray
<1>7. ASSUME Reconnect(p)
      PROVE  /\ page'[p] = page[p] /\ requests'[p] = requests[p] /\ up'[p]
             /\ inbox'[p] = Append(inbox[p], Status("reconnected"))
             /\ astray'[p] = astray[p] /\ faults' = faults
             /\ ~up[p] /\ page[p].where # "left"
  BY <1>1, <1>7 DEF Reconnect
<1>8. ASSUME ResignCancelled(p)
      PROVE  /\ Still(p) /\ requests'[p] = requests[p] /\ inbox'[p] = inbox[p]
             /\ astray'[p] = astray[p] /\ up'[p] = up[p] /\ faults' = faults
  <2>1. page'[p] = [page[p] EXCEPT !.status = FALSE]
    BY <1>1, <1>8 DEF ResignCancelled
  <2>2. Still(p)
    BY <1>1, <2>1 DEF Still, SameView, SameBoard, SameCalls, Pages
  <2>3. QED
    BY <1>8, <2>2 DEF ResignCancelled
<1>9. QED
  BY <1>2, <1>3, <1>4, <1>5, <1>6, <1>7, <1>8

\* A call that times out, and the underlying choice of a player.
LEMMA TimeOutFacts ==
  ASSUME TypeOK, NEW p \in Colors, NEW c \in page[p].calls, TimeOut(p, c)
  PROVE  /\ SameView(p) /\ SameBoard(p) /\ page'[p].seq = page[p].seq
         /\ page'[p].calls = page[p].calls \ {c}
         /\ page'[p].jobs = <<[call |-> c, ok |-> FALSE, mine |-> TRUE, at |-> 0]>>
         /\ page[p].jobs = <<>> /\ requests'[p] = requests[p] /\ inbox'[p] = inbox[p]
         /\ astray'[p] = (astray[p] \/ (c.kind = "move" /\ Underway(p, c)))
         /\ up'[p] = up[p] /\ faults' \in Nat /\ faults' >= faults
<1> DEFINE m == Answer(c.seq, FALSE, None, TRUE, 0)
<1>1. page[p] \in Pages /\ DOMAIN page = Colors /\ DOMAIN astray = Colors /\ page[p].jobs = <<>>
      /\ faults \in Nat
  BY PlayAssumption DEF TypeOK, TimeOut, Settled
<1>2. page'[p] = Resolved(page[p], c, m)
  BY <1>1 DEF TimeOut
<1>3. m.ok = FALSE /\ m.mine = TRUE /\ m.at = 0
  BY DEF Answer
<1> HIDE DEF m
<1>4. /\ SameView(p) /\ SameBoard(p) /\ page'[p].seq = page[p].seq
      /\ page'[p].calls = page[p].calls \ {c}
      /\ page'[p].jobs = Append(page[p].jobs, [call |-> c, ok |-> m.ok, mine |-> m.mine,
                                               at |-> m.at])
  BY <1>1, <1>2 DEF Resolved, SameView, SameBoard, Pages
<1> DEFINE j == [call |-> c, ok |-> FALSE, mine |-> TRUE, at |-> 0]
<1>5. page'[p].jobs = <<j>>
  <2>1. page'[p].jobs = Append(<<>>, j)
    BY <1>1, <1>3, <1>4
  <2> HIDE DEF j
  <2>2. QED
    BY <2>1
<1>6. astray'[p] = (astray[p] \/ (c.kind = "move" /\ Underway(p, c)))
  BY <1>1 DEF TimeOut, Stray
<1>7. requests' = requests /\ inbox' = inbox /\ up' = up /\ faults' \in Nat /\ faults' >= faults
  BY <1>1 DEF TimeOut
<1>8. QED
  BY <1>1, <1>4, <1>5, <1>6, <1>7

LEMMA ClickFacts ==
  ASSUME TypeOK, NEW p \in Colors, Click(p)
  PROVE  LET m == [color |-> page[p].turn, piece |-> "asked"] IN
         /\ Settled /\ page[p].online /\ page[p].myTurn /\ page[p].connected
         /\ m \in Moves /\ \E c : Called(p, c, "move", m)
         /\ SameView(p) /\ page'[p].jobs = page[p].jobs /\ page'[p].held = m
         /\ page'[p].myTurn = page[p].myTurn /\ page'[p].turn = page[p].turn
         /\ page'[p].board = page[p].board /\ page'[p].local = page[p].local
         /\ inbox'[p] = inbox[p] /\ up'[p] = up[p]
         /\ astray'[p] = (astray[p] \/ Moving(page[p]) \/ page[p].where # "playing")
         /\ faults' \in Nat /\ faults' >= faults
<1> DEFINE m == [color |-> page[p].turn, piece |-> "asked"]
           f == [page[p] EXCEPT !.held = m]
<1>1. page[p] \in Pages /\ DOMAIN page = Colors /\ DOMAIN astray = Colors
  BY DEF TypeOK
<1>2. m \in Moves /\ m # None
  BY <1>1, PageFields, PlayAssumption DEF Moves, Pieces
<1>3. Call(p, f, "move", m)
  BY DEF Click
<1>4. /\ Settled /\ page[p].online /\ page[p].myTurn /\ page[p].connected
      /\ inbox'[p] = inbox[p] /\ up'[p] = up[p]
      /\ astray'[p] = (astray[p] \/ Moving(page[p]) \/ page[p].where # "playing")
  BY <1>1 DEF Click, Stray
<1> HIDE DEF m
<1>5. /\ f \in Pages /\ f.where = page[p].where /\ f.online = page[p].online
      /\ f.connected = page[p].connected /\ f.myTurn = page[p].myTurn /\ f.turn = page[p].turn
      /\ f.board = page[p].board /\ f.local = page[p].local /\ f.held = m /\ f.seq = page[p].seq /\ f.jobs = page[p].jobs
      /\ f.calls = page[p].calls
  BY <1>1, <1>2 DEF Pages
<1> HIDE DEF f
<1>6. /\ \E c : Called(p, c, "move", m)
      /\ page'[p].where = f.where /\ page'[p].online = f.online
      /\ page'[p].connected = f.connected /\ page'[p].myTurn = f.myTurn
      /\ page'[p].turn = f.turn /\ page'[p].board = f.board /\ page'[p].held = f.held
      /\ page'[p].local = f.local
      /\ page'[p].jobs = f.jobs /\ faults' \in Nat /\ faults' >= faults
  BY <1>2, <1>3, <1>5, CallFields
<1>7. SameView(p) /\ page'[p].jobs = page[p].jobs /\ page'[p].held = m
      /\ page'[p].myTurn = page[p].myTurn /\ page'[p].turn = page[p].turn
      /\ page'[p].board = page[p].board /\ page'[p].local = page[p].local
  BY <1>5, <1>6 DEF SameView
<1>8. QED
  BY <1>2, <1>4, <1>6, <1>7 DEF m

\* A click when the game is over for the page.
Dabbles(p) ==
  /\ \E m \in Moves : page'[p].board = Append(page[p].board, m)
  /\ page'[p].local = page[p].local + 1 /\ page'[p].myTurn = page[p].myTurn
  /\ SameView(p) /\ SameCalls(p) /\ page'[p].jobs = page[p].jobs
  /\ requests'[p] = requests[p] /\ inbox'[p] = inbox[p] /\ up'[p] = up[p]
  /\ astray'[p] /\ faults' = faults

LEMMA ClickOfflineFacts ==
  ASSUME TypeOK, NEW p \in Colors, ClickOffline(p)
  PROVE  Dabbles(p) /\ ~page[p].online
<1> DEFINE m == [color |-> page[p].turn, piece |-> "asked"]
           e == Executed(page[p], m)
<1>1. page[p] \in Pages /\ DOMAIN page = Colors /\ DOMAIN astray = Colors
  BY DEF TypeOK
<1>2. m \in Moves
  BY <1>1, PageFields DEF Moves, Pieces
<1>3. ~page[p].online /\ page'[p] = MovedAlone(page[p], m)
  BY <1>1 DEF ClickOffline
<1> HIDE DEF m
<1>4. /\ e \in Pages /\ e.where = page[p].where /\ e.connected = page[p].connected
      /\ e.online = page[p].online /\ e.board = Append(page[p].board, m)
      /\ e.local = page[p].local /\ e.seq = page[p].seq /\ e.calls = page[p].calls
      /\ e.jobs = page[p].jobs /\ e.myTurn = page[p].myTurn
  <2>1. GoodPage(e)
    BY <1>2, TypeParts, ExecutedType DEF PagesOK, GoodPage
  <2>2. QED
    BY <1>1, <1>3, <2>1, PageFields DEF Executed, Pages, GoodPage
<1> HIDE DEF e
<1>5. page'[p] = [e EXCEPT !.local = @ + 1]
  BY <1>3 DEF MovedAlone, e
<1>6. /\ SameView(p) /\ SameCalls(p) /\ page'[p].jobs = page[p].jobs
      /\ page'[p].board = Append(page[p].board, m) /\ page'[p].local = page[p].local + 1
      /\ page'[p].myTurn = page[p].myTurn
  BY <1>4, <1>5 DEF SameView, SameCalls, Pages
<1>7. /\ requests' = requests /\ inbox' = inbox /\ up' = up /\ astray'[p] /\ faults' = faults
  BY <1>1 DEF ClickOffline, Stray
<1>8. QED
  BY <1>2, <1>3, <1>6, <1>7 DEF Dabbles

\* What the server makes of p's request r.
Answers(p, r) ==
  \E ok, mine \in BOOLEAN :
     /\ r.kind # "end"
     /\ r.kind = "move" => ~ok /\ mine = (Awaited = p)
     /\ r.kind \in {"join", "rejoin"} => mine = (Awaited = p)
     /\ inbox'[p] = Append(inbox[p], Answer(r.seq, ok, None, mine, Len(log)))
     /\ \A q \in Colors \ {p} : inbox'[q] = inbox[q]
     /\ log' = log /\ over' = over /\ \A q \in Colors : astray'[q] = astray[q]
Takes(p, r) ==
  /\ r.kind = "move" /\ r.move \in Moves /\ Awaited = p /\ ~over /\ over' = over
  /\ log' = Append(log, r.move) /\ astray'[p] = astray[p]
  /\ inbox'[p] = Append(inbox[p], Answer(r.seq, TRUE, r.move, FALSE, Len(log) + 1))
  /\ \A q \in Colors \ {p} :
        \/ /\ inbox'[q] = Append(inbox[q], OpponentMove(r.move, Len(log) + 1))
           /\ astray'[q] = astray[q]
        \/ inbox'[q] = inbox[q] /\ astray'[q]
Closes(p, r) ==
  /\ r.kind = "end" /\ log' = log /\ over' = TRUE
  /\ \A q \in Colors :
        \/ over /\ inbox'[q] = inbox[q] /\ astray'[q] = astray[q]
        \/ ~over /\ inbox'[q] = Append(inbox[q], GameEnd) /\ astray'[q] = astray[q]
        \/ ~over /\ inbox'[q] = inbox[q] /\ astray'[q]

LEMMA ServeFacts ==
  ASSUME TypeOK, NEW p \in Colors, Serve(p)
  PROVE  LET r == Head(requests[p]) IN
         /\ requests[p] # <<>> /\ r \in Requests /\ requests'[p] = Tail(requests[p])
         /\ page' = page /\ up' = up /\ faults' = faults
         /\ \A q \in Colors : page[q].jobs = <<>> /\ (q # p => requests'[q] = requests[q])
         /\ Answers(p, r) \/ Takes(p, r) \/ Closes(p, r)
<1> DEFINE r == Head(requests[p])
<1>1. /\ DOMAIN page = Colors /\ DOMAIN astray = Colors /\ DOMAIN requests = Colors
      /\ DOMAIN inbox = Colors /\ DOMAIN bound = Colors /\ astray \in [Colors -> BOOLEAN]
      /\ log \in Seq(Moves) /\ over \in BOOLEAN /\ requests[p] \in Seq(Requests)
      /\ bound \in [Colors -> BOOLEAN]
  BY DEF TypeOK
<1>2. /\ requests[p] # <<>> /\ requests' = [requests EXCEPT ![p] = Tail(@)] /\ page' = page
      /\ up' = up /\ faults' = faults /\ bound' = [bound EXCEPT ![p] = TRUE]
  BY DEF Serve
<1>3. r \in Requests
  BY <1>1, <1>2
<1>4. \/ ServeLogin(p, r) \/ ServeJoin(p, r) \/ ServeEnd(p, r)
      \/ ServeMoveRefused(p, r) \/ ServeMoveAccepted(p, r)
  BY DEF Serve
<1>5. \A q \in Colors : page[q].jobs = <<>> /\ (q # p => requests'[q] = requests[q])
  BY <1>1, <1>2 DEF Serve, Settled
<1> HIDE DEF r
<1>6. Answers(p, r) \/ Takes(p, r) \/ Closes(p, r)
  <2>1. ASSUME NEW ok \in BOOLEAN, NEW mine \in BOOLEAN, r.kind # "end",
               r.kind = "move" => ~ok /\ mine = (Awaited = p),
               r.kind \in {"join", "rejoin"} => mine = (Awaited = p),
               inbox' = Answered(p, Answer(r.seq, ok, None, mine, Len(log))),
               log' = log, over' = over, astray' = astray
        PROVE  Answers(p, r)
    <3>1. /\ inbox'[p] = Append(inbox[p], Answer(r.seq, ok, None, mine, Len(log)))
          /\ \A q \in Colors \ {p} : inbox'[q] = inbox[q]
      BY <1>1, <2>1 DEF Answered
    <3>2. QED
      BY <2>1, <3>1 DEF Answers
  <2>2. CASE ServeLogin(p, r)
    BY <2>1, <2>2 DEF ServeLogin
  <2>3. CASE ServeJoin(p, r)
    <3>1. PICK ok \in BOOLEAN :
            inbox' = Answered(p, Answer(r.seq, ok, None, Awaited = p, Len(log)))
      BY <2>3 DEF ServeJoin
    <3>2. QED
      BY <2>1, <2>3, <3>1 DEF ServeJoin
  <2>4. CASE ServeMoveRefused(p, r)
    BY <2>1, <2>4 DEF ServeMoveRefused
  <2>5. CASE ServeMoveAccepted(p, r)
    <3>1. /\ r.kind = "move" /\ ~over /\ Awaited = p /\ over' = over /\ log' = Append(log, r.move)
          /\ astray' = [astray EXCEPT ![Other(p)] = @ \/ ~bound[Other(p)]]
          /\ inbox' = Notified(Answered(p, Answer(r.seq, TRUE, r.move, FALSE, Len(log'))),
                               Other(p), OpponentMove(r.move, Len(log')))
      BY <2>5 DEF ServeMoveAccepted
    <3>2. r.move \in Moves /\ Len(log') = Len(log) + 1
      BY <1>1, <1>3, <3>1 DEF Requests
    <3>3. Other(p) \in Colors /\ Other(p) # p /\ \A q \in Colors \ {p} : q = Other(p)
      BY ColorFacts
    <3> DEFINE a == Answer(r.seq, TRUE, r.move, FALSE, Len(log) + 1)
               o == OpponentMove(r.move, Len(log) + 1)
    <3>4. inbox' = Notified([inbox EXCEPT ![p] = Append(@, a)], Other(p), o)
      BY <3>1, <3>2 DEF Answered
    <3>5. bound'[Other(p)] = bound[Other(p)] /\ bound[Other(p)] \in BOOLEAN
      BY <1>1, <1>2, <3>3
    <3> HIDE DEF a, o
    <3>6. inbox'[p] = Append(inbox[p], a) /\ astray'[p] = astray[p]
      BY <1>1, <3>1, <3>3, <3>4 DEF Notified
    <3>7. \/ inbox'[Other(p)] = Append(inbox[Other(p)], o) /\ astray'[Other(p)] = astray[Other(p)]
          \/ inbox'[Other(p)] = inbox[Other(p)] /\ astray'[Other(p)]
      BY <1>1, <3>1, <3>3, <3>4, <3>5 DEF Notified
    <3>8. Takes(p, r)
      BY <3>1, <3>2, <3>3, <3>6, <3>7 DEF Takes, a, o
    <3>9. QED
      BY <3>8
  <2>6. CASE ServeEnd(p, r)
    <3>1. /\ r.kind = "end" /\ over' = TRUE /\ log' = log
          /\ inbox' = IF over THEN inbox
                      ELSE Notified(Notified(inbox, "red", GameEnd), "black", GameEnd)
          /\ astray' = [q \in Colors |-> astray[q] \/ (~over /\ ~bound'[q])]
      BY <2>6 DEF ServeEnd
    <3> DEFINE g == GameEnd
    <3> HIDE DEF g
    <3>2. ~over => \A q \in Colors : IF bound'[q] THEN inbox'[q] = Append(inbox[q], g)
                                     ELSE inbox'[q] = inbox[q]
      <4>1. SUFFICES ASSUME ~over, NEW q \in Colors
                     PROVE  IF bound'[q] THEN inbox'[q] = Append(inbox[q], g)
                            ELSE inbox'[q] = inbox[q]
        OBVIOUS
      <4>2. inbox' = Notified(Notified(inbox, "red", g), "black", g)
        BY <3>1, <4>1 DEF g
      <4>3. q = "red" \/ q = "black"
        BY DEF Colors
      <4>4. QED
        BY <1>1, <4>2, <4>3, ColorFacts DEF Notified
    <3>3. \A q \in Colors : astray'[q] = (astray[q] \/ (~over /\ ~bound'[q]))
      BY <3>1
    <3>4. \A q \in Colors : astray[q] \in BOOLEAN
      BY <1>1
    <3>5. CASE over
      BY <3>1, <3>3, <3>4, <3>5 DEF Closes
    <3>6. CASE ~over
      BY <3>1, <3>2, <3>3, <3>4, <3>6 DEF Closes, g
    <3>7. QED
      BY <3>5, <3>6
  <2>7. QED
    BY <1>4, <2>2, <2>3, <2>4, <2>5, <2>6
<1>7. requests'[p] = Tail(requests[p])
  BY <1>1, <1>2
<1>8. QED
  BY <1>2, <1>3, <1>5, <1>6, <1>7 DEF r

\* The pages, what is on its way and what the server holds against them stay, whether nothing
\* happens or a clock runs out.
Passes ==
  /\ UNCHANGED <<log, over, up, requests, inbox, page, astray>>
  /\ (faults' = faults /\ late' = late) \/ faults' > 0

\* The sweep ends the match: q is told, or its page is astray.
Swept ==
  /\ late /\ ~over /\ over' = TRUE /\ UNCHANGED <<log, up, requests, page, faults, late>>
  /\ \A q \in Colors : page[q].jobs = <<>>
  /\ \A q \in Colors :
        \/ inbox'[q] = Append(inbox[q], GameEnd) /\ astray'[q] = astray[q]
        \/ inbox'[q] = inbox[q] /\ astray'[q]

LEMMA SweepFacts ==
  ASSUME TypeOK, Sweep
  PROVE  Swept
<1>1. /\ DOMAIN inbox = Colors /\ bound \in [Colors -> BOOLEAN] /\ astray \in [Colors -> BOOLEAN]
  BY DEF TypeOK
<1>2. /\ late /\ ~over /\ over' = TRUE /\ bound' = bound
      /\ UNCHANGED <<log, up, requests, page, faults, late>>
      /\ \A q \in Colors : page[q].jobs = <<>>
  BY DEF Sweep, Settled
<1>3. PICK told \in BOOLEAN :
        /\ inbox' = IF told THEN Notified(Notified(inbox, "red", GameEnd), "black", GameEnd)
                    ELSE inbox
        /\ astray' = [q \in Colors |-> astray[q] \/ ~told \/ ~bound[q]]
  BY DEF Sweep
<1> DEFINE g == GameEnd
<1> HIDE DEF g
<1>4. ASSUME NEW q \in Colors
      PROVE  \/ inbox'[q] = Append(inbox[q], g) /\ astray'[q] = astray[q]
             \/ inbox'[q] = inbox[q] /\ astray'[q]
  <2>1. astray'[q] = (astray[q] \/ ~told \/ ~bound[q])
    BY <1>3
  <2>2. CASE ~told
    BY <1>3, <2>1, <2>2
  <2>3. CASE told
    <3>1. inbox' = Notified(Notified(inbox, "red", g), "black", g)
      BY <1>3, <2>3 DEF g
    <3>2. q = "red" \/ q = "black"
      BY DEF Colors
    <3>3. IF bound[q] THEN inbox'[q] = Append(inbox[q], g) ELSE inbox'[q] = inbox[q]
      BY <1>1, <1>2, <3>1, <3>2, ColorFacts DEF Notified
    <3>4. QED
      BY <1>1, <2>1, <2>3, <3>3
  <2>4. QED
    BY <2>2, <2>3
<1>5. QED
  BY <1>2, <1>4 DEF Swept, g

LEMMA NextFacts ==
  ASSUME TypeOK, [Next]_vars
  PROVE  Passes \/ Swept \/ \E p \in Colors : Serve(p) \/ Own(p)
<1>1. faults \in Nat
  BY PlayAssumption DEF TypeOK
<1>2. UNCHANGED vars => Passes
  BY DEF vars, Passes
<1>3. ASSUME Expire PROVE Passes
  <2>1. UNCHANGED <<log, over, up, requests, inbox, page, astray>>
    BY <1>3, Zenon DEF Expire
  <2>2. faults' = faults + 1
    BY <1>3, Zenon DEF Expire
  <2>3. faults' > 0
    BY <1>1, <2>2
  <2>4. QED
    BY <2>1, <2>3, Zenon DEF Passes
<1>4. Sweep => Swept
  BY SweepFacts
<1>5. QED
  BY <1>2, <1>3, <1>4 DEF Next, Own

(***************************************************************************)
(* The moves that are owed to a board.                                     *)
(***************************************************************************)
OwedIn(jobs) == {i \in 1 .. Len(jobs) : Owed(jobs[i])}
CountOwed(jobs) == Cardinality(OwedIn(jobs))

LEMMA OwedFinite ==
  ASSUME NEW jobs \in Seq(Jobs)
  PROVE  IsFiniteSet(OwedIn(jobs)) /\ CountOwed(jobs) \in Nat
<1>1. Len(jobs) \in Nat
  OBVIOUS
<1>2. IsFiniteSet(1 .. Len(jobs))
  BY <1>1, FS_Interval
<1>3. IsFiniteSet(OwedIn(jobs))
  BY <1>2, FS_Subset DEF OwedIn
<1>4. QED
  BY <1>3, FS_CardinalityType DEF CountOwed

\* A job that is added owes one move at most, and none if it is not owed.
LEMMA OwedAppend ==
  ASSUME NEW jobs \in Seq(Jobs), NEW j \in Jobs
  PROVE  CountOwed(Append(jobs, j)) =< CountOwed(jobs) + (IF Owed(j) THEN 1 ELSE 0)
<1> DEFINE more == Append(jobs, j)
           n == Len(jobs) + 1
           S == OwedIn(jobs)
<1>1. /\ more \in Seq(Jobs) /\ Len(more) = n /\ Len(jobs) \in Nat
      /\ \A i \in 1 .. Len(jobs) : more[i] = jobs[i]
      /\ more[n] = j
  OBVIOUS
<1> HIDE DEF more
<1>2. OwedIn(more) \subseteq IF Owed(j) THEN S \cup {n} ELSE S
  <2>1. SUFFICES ASSUME NEW i \in OwedIn(more)
                 PROVE  i \in IF Owed(j) THEN S \cup {n} ELSE S
    OBVIOUS
  <2>2. i \in 1 .. n /\ Owed(more[i])
    BY <1>1 DEF OwedIn
  <2>3. CASE i = n
    BY <1>1, <2>2, <2>3
  <2>4. CASE i # n
    <3>1. i \in 1 .. Len(jobs)
      BY <1>1, <2>2, <2>4
    <3>2. QED
      BY <1>1, <2>2, <3>1 DEF OwedIn
  <2>5. QED
    BY <2>3, <2>4
<1>3. IsFiniteSet(S) /\ CountOwed(jobs) \in Nat /\ CountOwed(more) \in Nat
  BY <1>1, OwedFinite
<1>4. IsFiniteSet(S \cup {n}) /\ Cardinality(S \cup {n}) =< CountOwed(jobs) + 1
  <2>1. /\ IsFiniteSet(S \cup {n})
        /\ Cardinality(S \cup {n}) = IF n \in S THEN Cardinality(S) ELSE Cardinality(S) + 1
    BY <1>3, FS_AddElement
  <2>2. Cardinality(S) = CountOwed(jobs)
    BY DEF CountOwed
  <2> HIDE DEF S, n
  <2>3. QED
    BY <1>3, <2>1, <2>2
<1>5. CASE Owed(j)
  <2>1. OwedIn(more) \in SUBSET (S \cup {n})
    BY <1>2, <1>5
  <2>2. CountOwed(more) =< Cardinality(S \cup {n}) /\ Cardinality(S \cup {n}) \in Nat
    BY <1>4, <2>1, FS_Subset, FS_CardinalityType DEF CountOwed
  <2>3. QED
    BY <1>3, <1>4, <1>5, <2>2 DEF more
<1>6. CASE ~Owed(j)
  <2>1. OwedIn(more) \in SUBSET S
    BY <1>2, <1>6
  <2>2. CountOwed(more) =< Cardinality(S)
    BY <1>3, <2>1, FS_Subset DEF CountOwed
  <2>3. QED
    BY <1>3, <1>6, <2>2 DEF more, CountOwed
<1>7. QED
  BY <1>5, <1>6

\* A job that has run owes its move no more.
LEMMA OwedTail ==
  ASSUME NEW jobs \in Seq(Jobs), jobs # <<>>
  PROVE  CountOwed(Tail(jobs)) + (IF Owed(Head(jobs)) THEN 1 ELSE 0) =< CountOwed(jobs)
<1> DEFINE rest == Tail(jobs)
           S == OwedIn(rest)
           T == OwedIn(jobs)
           U == T \ {1}
<1>1. /\ rest \in Seq(Jobs) /\ Len(jobs) \in Nat /\ Len(rest) = Len(jobs) - 1 /\ Len(jobs) > 0
      /\ \A i \in 1 .. Len(rest) : rest[i] = jobs[i + 1]
      /\ Head(jobs) = jobs[1]
  OBVIOUS
<1> HIDE DEF rest
<1>2. IsFiniteSet(S) /\ IsFiniteSet(T) /\ CountOwed(rest) \in Nat /\ CountOwed(jobs) \in Nat
  BY <1>1, OwedFinite
<1>3. \A i \in S : i \in Nat /\ i + 1 \in U
  <2>1. SUFFICES ASSUME NEW i \in S PROVE i \in Nat /\ i + 1 \in U
    OBVIOUS
  <2>2. i \in 1 .. Len(rest) /\ Owed(rest[i])
    BY DEF OwedIn
  <2>3. i \in Nat /\ i + 1 \in 1 .. Len(jobs) /\ i + 1 # 1 /\ rest[i] = jobs[i + 1]
    BY <1>1, <2>2
  <2>4. QED
    BY <2>2, <2>3 DEF OwedIn
<1> DEFINE f == [i \in S |-> i + 1]
<1>4. f \in Injection(S, U)
  <2>1. f \in [S -> U]
    BY <1>3
  <2>2. \A a, b \in S : f[a] = f[b] => a = b
    BY <1>3
  <2>3. QED
    BY <2>1, <2>2 DEF Injection, IsInjective
<1>5. /\ IsFiniteSet(U)
      /\ Cardinality(U) = IF 1 \in T THEN CountOwed(jobs) - 1 ELSE CountOwed(jobs)
  BY <1>2, FS_RemoveElement DEF CountOwed
<1>6. CountOwed(rest) =< Cardinality(U) /\ Cardinality(U) \in Nat
  BY <1>4, <1>5, FS_Injection, FS_CardinalityType DEF CountOwed
<1>7. 1 \in T <=> Owed(Head(jobs))
  BY <1>1 DEF OwedIn
<1>8. QED
  BY <1>2, <1>5, <1>6, <1>7 DEF rest

(***************************************************************************)
(* The queue of each page: what is shown, owed and carried.                *)
(***************************************************************************)
\* Those shown of which the server has heard.
Served(p) == Len(page[p].board) - page[p].local
Level(p) == Served(p) + CountOwed(page[p].jobs)
Timed(m) == m.kind = "answer" \/ m.move # None

\* As many moves of the server as p's board shows or is owed: the game has them; ...
Room(p) == Level(p) =< Len(log)
\* ... whatever the server said last, it said when the game had as many moves; a message that
\* carries a move brings one that p does not have, and that is the move of its place, ...
Dated(p, m) == /\ Timed(m) => Level(p) =< m.at /\ m.at =< Len(log)
               /\ m.move # None => /\ Level(p) < m.at /\ log[m.at] = m.move
                                   /\ m.kind = "answer" <=> Mover(m.at - 1) = p
               /\ m.kind = "game_end" => over
Timely(p) == \A i \in 1 .. Len(inbox[p]) : Dated(p, inbox[p][i])
\* ... later than all that was said before it, ...
Before(a, b) == /\ Timed(a) /\ Timed(b) => a.at =< b.at
                /\ Timed(a) /\ b.move # None => a.at < b.at
Ordered(p) == \A h, i \in 1 .. Len(inbox[p]) : h < i => Before(inbox[p][h], inbox[p][i])
\* ... and than what the code is still to make something of.
Ahead(p) == \A h \in 1 .. Len(page[p].jobs), i \in 1 .. Len(inbox[p]) :
              inbox[p][i].move # None => page[p].jobs[h].at < inbox[p][i].at
QueueOK(p) == Room(p) /\ Timely(p) /\ Ordered(p) /\ Ahead(p)

\* The game only grows.
Grows == /\ Len(log) =< Len(log') /\ \A k \in 1 .. Len(log) : log'[k] = log[k]
         /\ over => over'

LEMMA ServedFacts ==
  ASSUME TypeOK, NEW p \in Colors
  PROVE  /\ Served(p) \in Nat
         /\ page'[p].board = page[p].board /\ page'[p].local = page[p].local =>
              Served(p)' = Served(p)
         /\ \A m \in Moves : page'[p].board = Append(page[p].board, m) =>
              /\ page'[p].local = page[p].local => Served(p)' = Served(p) + 1
              /\ page'[p].local = page[p].local + 1 => Served(p)' = Served(p)
         /\ page'[p].board = <<>> /\ page'[p].local = 0 => Served(p)' = 0
<1> DEFINE board == page[p].board
           n == Len(board)
           l == page[p].local
<1>1. board \in Seq(Moves) /\ n \in Nat /\ l \in Nat /\ l =< n
  <2>1. page[p] \in Pages /\ l =< n
    BY DEF TypeOK
  <2>2. board \in Seq(Moves) /\ l \in Nat
    BY <2>1, PageFields
  <2>3. QED
    BY <2>1, <2>2
<1>2. Served(p) = n - l /\ Served(p)' = Len(page'[p].board) - page'[p].local
  BY DEF Served
<1> HIDE DEF n, l
<1>3. Served(p) \in Nat
  BY <1>1, <1>2
<1>4. ASSUME page'[p].board = page[p].board, page'[p].local = page[p].local
      PROVE  Served(p)' = Served(p)
  BY <1>2, <1>4 DEF n, l
<1>5. ASSUME NEW m \in Moves, page'[p].board = Append(page[p].board, m)
      PROVE  /\ page'[p].local = page[p].local => Served(p)' = Served(p) + 1
             /\ page'[p].local = page[p].local + 1 => Served(p)' = Served(p)
  <2>1. Len(page'[p].board) = n + 1
    BY <1>1, <1>5 DEF n
  <2>2. ASSUME page'[p].local = page[p].local PROVE Served(p)' = Served(p) + 1
    <3>1. Served(p)' = n + 1 - l
      BY <1>1, <1>2, <2>1, <2>2 DEF l
    <3>2. QED
      BY <1>1, <1>2, <3>1
  <2>3. ASSUME page'[p].local = page[p].local + 1 PROVE Served(p)' = Served(p)
    <3>1. page'[p].local = l + 1
      BY <2>3 DEF l
    <3>2. \A x : x = l + 1 => n + 1 - x = n - l
      BY <1>1
    <3>3. n + 1 - page'[p].local = n - l
      BY <3>1, <3>2, Zenon
    <3>4. Served(p)' = n + 1 - page'[p].local
      BY <1>1, <1>2, <2>1, <3>1
    <3>5. QED
      BY <1>2, <3>3, <3>4, Zenon
  <2>4. QED
    BY <2>2, <2>3
<1>6. page'[p].board = <<>> /\ page'[p].local = 0 => Served(p)' = 0
  BY <1>2
<1>7. QED
  BY <1>3, <1>4, <1>5, <1>6

LEMMA LevelType ==
  ASSUME TypeOK, NEW p \in Colors
  PROVE  /\ Level(p) \in Nat /\ Served(p) \in Nat /\ Len(page[p].board) \in Nat /\ CountOwed(page[p].jobs) \in Nat
         /\ Len(log) \in Nat /\ Len(inbox[p]) \in Nat /\ Len(page[p].jobs) \in Nat
         /\ Len(requests[p]) \in Nat
         /\ \A i \in 1 .. Len(inbox[p]) : inbox[p][i] \in Messages /\ inbox[p][i].at \in Nat
         /\ \A i \in 1 .. Len(page[p].jobs) : page[p].jobs[i] \in Jobs /\ page[p].jobs[i].at \in Nat
<1>1. /\ page[p] \in Pages /\ page[p].board \in Seq(Moves) /\ page[p].jobs \in Seq(Jobs)
      /\ inbox[p] \in Seq(Messages) /\ log \in Seq(Moves) /\ requests[p] \in Seq(Requests)
  BY PageFields DEF TypeOK
<1>2. Len(page[p].board) \in Nat /\ CountOwed(page[p].jobs) \in Nat
  <2>1. Len(page[p].board) \in Nat
    BY <1>1
  <2>2. CountOwed(page[p].jobs) \in Nat
    BY <1>1, OwedFinite
  <2>3. QED
    BY <2>1, <2>2
<1>3. \A m \in Messages : m.at \in Nat
  BY DEF Messages
<1>4. \A j \in Jobs : j.at \in Nat
  BY DEF Jobs
<1>5. Level(p) \in Nat /\ Served(p) \in Nat
  BY <1>2, ServedFacts DEF Level
<1>6. /\ Len(log) \in Nat /\ Len(inbox[p]) \in Nat /\ Len(page[p].jobs) \in Nat
      /\ Len(requests[p]) \in Nat
  BY <1>1
<1>7. \A i \in 1 .. Len(inbox[p]) : inbox[p][i] \in Messages /\ inbox[p][i].at \in Nat
  BY <1>1, <1>3
<1>8. \A i \in 1 .. Len(page[p].jobs) : page[p].jobs[i] \in Jobs /\ page[p].jobs[i].at \in Nat
  BY <1>1, <1>4
<1>9. QED
  BY <1>2, <1>5, <1>6, <1>7, <1>8

LEMMA LevelIs ==
  ASSUME NEW p
  PROVE  /\ Level(p) = Served(p) + CountOwed(page[p].jobs)
         /\ Level(p)' = Served(p)' + CountOwed(page'[p].jobs)
BY DEF Level

LEMMA NextLevelType ==
  ASSUME TypeOK', NEW p \in Colors
  PROVE  /\ Level(p)' \in Nat /\ Served(p)' \in Nat /\ Len(inbox'[p]) \in Nat
         /\ \A i \in 1 .. Len(inbox'[p]) : inbox'[p][i] \in Messages /\ inbox'[p][i].at \in Nat
<1>1. /\ page'[p] \in Pages /\ page'[p].board \in Seq(Moves) /\ page'[p].jobs \in Seq(Jobs)
      /\ inbox'[p] \in Seq(Messages)
  BY PageFields DEF TypeOK
<1>2. Len(page'[p].board) \in Nat
  BY <1>1
<1>3. CountOwed(page'[p].jobs) \in Nat
  BY <1>1, OwedFinite
<1>4. \A m \in Messages : m.at \in Nat
  BY DEF Messages
<1>5. Len(inbox'[p]) \in Nat /\ \A i \in 1 .. Len(inbox'[p]) : inbox'[p][i] \in Messages
  BY <1>1
<1>6. Level(p)' \in Nat /\ Served(p)' \in Nat
  <2>1. page'[p].local \in Nat /\ page'[p].local =< Len(page'[p].board)
    BY <1>1, PageFields DEF TypeOK
  <2>2. Served(p)' = Len(page'[p].board) - page'[p].local
    BY DEF Served
  <2>3. \A a, b \in Nat : b =< a => a - b \in Nat
    OBVIOUS
  <2>4. Served(p)' \in Nat
    BY <1>2, <2>1, <2>2, <2>3
  <2>5. QED
    BY <1>3, <2>4 DEF Level
<1>7. QED
  BY <1>4, <1>5, <1>6

\* A message of the launcher, which says nothing of the game.
Blank(m) == m.kind \in {"reconnecting", "reconnected"} /\ m.move = None

\* An inbox from which the first k messages, or some of the last, are taken, and to which the
\* launcher may have added.
Drained(p, k) ==
  \A i \in 1 .. Len(inbox'[p]) :
     \/ i + k \in 1 .. Len(inbox[p]) /\ inbox'[p][i] = inbox[p][i + k]
     \/ Blank(inbox'[p][i])

LEMMA DrainedFacts ==
  ASSUME TypeOK, NEW p \in Colors
  PROVE  /\ inbox'[p] = inbox[p] => Drained(p, 0)
         /\ inbox'[p] = <<>> => Drained(p, 0)
         /\ \A s \in {"reconnecting", "reconnected"}, n \in 0 .. Len(inbox[p]) :
              inbox'[p] = Append(SubSeq(inbox[p], 1, n), Status(s)) => Drained(p, 0)
         /\ inbox'[p] = Append(inbox[p], Status("reconnected")) => Drained(p, 0)
         /\ inbox[p] # <<>> /\ inbox'[p] = Tail(inbox[p]) =>
              /\ Drained(p, 1) /\ Len(inbox[p]) >= 1 /\ Head(inbox[p]) = inbox[p][1]
              /\ Len(inbox'[p]) = Len(inbox[p]) - 1
              /\ \A i \in 1 .. Len(inbox'[p]) :
                    i + 1 \in 1 .. Len(inbox[p]) /\ inbox'[p][i] = inbox[p][i + 1]
<1> DEFINE box == inbox[p]
<1>1. box \in Seq(Messages) /\ Len(box) \in Nat
  BY DEF TypeOK
<1>2. \A s \in {"reconnecting", "reconnected"} : Blank(Status(s)) /\ Status(s) \in Messages
  BY MessageTypes DEF Blank, Status, Notice
<1>3. ASSUME NEW s \in {"reconnecting", "reconnected"}, NEW n \in 0 .. Len(inbox[p]),
             inbox'[p] = Append(SubSeq(inbox[p], 1, n), Status(s))
      PROVE  Drained(p, 0)
  <2> DEFINE cut == SubSeq(box, 1, n)
             m == Status(s)
  <2>1. cut \in Seq(Messages) /\ Len(cut) = n /\ \A i \in 1 .. n : cut[i] = box[i]
    BY <1>1
  <2>2. m \in Messages /\ Blank(m) /\ inbox'[p] = Append(cut, m)
    BY <1>2, <1>3
  <2> HIDE DEF cut, m
  <2>3. Len(Append(cut, m)) = n + 1 /\ Append(cut, m)[n + 1] = m
        /\ \A i \in 1 .. n : Append(cut, m)[i] = box[i]
    BY <2>1, <2>2
  <2>4. SUFFICES ASSUME NEW i \in 1 .. Len(inbox'[p])
                 PROVE  \/ i + 0 \in 1 .. Len(inbox[p]) /\ inbox'[p][i] = inbox[p][i + 0]
                        \/ Blank(inbox'[p][i])
    BY DEF Drained
  <2>5. CASE i = n + 1
    BY <2>2, <2>3, <2>5
  <2>6. CASE i # n + 1
    <3>1. i \in 1 .. n /\ i + 0 = i /\ i \in 1 .. Len(box)
      BY <1>1, <2>2, <2>3, <2>6
    <3>2. QED
      BY <2>2, <2>3, <3>1
  <2>7. QED
    BY <2>5, <2>6
<1>4. ASSUME inbox'[p] = Append(inbox[p], Status("reconnected")) PROVE Drained(p, 0)
  <2>1. SubSeq(box, 1, Len(box)) = box /\ Len(box) \in 0 .. Len(box)
    BY <1>1
  <2>2. QED
    BY <1>3, <1>4, <2>1
<1>5. ASSUME inbox[p] # <<>>, inbox'[p] = Tail(inbox[p])
      PROVE  /\ Drained(p, 1) /\ Len(inbox[p]) >= 1 /\ Head(inbox[p]) = inbox[p][1]
             /\ Len(inbox'[p]) = Len(inbox[p]) - 1
             /\ \A i \in 1 .. Len(inbox'[p]) :
                   i + 1 \in 1 .. Len(inbox[p]) /\ inbox'[p][i] = inbox[p][i + 1]
  <2>1. /\ Len(box) >= 1 /\ Head(box) = box[1] /\ Len(Tail(box)) = Len(box) - 1
        /\ \A i \in 1 .. Len(Tail(box)) :
              i + 1 \in 1 .. Len(box) /\ Tail(box)[i] = box[i + 1]
    BY <1>1, <1>5
  <2>2. QED
    BY <1>5, <2>1 DEF Drained
<1>6. inbox'[p] = inbox[p] => Drained(p, 0)
  BY <1>1 DEF Drained
<1>7. inbox'[p] = <<>> => Drained(p, 0)
  BY DEF Drained
<1>8. QED
  BY <1>3, <1>4, <1>5, <1>6, <1>7

\* Messages that are taken away disturb nothing, whatever becomes of the board and the jobs, as
\* long as neither overtakes what stays.
LEMMA QueueKept ==
  ASSUME TypeOK, TypeOK', NEW p \in Colors, QueueOK(p), log' = log, over' = over,
         NEW k \in Nat, Drained(p, k), Level(p)' =< Len(log),
         \A i \in 1 .. Len(inbox'[p]) :
            LET m == inbox'[p][i] IN /\ Timed(m) => Level(p)' =< m.at
                                     /\ m.move # None => Level(p)' < m.at,
         Ahead(p)'
  PROVE  QueueOK(p)'
<1>1. Room(p)'
  BY DEF Room
<1>2. Timely(p)'
  <2>1. SUFFICES ASSUME NEW i \in 1 .. Len(inbox'[p]) PROVE Dated(p, inbox[p][i])'
    BY DEF Timely
  <2>2. CASE i + k \in 1 .. Len(inbox[p]) /\ inbox'[p][i] = inbox[p][i + k]
    BY <2>2 DEF QueueOK, Timely, Dated
  <2>3. CASE Blank(inbox'[p][i])
    BY <2>3 DEF Blank, Dated, Timed
  <2>4. QED
    BY <2>2, <2>3 DEF Drained
<1>3. Ordered(p)'
  <2>1. SUFFICES ASSUME NEW h \in 1 .. Len(inbox'[p]), NEW i \in 1 .. Len(inbox'[p]), h < i
                 PROVE  Before(inbox'[p][h], inbox'[p][i])
    BY DEF Ordered, Before, Timed
  <2>2. CASE Blank(inbox'[p][h]) \/ Blank(inbox'[p][i])
    BY <2>2 DEF Blank, Before, Timed
  <2>3. CASE ~Blank(inbox'[p][h]) /\ ~Blank(inbox'[p][i])
    <3>1. /\ h + k \in 1 .. Len(inbox[p]) /\ inbox'[p][h] = inbox[p][h + k]
          /\ i + k \in 1 .. Len(inbox[p]) /\ inbox'[p][i] = inbox[p][i + k]
      BY <2>3 DEF Drained
    <3>2. Len(inbox'[p]) \in Nat
      BY DEF TypeOK
    <3>3. h + k < i + k
      BY <2>1, <3>2
    <3>4. QED
      BY <3>1, <3>3 DEF QueueOK, Ordered
  <2>4. QED
    BY <2>2, <2>3
<1>4. QED
  BY <1>1, <1>2, <1>3 DEF QueueOK

\* In particular when the board and the jobs hold no more than before.
LEMMA QueueLower ==
  ASSUME TypeOK, TypeOK', NEW p \in Colors, QueueOK(p), log' = log, over' = over,
         NEW k \in Nat, Drained(p, k), Level(p)' =< Level(p), Ahead(p)'
  PROVE  QueueOK(p)'
<1>1. Level(p) \in Nat /\ Level(p)' \in Nat /\ Len(log) \in Nat
  BY LevelType, NextLevelType
<1>2. Level(p)' =< Len(log)
  BY <1>1 DEF QueueOK, Room
<1>3. ASSUME NEW i \in 1 .. Len(inbox'[p])
      PROVE  LET m == inbox'[p][i] IN /\ Timed(m) => Level(p)' =< m.at
                                      /\ m.move # None => Level(p)' < m.at
  <2>1. CASE i + k \in 1 .. Len(inbox[p]) /\ inbox'[p][i] = inbox[p][i + k]
    <3> DEFINE m == inbox[p][i + k]
    <3>1. m.at \in Nat /\ Dated(p, m) /\ inbox'[p][i] = m
      BY <2>1, LevelType DEF QueueOK, Timely
    <3> HIDE DEF m
    <3>2. /\ Timed(m) => Level(p) =< m.at
          /\ m.move # None => Level(p) < m.at
      BY <3>1 DEF Dated
    <3>3. /\ Timed(m) => Level(p)' =< m.at
          /\ m.move # None => Level(p)' < m.at
      BY <1>1, <3>1, <3>2
    <3>4. QED
      BY <3>1, <3>3
  <2>2. CASE Blank(inbox'[p][i])
    BY <2>2 DEF Blank, Timed
  <2>3. QED
    BY <2>1, <2>2 DEF Drained
<1>4. QED
  BY <1>2, <1>3, QueueKept

\* An answer fits the call that awaits it: it carries a move if it accepts one, and then the
\* one that was asked for; what it says of the turn is true of the game as it was.
Matched(p, c, m) ==
  /\ m.move # None <=> c.kind = "move" /\ m.ok
  /\ m.move # None => m.move = c.move
  /\ c.kind \in {"join", "rejoin"} /\ m.ok => m.mine = (Mover(m.at) = p)
Replied(p) ==
  \A i \in 1 .. Len(inbox[p]) : inbox[p][i].kind = "answer" =>
     /\ inbox[p][i].seq < page[p].seq
     /\ \A c \in page[p].calls : c.seq = inbox[p][i].seq => Matched(p, c, inbox[p][i])

\* A step that leaves the board and the jobs.
LEMMA QueueSame ==
  ASSUME TypeOK, TypeOK', NEW p \in Colors, QueueOK(p), log' = log, over' = over,
         NEW k \in Nat, Drained(p, k), page'[p].board = page[p].board,
         page'[p].local = page[p].local, page'[p].jobs = page[p].jobs
  PROVE  QueueOK(p)'
<1>1. Level(p)' =< Level(p)
  BY LevelType, ServedFacts DEF Level
<1>2. Ahead(p)'
  BY DEF Drained, Blank, QueueOK, Ahead
<1>3. QED
  BY <1>1, <1>2, QueueLower

LEMMA QueueTimeOut ==
  ASSUME TypeOK, TypeOK', NEW p \in Colors, QueueOK(p), log' = log, over' = over,
         NEW c \in page[p].calls, TimeOut(p, c)
  PROVE  QueueOK(p)'
<1> DEFINE j == [call |-> c, ok |-> FALSE, mine |-> TRUE, at |-> 0]
<1>1. /\ page'[p].jobs = <<j>> /\ page[p].jobs = <<>> /\ page'[p].board = page[p].board
      /\ page'[p].local = page[p].local /\ inbox'[p] = inbox[p]
  BY TimeOutFacts DEF SameBoard
<1>2. j \in Jobs /\ j.at = 0 /\ ~Owed(j)
  BY PageFields DEF TypeOK, Jobs, Owed
<1> HIDE DEF j
<1>3. <<>> \in Seq(Jobs) /\ <<j>> = Append(<<>>, j)
  BY <1>2
<1>4. CountOwed(<<j>>) =< CountOwed(<<>>)
  <2>1. CountOwed(<<j>>) =< CountOwed(<<>>) + 0
    BY <1>2, <1>3, OwedAppend
  <2>2. CountOwed(<<>>) \in Nat
    BY <1>3, OwedFinite
  <2>3. QED
    BY <2>1, <2>2
<1>5. Level(p)' =< Level(p)
  <2>1. <<j>> \in Seq(Jobs)
    BY <1>2
  <2>2. CountOwed(<<j>>) \in Nat
    BY <2>1, OwedFinite
  <2>3. CountOwed(<<>>) \in Nat
    BY <1>3, OwedFinite
  <2>4. Served(p) \in Nat /\ Served(p)' = Served(p)
    BY <1>1, ServedFacts
  <2>5. /\ Level(p) = Served(p) + CountOwed(<<>>)
        /\ Level(p)' = Served(p) + CountOwed(<<j>>)
    BY <1>1, <2>4, LevelIs
  <2>6. QED
    BY <1>4, <2>2, <2>3, <2>4, <2>5
<1>6. Ahead(p)'
  <2>1. SUFFICES ASSUME NEW h \in 1 .. Len(page'[p].jobs), NEW i \in 1 .. Len(inbox'[p]),
                        inbox'[p][i].move # None
                 PROVE  page'[p].jobs[h].at < inbox'[p][i].at
    BY DEF Ahead
  <2>2. page'[p].jobs[h] = j
    BY <1>1
  <2>3. Level(p) < inbox[p][i].at /\ Level(p) \in Nat /\ inbox[p][i].at \in Nat
    BY <1>1, <2>1, LevelType DEF QueueOK, Timely, Dated
  <2>4. QED
    BY <1>1, <1>2, <2>2, <2>3
<1>7. Drained(p, 0)
  BY <1>1, DrainedFacts
<1>8. QED
  BY <1>5, <1>6, <1>7, QueueLower

\* What is resolved, or shown, was the first to come.
LEMMA QueueResolves ==
  ASSUME TypeOK, TypeOK', NEW p \in Colors, QueueOK(p), Replied(p), log' = log, over' = over,
         inbox[p] # <<>>, inbox'[p] = Tail(inbox[p]), Resolves(p, Head(inbox[p]))
  PROVE  QueueOK(p)'
<1> DEFINE m == Head(inbox[p])
<1>1. /\ Drained(p, 1) /\ Len(inbox[p]) >= 1 /\ m = inbox[p][1]
      /\ Len(inbox'[p]) = Len(inbox[p]) - 1
      /\ \A i \in 1 .. Len(inbox'[p]) :
            i + 1 \in 1 .. Len(inbox[p]) /\ inbox'[p][i] = inbox[p][i + 1]
  BY DrainedFacts
<1>2. m \in Messages /\ m.at \in Nat /\ 1 \in 1 .. Len(inbox[p])
  BY <1>1, LevelType
<1>3. Dated(p, m)
  BY <1>1, <1>2 DEF QueueOK, Timely
<1>4. \A i \in 1 .. Len(inbox'[p]) : Before(m, inbox'[p][i])
  <2>1. SUFFICES ASSUME NEW i \in 1 .. Len(inbox'[p]) PROVE Before(m, inbox'[p][i])
    OBVIOUS
  <2>2. i + 1 \in 1 .. Len(inbox[p]) /\ 1 < i + 1 /\ inbox'[p][i] = inbox[p][i + 1]
    BY <1>1
  <2>3. QED
    BY <1>1, <1>2, <2>2 DEF QueueOK, Ordered
<1> HIDE DEF m
<1>5. PICK c \in page[p].calls :
        /\ m.kind = "answer" /\ c.seq = m.seq /\ page'[p].board = page[p].board
        /\ page'[p].local = page[p].local
        /\ page'[p].jobs = Append(page[p].jobs, Resulting(c, m))
  BY DEF Resolves, SameBoard, m
<1> DEFINE j == Resulting(c, m)
<1>6. j \in Jobs /\ j.at = m.at /\ (Owed(j) => m.move # None)
  <2>1. j \in Jobs /\ j.at = m.at /\ j.ok = m.ok /\ j.call = c
    BY <1>2, PageFields DEF TypeOK, Jobs, Messages, Resulting
  <2>2. Matched(p, c, m)
    BY <1>1, <1>2, <1>5 DEF Replied
  <2>3. QED
    BY <2>1, <2>2 DEF Matched, Owed
<1> HIDE DEF j
<1>7. /\ Level(p) \in Nat /\ Level(p)' \in Nat /\ Len(log) \in Nat
      /\ Served(p) \in Nat /\ CountOwed(page[p].jobs) \in Nat
      /\ page[p].jobs \in Seq(Jobs)
  BY LevelType, NextLevelType, PageFields DEF TypeOK
<1>8. Level(p)' =< Level(p) + (IF Owed(j) THEN 1 ELSE 0)
  <2>1. CountOwed(page'[p].jobs) =< CountOwed(page[p].jobs) + (IF Owed(j) THEN 1 ELSE 0)
    BY <1>5, <1>6, <1>7, OwedAppend DEF j
  <2>2. /\ Append(page[p].jobs, j) \in Seq(Jobs)
        /\ page'[p].jobs = Append(page[p].jobs, j)
    BY <1>5, <1>6, <1>7 DEF j
  <2>3. CountOwed(page'[p].jobs) \in Nat
    BY <2>2, OwedFinite
  <2>4. /\ Level(p) = Served(p) + CountOwed(page[p].jobs)
        /\ Level(p)' = Served(p) + CountOwed(page'[p].jobs)
    BY <1>5, LevelIs, ServedFacts
  <2>5. \A b, k, l, e \in Nat : l =< k + e => b + l =< b + k + e
    OBVIOUS
  <2>6. (IF Owed(j) THEN 1 ELSE 0) \in Nat
    OBVIOUS
  <2>7. Served(p) + CountOwed(page'[p].jobs)
          =< Served(p) + CountOwed(page[p].jobs) + (IF Owed(j) THEN 1 ELSE 0)
    BY <1>7, <2>1, <2>3, <2>5, <2>6
  <2>8. QED
    BY <2>4, <2>7
<1>9. Level(p)' =< m.at /\ m.at =< Len(log)
  BY <1>3, <1>5, <1>6, <1>7, <1>8, <1>2 DEF Dated, Timed
<1>10. ASSUME NEW i \in 1 .. Len(inbox'[p])
       PROVE  /\ Timed(inbox'[p][i]) => Level(p)' =< inbox'[p][i].at
              /\ inbox'[p][i].move # None => Level(p)' < inbox'[p][i].at
  <2> DEFINE x == inbox'[p][i]
  <2>1. Before(m, x) /\ x.at \in Nat
    BY <1>4, NextLevelType
  <2> HIDE DEF x
  <2>2. /\ Timed(x) => m.at =< x.at
        /\ x.move # None => m.at < x.at
    BY <1>5, <2>1 DEF Before, Timed
  <2>3. /\ Timed(x) => Level(p)' =< x.at
        /\ x.move # None => Level(p)' < x.at
    BY <1>2, <1>7, <1>9, <2>1, <2>2
  <2>4. QED
    BY <2>3 DEF x
<1>11. Ahead(p)'
  <2>1. SUFFICES ASSUME NEW h \in 1 .. Len(page'[p].jobs), NEW i \in 1 .. Len(inbox'[p]),
                        inbox'[p][i].move # None
                 PROVE  page'[p].jobs[h].at < inbox'[p][i].at
    BY DEF Ahead
  <2>2. Len(page'[p].jobs) = Len(page[p].jobs) + 1 /\ Len(page[p].jobs) \in Nat
        /\ page'[p].jobs[Len(page[p].jobs) + 1] = j
        /\ \A g \in 1 .. Len(page[p].jobs) : page'[p].jobs[g] = page[p].jobs[g]
    <3>1. page'[p].jobs = Append(page[p].jobs, j)
      BY <1>5 DEF j
    <3>2. page[p].jobs \in Seq(Jobs) /\ j \in Jobs
      BY <1>6, <1>7
    <3>3. QED
      BY <3>1, <3>2
  <2>3. CASE h = Len(page[p].jobs) + 1
    <3>1. m.at < inbox'[p][i].at
      BY <1>4, <1>5, <2>1 DEF Before, Timed
    <3>2. QED
      BY <1>6, <2>2, <2>3, <3>1
  <2>4. CASE h # Len(page[p].jobs) + 1
    <3>1. h \in 1 .. Len(page[p].jobs)
      <4>1. h \in 1 .. Len(page[p].jobs) + 1
        BY <2>2
      <4>2. QED
        BY <2>2, <2>4, <4>1
    <3>2. i + 1 \in 1 .. Len(inbox[p]) /\ inbox'[p][i] = inbox[p][i + 1]
      BY <1>1
    <3>3. page[p].jobs[h].at < inbox[p][i + 1].at
      BY <2>1, <3>1, <3>2 DEF QueueOK, Ahead
    <3>4. QED
      BY <2>2, <3>1, <3>2, <3>3
  <2>5. QED
    BY <2>3, <2>4
<1>12. Level(p)' =< Len(log)
  BY <1>2, <1>7, <1>9
<1>13. QED
  BY <1>1, <1>10, <1>11, <1>12, QueueKept

LEMMA QueueFollows ==
  ASSUME TypeOK, TypeOK', NEW p \in Colors, QueueOK(p), log' = log, over' = over,
         inbox[p] # <<>>, inbox'[p] = Tail(inbox[p]), Follows(p, Head(inbox[p]))
  PROVE  QueueOK(p)'
<1> DEFINE m == Head(inbox[p])
<1>1. /\ Drained(p, 1) /\ Len(inbox[p]) >= 1 /\ m = inbox[p][1]
      /\ Len(inbox'[p]) = Len(inbox[p]) - 1
      /\ \A i \in 1 .. Len(inbox'[p]) :
            i + 1 \in 1 .. Len(inbox[p]) /\ inbox'[p][i] = inbox[p][i + 1]
  BY DrainedFacts
<1>2. m \in Messages /\ m.at \in Nat /\ 1 \in 1 .. Len(inbox[p])
  BY <1>1, LevelType
<1>3. Dated(p, m)
  BY <1>1, <1>2 DEF QueueOK, Timely
<1>4. \A i \in 1 .. Len(inbox'[p]) : Before(m, inbox'[p][i])
  <2>1. SUFFICES ASSUME NEW i \in 1 .. Len(inbox'[p]) PROVE Before(m, inbox'[p][i])
    OBVIOUS
  <2>2. i + 1 \in 1 .. Len(inbox[p]) /\ 1 < i + 1 /\ inbox'[p][i] = inbox[p][i + 1]
    BY <1>1
  <2>3. QED
    BY <1>1, <1>2, <2>2 DEF QueueOK, Ordered
<1> HIDE DEF m
<1>5. m.kind = "opponent_move" /\ m.move # None
  BY <1>2 DEF Follows, Messages, m
<1>6. PICK found \in Moves : /\ page'[p].board = Append(page[p].board, found)
                            /\ page'[p].local = page[p].local
  BY DEF Follows, Moved
<1>7. /\ Level(p) \in Nat /\ Level(p)' \in Nat /\ Len(log) \in Nat
      /\ Served(p) \in Nat /\ CountOwed(page[p].jobs) \in Nat
      /\ page[p].board \in Seq(Moves) /\ page'[p].jobs = page[p].jobs
  BY LevelType, NextLevelType, PageFields DEF TypeOK, Follows
<1>8. Level(p)' = Level(p) + 1
  <2>1. Served(p)' = Served(p) + 1
    BY <1>6, ServedFacts
  <2>2. /\ Level(p) = Served(p) + CountOwed(page[p].jobs)
        /\ Level(p)' = Served(p)' + CountOwed(page[p].jobs)
    BY <1>7, LevelIs
  <2>3. QED
    BY <1>7, <2>1, <2>2
<1>9. Level(p)' =< m.at /\ m.at =< Len(log)
  BY <1>2, <1>3, <1>5, <1>7, <1>8 DEF Dated, Timed
<1>10. ASSUME NEW i \in 1 .. Len(inbox'[p])
       PROVE  /\ Timed(inbox'[p][i]) => Level(p)' =< inbox'[p][i].at
              /\ inbox'[p][i].move # None => Level(p)' < inbox'[p][i].at
  <2> DEFINE x == inbox'[p][i]
  <2>1. Before(m, x) /\ x.at \in Nat
    BY <1>4, NextLevelType
  <2> HIDE DEF x
  <2>2. /\ Timed(x) => m.at =< x.at
        /\ x.move # None => m.at < x.at
    BY <1>5, <2>1 DEF Before, Timed
  <2>3. /\ Timed(x) => Level(p)' =< x.at
        /\ x.move # None => Level(p)' < x.at
    BY <1>2, <1>7, <1>9, <2>1, <2>2
  <2>4. QED
    BY <2>3 DEF x
<1>11. Ahead(p)'
  BY <1>1, <1>7 DEF QueueOK, Ahead
<1>12. Level(p)' =< Len(log)
  BY <1>2, <1>7, <1>9
<1>13. QED
  BY <1>1, <1>10, <1>11, <1>12, QueueKept

LEMMA QueueHandle ==
  ASSUME TypeOK, TypeOK', NEW p \in Colors, QueueOK(p), Replied(p), log' = log, over' = over,
         Handle(p)
  PROVE  QueueOK(p)'
<1> DEFINE m == Head(inbox[p])
<1>1. /\ inbox[p] # <<>> /\ inbox'[p] = Tail(inbox[p])
      /\ \/ Resolves(p, m) \/ Misses(p, m) \/ Gropes(p, m) \/ Follows(p, m) \/ Stops(p, m)
         \/ Waits(p, m) \/ Returns(p, m)
  BY HandleFacts
<1>2. Drained(p, 1)
  BY <1>1, DrainedFacts
<1> HIDE DEF m
<1>3. CASE Resolves(p, m)
  BY <1>1, <1>3, QueueResolves DEF m
<1>4. CASE Follows(p, m)
  BY <1>1, <1>4, QueueFollows DEF m
<1>5. CASE Misses(p, m) \/ Gropes(p, m) \/ Stops(p, m) \/ Waits(p, m) \/ Returns(p, m)
  <2>1. /\ page'[p].board = page[p].board /\ page'[p].local = page[p].local
        /\ page'[p].jobs = page[p].jobs
    BY <1>5 DEF Misses, Gropes, Stops, Waits, Returns, SameBoard
  <2>2. QED
    BY <1>2, <2>1, QueueSame
<1>6. QED
  BY <1>1, <1>3, <1>4, <1>5

LEMMA QueueContinue ==
  ASSUME TypeOK, TypeOK', NEW p \in Colors, QueueOK(p), log' = log, over' = over, Continue(p)
  PROVE  QueueOK(p)'
<1> DEFINE j == Head(page[p].jobs)
<1>1. /\ page[p].jobs # <<>>
      /\ \/ Quits(p, j)
         \/ /\ page'[p].jobs = Tail(page[p].jobs) /\ inbox'[p] = inbox[p]
            /\ \/ Enters(p, j) \/ SetsUp(p, j) \/ Retries(p, j) \/ Rejoins(p, j) \/ Idles(p, j)
               \/ Learns(p, j) \/ Plays(p, j)
  BY ContinueFacts
<1>2. /\ Level(p) \in Nat /\ Level(p)' \in Nat /\ Served(p) \in Nat
      /\ CountOwed(page[p].jobs) \in Nat /\ page[p].jobs \in Seq(Jobs)
      /\ page[p].board \in Seq(Moves)
  BY LevelType, NextLevelType, PageFields DEF TypeOK
<1>3. CASE Quits(p, j)
  <2>1. /\ page'[p].board = <<>> /\ page'[p].local = 0 /\ page'[p].jobs = <<>>
        /\ inbox'[p] = <<>>
    BY <1>3 DEF Quits, LeftPage, FreshPage
  <2>2. Level(p)' =< Level(p)
    <3>1. OwedIn(<<>>) = {}
      BY DEF OwedIn
    <3>2. CountOwed(<<>>) = 0
      BY <3>1, FS_EmptySet DEF CountOwed
    <3>3. Served(p)' = 0
      BY <2>1, ServedFacts
    <3>4. Level(p)' = 0
      BY <2>1, <3>2, <3>3, LevelIs
    <3>5. QED
      BY <1>2, <3>4
  <2>3. Ahead(p)'
    BY <2>1 DEF Ahead
  <2>4. Drained(p, 0)
    BY <2>1, DrainedFacts
  <2>5. QED
    BY <2>2, <2>3, <2>4, QueueLower
<1>4. CASE ~Quits(p, j)
  <2>1. page'[p].jobs = Tail(page[p].jobs) /\ inbox'[p] = inbox[p]
    BY <1>1, <1>4
  <2> DEFINE n == IF Owed(j) THEN 1 ELSE 0
  <2>2. CountOwed(page'[p].jobs) + n =< CountOwed(page[p].jobs)
    BY <1>1, <1>2, <2>1, OwedTail
  <2>9. n \in Nat /\ (Owed(j) => n = 1)
    OBVIOUS
  <2> HIDE DEF n
  <2>3. CountOwed(page'[p].jobs) \in Nat /\ Served(p)' \in Nat
    <3>1. page'[p].jobs \in Seq(Jobs)
      BY PageFields DEF TypeOK
    <3>2. QED
      BY <3>1, OwedFinite, NextLevelType
  <2> HIDE DEF j
  <2>4. Served(p)' =< Served(p) + n
    <3>1. CASE Plays(p, j)
      <4>1. /\ Owed(j) /\ page'[p].local = page[p].local
            /\ \E m \in Moves : page'[p].board = Append(page[p].board, m)
        BY <3>1 DEF Plays, Owed, Moved
      <4>2. Served(p)' = Served(p) + 1
        BY <4>1, ServedFacts
      <4>3. QED
        BY <1>2, <2>9, <4>1, <4>2
    <3>2. CASE SetsUp(p, j)
      <4>1. Served(p)' = 0
        BY <3>2, ServedFacts DEF SetsUp
      <4>2. QED
        BY <1>2, <2>9, <4>1
    <3>3. CASE ~Plays(p, j) /\ ~SetsUp(p, j)
      <4>1. page'[p].board = page[p].board /\ page'[p].local = page[p].local
        BY <1>1, <1>4, <3>3 DEF Enters, Retries, Rejoins, Idles, Learns, SameBoard
      <4>2. Served(p)' = Served(p)
        BY <4>1, ServedFacts
      <4>3. QED
        BY <1>2, <2>9, <4>2
    <3>4. QED
      BY <3>1, <3>2, <3>3
  <2>5. Level(p)' =< Level(p)
    <3>1. /\ Level(p) = Served(p) + CountOwed(page[p].jobs)
          /\ Level(p)' = Served(p)' + CountOwed(page'[p].jobs)
      BY LevelIs
    <3>2. \A a, b, c, d, k \in Nat : c + k =< b /\ d =< a + k => d + c =< a + b
      OBVIOUS
    <3>3. QED
      BY <1>2, <2>2, <2>3, <2>4, <2>9, <3>1, <3>2
  <2>6. Ahead(p)'
    <3>1. \A h \in 1 .. Len(page'[p].jobs) :
             h + 1 \in 1 .. Len(page[p].jobs) /\ page'[p].jobs[h] = page[p].jobs[h + 1]
      BY <1>1, <1>2, <2>1
    <3>2. QED
      BY <2>1, <3>1 DEF QueueOK, Ahead
  <2>7. Drained(p, 0)
    BY <2>1, DrainedFacts
  <2>8. QED
    BY <2>5, <2>6, <2>7, QueueLower
<1>5. QED
  BY <1>3, <1>4

LEMMA QueueOwn ==
  ASSUME TypeOK, TypeOK', NEW p \in Colors, QueueOK(p), Replied(p), log' = log, over' = over,
         Own(p)
  PROVE  QueueOK(p)'
<1>1. ASSUME page'[p].board = page[p].board, page'[p].local = page[p].local,
             page'[p].jobs = page[p].jobs, Drained(p, 0)
      PROVE  QueueOK(p)'
  BY <1>1, QueueSame
<1>2. inbox'[p] = inbox[p] => Drained(p, 0)
  BY DrainedFacts
<1>3. CASE Poll(p)
  <2>1. /\ page'[p].board = page[p].board /\ page'[p].local = page[p].local
        /\ page'[p].jobs = page[p].jobs /\ inbox'[p] = inbox[p]
    BY <1>3, SmallFacts DEF Still, SameBoard
  <2>2. QED
    BY <1>1, <1>2, <2>1
<1>4. CASE Repick(p) \/ Resign(p) \/ ResignCancelled(p)
  <2>1. /\ page'[p].board = page[p].board /\ page'[p].local = page[p].local
        /\ page'[p].jobs = page[p].jobs /\ inbox'[p] = inbox[p]
    BY <1>4, SmallFacts DEF Still, SameBoard
  <2>2. QED
    BY <1>1, <1>2, <2>1
<1>5. CASE Click(p)
  <2>1. /\ page'[p].board = page[p].board /\ page'[p].local = page[p].local
        /\ page'[p].jobs = page[p].jobs /\ inbox'[p] = inbox[p]
    BY <1>5, ClickFacts
  <2>2. QED
    BY <1>1, <1>2, <2>1
<1>6. CASE Lose(p)
  <2>1. PICK n \in 0 .. Len(inbox[p]) :
          inbox'[p] = Append(SubSeq(inbox[p], 1, n), Status("reconnecting"))
    BY <1>6, SmallFacts
  <2>2. Drained(p, 0)
    BY <2>1, DrainedFacts
  <2>3. QED
    BY <1>1, <1>6, <2>2, SmallFacts
<1>7. CASE Reconnect(p)
  <2>1. page'[p] = page[p] /\ inbox'[p] = Append(inbox[p], Status("reconnected"))
    BY <1>7, SmallFacts
  <2>2. Drained(p, 0)
    BY <2>1, DrainedFacts
  <2>3. QED
    BY <1>1, <2>1, <2>2
<1>8. ASSUME NEW c \in page[p].calls, SendReturns(p, c)
      PROVE  QueueOK(p)'
  <2>1. /\ page'[p].board = page[p].board /\ page'[p].local = page[p].local
        /\ page'[p].jobs = page[p].jobs /\ inbox'[p] = inbox[p]
    BY <1>8, SmallFacts DEF SameBoard
  <2>2. QED
    BY <1>1, <1>2, <2>1
<1>9. ASSUME NEW c \in page[p].calls, TimeOut(p, c)
      PROVE  QueueOK(p)'
  BY <1>9, QueueTimeOut
<1>10. CASE ClickOffline(p)
  <2>1. /\ page'[p].jobs = page[p].jobs /\ inbox'[p] = inbox[p]
        /\ page'[p].local = page[p].local + 1
        /\ \E m \in Moves : page'[p].board = Append(page[p].board, m)
    BY <1>10, ClickOfflineFacts DEF Dabbles
  <2>2. Level(p)' = Level(p) /\ Level(p) \in Nat
    BY <2>1, LevelType, ServedFacts DEF Level
  <2>3. Ahead(p)'
    BY <2>1 DEF QueueOK, Ahead
  <2>4. QED
    BY <1>2, <2>1, <2>2, <2>3, QueueLower
<1>11. QED
  BY <1>3, <1>4, <1>5, <1>6, <1>7, <1>8, <1>9, <1>10, QueueHandle, QueueContinue DEF Own

\* What the server says comes last, and is dated by the game as it then is.
LEMMA QueueTold ==
  ASSUME TypeOK, TypeOK', NEW q \in Colors, QueueOK(q), Grows, page'[q] = page[q],
         page[q].jobs = <<>>,
         \/ inbox'[q] = inbox[q]
         \/ \E m \in Messages : /\ inbox'[q] = Append(inbox[q], m)
                                /\ m.at = Len(log') \/ (~Timed(m) /\ m.kind # "answer")
                                /\ m.move # None => /\ Len(log') = Len(log) + 1
                                                    /\ log'[Len(log')] = m.move
                                                    /\ m.kind = "answer" <=> Awaited = q
                                /\ m.kind = "game_end" => over'
  PROVE  QueueOK(q)'
<1>1. /\ Level(q) \in Nat /\ Level(q)' = Level(q) /\ Len(log) \in Nat /\ Len(log') \in Nat
      /\ Len(log) =< Len(log') /\ Level(q) =< Len(log) /\ inbox[q] \in Seq(Messages)
      /\ Len(inbox[q]) \in Nat
  <2>1. Level(q)' = Level(q)
    BY DEF Level, Served
  <2>2. Len(log') \in Nat
    BY DEF TypeOK
  <2>3. QED
    BY <2>1, <2>2, LevelType DEF Grows, QueueOK, Room, TypeOK
<1>2. Room(q)'
  BY <1>1 DEF Room
<1>3. Ahead(q)'
  BY DEF Ahead
<1>4. \A i \in 1 .. Len(inbox[q]) : /\ Dated(q, inbox[q][i])
                                    /\ Timed(inbox[q][i]) => inbox[q][i].at =< Len(log)
                                    /\ inbox[q][i].at \in Nat
  BY LevelType DEF QueueOK, Timely, Dated
<1>5. \A i \in 1 .. Len(inbox[q]) : Dated(q, inbox[q][i])'
  <2>1. SUFFICES ASSUME NEW i \in 1 .. Len(inbox[q]), NEW m, m = inbox[q][i]
                 PROVE  /\ Timed(m) => Level(q)' =< m.at /\ m.at =< Len(log')
                        /\ m.move # None => /\ Level(q)' < m.at /\ log'[m.at] = m.move
                                            /\ m.kind = "answer" <=> Mover(m.at - 1) = q
                        /\ m.kind = "game_end" => over'
    <3>1. ASSUME NEW i \in 1 .. Len(inbox[q])
          PROVE  Dated(q, inbox[q][i])' <=>
                   LET m == inbox'[q][i] IN
                   /\ Timed(m) => Level(q)' =< m.at /\ m.at =< Len(log')
                   /\ m.move # None => /\ Level(q)' < m.at /\ log'[m.at] = m.move
                                       /\ m.kind = "answer" <=> Mover(m.at - 1) = q
                   /\ m.kind = "game_end" => over'
      BY DEF Dated, Timed, Mover
    <3>2. \A i \in 1 .. Len(inbox[q]) : inbox'[q][i] = inbox[q][i]
      BY <1>1
    <3>3. QED
      BY <3>1, <3>2
  <2>2. Dated(q, m) /\ m.at \in Nat
    BY <1>4, <2>1
  <2>3. m.move # None => m.at \in 1 .. Len(log)
    BY <1>1, <2>2 DEF Dated, Timed
  <2>4. Timed(m) => m.at =< Len(log')
    BY <1>1, <2>2 DEF Dated
  <2>5. QED
    BY <1>1, <2>2, <2>3, <2>4 DEF Dated, Grows
<1>6. CASE inbox'[q] = inbox[q]
  BY <1>2, <1>3, <1>5, <1>6 DEF QueueOK, Timely, Ordered, Before, Timed
<1>7. ASSUME NEW m \in Messages, inbox'[q] = Append(inbox[q], m),
             m.at = Len(log') \/ (~Timed(m) /\ m.kind # "answer"),
             m.move # None => /\ Len(log') = Len(log) + 1
                              /\ log'[Len(log')] = m.move
                              /\ m.kind = "answer" <=> Awaited = q,
             m.kind = "game_end" => over'
      PROVE  QueueOK(q)'
  <2>0. PICK n : n = Len(inbox[q]) + 1
    OBVIOUS
  <2>1. /\ Len(inbox'[q]) = n /\ inbox'[q][n] = m /\ n \in Nat
        /\ \A i \in 1 .. Len(inbox[q]) : inbox'[q][i] = inbox[q][i]
        /\ \A i \in 1 .. n : i = n \/ i \in 1 .. Len(inbox[q])
    <3>1. inbox'[q] = Append(inbox[q], m) /\ inbox[q] \in Seq(Messages) /\ Len(inbox[q]) \in Nat
      BY <1>1, <1>7
    <3>2. Len(inbox'[q]) = n /\ inbox'[q][n] = m /\ n \in Nat
      BY <2>0, <3>1
    <3>3. \A i \in 1 .. Len(inbox[q]) : inbox'[q][i] = inbox[q][i]
      BY <3>1
    <3>4. \A i \in 1 .. n : i = n \/ i \in 1 .. Len(inbox[q])
      BY <2>0, <3>1
    <3>5. QED
      BY <3>2, <3>3, <3>4
  <2>2. Dated(q, inbox[q][n])'
    <3>1. Timed(m) => m.at = Len(log')
      BY <1>7
    <3>2. m.move # None => m.at = Len(log) + 1 /\ m.at - 1 = Len(log)
      BY <1>1, <1>7, <3>1 DEF Timed
    <3>3. m.move # None => /\ Level(q)' < m.at /\ log'[m.at] = m.move
                           /\ m.kind = "answer" <=> Mover(m.at - 1) = q
      <4>1. SUFFICES ASSUME m.move # None
                     PROVE  /\ Level(q)' < m.at /\ log'[m.at] = m.move
                            /\ m.kind = "answer" <=> Mover(m.at - 1) = q
        OBVIOUS
      <4>2. m.kind = "answer" <=> Mover(m.at - 1) = q
        BY <1>7, <3>2, <4>1 DEF Awaited
      <4>3. Level(q)' < m.at
        BY <1>1, <3>2, <4>1
      <4>4. log'[m.at] = m.move
        BY <1>7, <3>2, <4>1
      <4>5. QED
        BY <4>2, <4>3, <4>4
    <3>4. Timed(m) => Level(q)' =< m.at /\ m.at =< Len(log')
      BY <1>1, <3>1
    <3>5. inbox'[q][n] = m
      BY <2>1
    <3>6. Dated(q, inbox[q][n])' <=>
            LET x == inbox'[q][n] IN
            /\ Timed(x) => Level(q)' =< x.at /\ x.at =< Len(log')
            /\ x.move # None => /\ Level(q)' < x.at /\ log'[x.at] = x.move
                                /\ x.kind = "answer" <=> Mover(x.at - 1) = q
            /\ x.kind = "game_end" => over'
      BY DEF Dated, Timed, Mover
    <3>7. QED
      BY <1>7, <3>3, <3>4, <3>5, <3>6
  <2>3. Timely(q)'
    <3>1. SUFFICES ASSUME NEW i \in 1 .. Len(inbox'[q]) PROVE Dated(q, inbox[q][i])'
      BY DEF Timely
    <3>2. i = n \/ i \in 1 .. Len(inbox[q])
      BY <2>1
    <3>3. QED
      BY <1>5, <2>2, <3>2
  <2>4. Ordered(q)'
    <3>1. SUFFICES ASSUME NEW h \in 1 .. n, NEW i \in 1 .. n, h < i
                   PROVE  Before(inbox'[q][h], inbox'[q][i])
      BY <2>1 DEF Ordered, Before, Timed
    <3>2. h \in 1 .. Len(inbox[q]) /\ inbox'[q][h] = inbox[q][h]
      BY <1>1, <2>1, <3>1
    <3>3. CASE i = n
      <4> DEFINE x == inbox[q][h]
      <4>1. x.at \in Nat /\ (Timed(x) => x.at =< Len(log))
        BY <1>4, <3>2
      <4> HIDE DEF x
      <4>2. Timed(x) /\ Timed(m) => x.at =< m.at
        <5>1. Timed(m) => m.at = Len(log')
          BY <1>7
        <5>2. QED
          BY <1>1, <4>1, <5>1
      <4>3. Timed(x) /\ m.move # None => x.at < m.at
        <5>1. m.move # None => m.at = Len(log) + 1
          BY <1>7 DEF Timed
        <5>2. QED
          BY <1>1, <4>1, <5>1
      <4>4. QED
        BY <2>1, <3>2, <3>3, <4>2, <4>3 DEF Before, x
    <3>4. CASE i # n
      <4>1. i \in 1 .. Len(inbox[q]) /\ inbox'[q][i] = inbox[q][i]
        BY <2>1, <3>4
      <4>2. QED
        BY <3>1, <3>2, <4>1 DEF QueueOK, Ordered
    <3>5. QED
      BY <3>3, <3>4
  <2>5. QED
    BY <1>2, <1>3, <2>3, <2>4 DEF QueueOK
<1>8. QED
  BY <1>6, <1>7

LEMMA ServeGrows ==
  ASSUME TypeOK, NEW p \in Colors, Serve(p)
  PROVE  Grows
<1> DEFINE r == Head(requests[p])
<1>1. Answers(p, r) \/ Takes(p, r) \/ Closes(p, r)
  BY ServeFacts
<1>2. log \in Seq(Moves) /\ Len(log) \in Nat
  BY DEF TypeOK
<1> HIDE DEF r
<1>3. CASE Answers(p, r) \/ Closes(p, r)
  <2>1. log' = log /\ (over => over')
    BY <1>3 DEF Answers, Closes
  <2>2. QED
    BY <1>2, <2>1 DEF Grows
<1>4. CASE Takes(p, r)
  <2>1. log' = Append(log, r.move) /\ r.move \in Moves /\ over' = over
    BY <1>4 DEF Takes
  <2>2. Len(log') = Len(log) + 1 /\ \A k \in 1 .. Len(log) : log'[k] = log[k]
    BY <1>2, <2>1
  <2>3. QED
    BY <1>2, <2>1, <2>2 DEF Grows
<1>5. QED
  BY <1>1, <1>3, <1>4

LEMMA QueueServe ==
  ASSUME TypeOK, TypeOK', NEW p \in Colors, NEW q \in Colors, QueueOK(q), Serve(p)
  PROVE  QueueOK(q)'
<1> DEFINE r == Head(requests[p])
<1>1. /\ r \in Requests /\ page' = page /\ page[q].jobs = <<>> /\ Grows
      /\ Answers(p, r) \/ Takes(p, r) \/ Closes(p, r)
  BY ServeFacts, ServeGrows
<1>2. r.seq \in Nat /\ Len(log) \in Nat /\ log \in Seq(Moves)
  BY <1>1, LevelType DEF Requests, TypeOK
<1> HIDE DEF r
<1>3. CASE Answers(p, r)
  <2>1. PICK ok \in BOOLEAN, mine \in BOOLEAN :
          /\ inbox'[p] = Append(inbox[p], Answer(r.seq, ok, None, mine, Len(log)))
          /\ \A s \in Colors \ {p} : inbox'[s] = inbox[s]
          /\ log' = log
    BY <1>3 DEF Answers
  <2> DEFINE m == Answer(r.seq, ok, None, mine, Len(log))
  <2>2. m \in Messages /\ m.at = Len(log') /\ m.move = None /\ m.kind = "answer"
    BY <1>2, <2>1, MessageTypes DEF Answer
  <2>3. inbox'[q] = inbox[q] \/ inbox'[q] = Append(inbox[q], m)
    BY <2>1
  <2> HIDE DEF m
  <2>4. QED
    BY <1>1, <2>2, <2>3, QueueTold
<1>4. CASE Takes(p, r)
  <2> DEFINE a == Answer(r.seq, TRUE, r.move, FALSE, Len(log) + 1)
             o == OpponentMove(r.move, Len(log) + 1)
  <2>1. /\ r.move \in Moves /\ Awaited = p /\ log' = Append(log, r.move)
        /\ inbox'[p] = Append(inbox[p], a)
        /\ q # p => inbox'[q] = inbox[q] \/ inbox'[q] = Append(inbox[q], o)
    BY <1>4 DEF Takes
  <2>2. Len(log') = Len(log) + 1 /\ log'[Len(log')] = r.move
    BY <1>2, <2>1
  <2>3. a \in Messages /\ a.at = Len(log') /\ a.move = r.move /\ a.kind = "answer"
    <3>1. Len(log) + 1 \in Nat
      BY <1>2
    <3>2. a \in Messages
      BY <1>2, <2>1, <3>1, MessageTypes
    <3>3. a.at = Len(log) + 1 /\ a.move = r.move /\ a.kind = "answer"
      BY DEF Answer
    <3>4. QED
      BY <2>2, <3>2, <3>3
  <2>4. o \in Messages /\ o.at = Len(log') /\ o.move = r.move /\ o.kind = "opponent_move"
    BY <1>2, <2>1, <2>2, MessageTypes DEF OpponentMove, Notice
  <2> HIDE DEF a, o
  <2>5. CASE q = p
    BY <1>1, <2>1, <2>2, <2>3, <2>5, QueueTold
  <2>6. CASE q # p
    BY <1>1, <2>1, <2>2, <2>4, <2>6, QueueTold
  <2>7. QED
    BY <2>5, <2>6
<1>5. CASE Closes(p, r)
  <2> DEFINE g == GameEnd
  <2>1. g \in Messages /\ g.move = None /\ g.kind = "game_end" /\ ~Timed(g)
    BY MessageTypes DEF GameEnd, Notice, Timed
  <2> HIDE DEF g
  <2>2. over' /\ (inbox'[q] = inbox[q] \/ inbox'[q] = Append(inbox[q], g))
    BY <1>5 DEF Closes, g
  <2>3. QED
    BY <1>1, <2>1, <2>2, QueueTold
<1>6. QED
  BY <1>1, <1>3, <1>4, <1>5

LEMMA QueueSwept ==
  ASSUME TypeOK, TypeOK', NEW q \in Colors, QueueOK(q), Swept
  PROVE  QueueOK(q)'
<1> DEFINE g == GameEnd
<1>1. g \in Messages /\ g.move = None /\ g.kind = "game_end" /\ ~Timed(g)
  BY MessageTypes DEF GameEnd, Notice, Timed
<1> HIDE DEF g
<1>2. /\ over' /\ page'[q] = page[q] /\ page[q].jobs = <<>>
      /\ inbox'[q] = inbox[q] \/ inbox'[q] = Append(inbox[q], g)
  BY DEF Swept, g
<1>3. Grows
  BY LevelType DEF Swept, Grows
<1>4. QED
  BY <1>1, <1>2, <1>3, QueueTold

(***************************************************************************)
(* The requests and the answers of a page, by their sequence numbers.      *)
(***************************************************************************)
\* A request that is not answered yet has a number that has been used, and whichever call has
\* this number made the request; ...
Asked(p) ==
  \A i \in 1 .. Len(requests[p]) : requests[p][i].kind # "end" =>
     /\ requests[p][i].seq < page[p].seq
     /\ \A c \in page[p].calls :
          c.seq = requests[p][i].seq => c.kind = requests[p][i].kind /\ c.move = requests[p][i].move
\* ... no two requests have the same, nor two answers, nor a request and an answer.
Once(p) ==
  /\ \A h, i \in 1 .. Len(requests[p]) :
        h < i /\ requests[p][h].kind # "end" /\ requests[p][i].kind # "end"
          => requests[p][h].seq # requests[p][i].seq
  /\ \A h, i \in 1 .. Len(inbox[p]) :
        h < i /\ inbox[p][h].kind = "answer" /\ inbox[p][i].kind = "answer"
          => inbox[p][h].seq # inbox[p][i].seq
  /\ \A h \in 1 .. Len(requests[p]), i \in 1 .. Len(inbox[p]) :
        requests[p][h].kind # "end" /\ inbox[p][i].kind = "answer"
          => requests[p][h].seq # inbox[p][i].seq
CallOK(p) == Asked(p) /\ Replied(p) /\ Once(p)

\* Calls that a step leaves, some of them perhaps ended.
Narrow(p) ==
  /\ page'[p].seq = page[p].seq
  /\ \A d \in page'[p].calls : \E c \in page[p].calls :
        d.seq = c.seq /\ d.kind = c.kind /\ d.move = c.move
\* Queues from which the first k elements, or some of the last, are taken, and to which nothing
\* is added that has a number.
Sifted(p, k) ==
  \A i \in 1 .. Len(requests'[p]) :
     \/ i + k \in 1 .. Len(requests[p]) /\ requests'[p][i] = requests[p][i + k]
     \/ requests'[p][i].kind = "end"
Heard(p, k) ==
  \A i \in 1 .. Len(inbox'[p]) :
     \/ i + k \in 1 .. Len(inbox[p]) /\ inbox'[p][i] = inbox[p][i + k]
     \/ inbox'[p][i].kind # "answer"

LEMMA HeardFacts ==
  ASSUME TypeOK, NEW p \in Colors
  PROVE  /\ \A k \in Nat : Drained(p, k) => Heard(p, k)
         /\ inbox'[p] = inbox[p] => Heard(p, 0)
         /\ \A m \in Messages :
              m.kind # "answer" /\ inbox'[p] = Append(inbox[p], m) => Heard(p, 0)
<1>1. inbox[p] \in Seq(Messages) /\ Len(inbox[p]) \in Nat
  BY DEF TypeOK
<1>2. ASSUME NEW m \in Messages, m.kind # "answer", inbox'[p] = Append(inbox[p], m)
      PROVE  Heard(p, 0)
  <2>1. /\ Len(inbox'[p]) = Len(inbox[p]) + 1 /\ inbox'[p][Len(inbox[p]) + 1] = m
        /\ \A i \in 1 .. Len(inbox[p]) : inbox'[p][i] = inbox[p][i]
    BY <1>1, <1>2
  <2>2. QED
    BY <1>1, <1>2, <2>1 DEF Heard
<1>3. \A k \in Nat : Drained(p, k) => Heard(p, k)
  BY DEF Drained, Heard, Blank
<1>4. inbox'[p] = inbox[p] => Heard(p, 0)
  BY <1>1 DEF Heard
<1>5. QED
  BY <1>2, <1>3, <1>4

LEMMA SiftedFacts ==
  ASSUME TypeOK, NEW p \in Colors
  PROVE  /\ requests'[p] = requests[p] => Sifted(p, 0)
         /\ requests'[p] = <<>> => Sifted(p, 0)
         /\ requests'[p] = Append(requests[p], EndRequest) => Sifted(p, 0)
         /\ requests[p] # <<>> /\ requests'[p] = Tail(requests[p]) => Sifted(p, 1)
<1>1. requests[p] \in Seq(Requests) /\ Len(requests[p]) \in Nat
  BY DEF TypeOK
<1>2. ASSUME requests'[p] = Append(requests[p], EndRequest)
      PROVE  Sifted(p, 0)
  <2>1. /\ Len(requests'[p]) = Len(requests[p]) + 1
        /\ requests'[p][Len(requests[p]) + 1] = EndRequest
        /\ \A i \in 1 .. Len(requests[p]) : requests'[p][i] = requests[p][i]
    BY <1>1, <1>2
  <2>2. EndRequest.kind = "end"
    BY DEF EndRequest, Request
  <2>3. QED
    BY <1>1, <2>1, <2>2 DEF Sifted
<1>3. ASSUME requests[p] # <<>>, requests'[p] = Tail(requests[p])
      PROVE  Sifted(p, 1)
  <2>1. /\ Len(requests'[p]) = Len(requests[p]) - 1
        /\ \A i \in 1 .. Len(requests[p]) - 1 : requests'[p][i] = requests[p][i + 1]
    BY <1>1, <1>3
  <2>2. QED
    BY <1>1, <2>1 DEF Sifted
<1>4. requests'[p] = requests[p] => Sifted(p, 0)
  BY <1>1 DEF Sifted
<1>5. requests'[p] = <<>> => Sifted(p, 0)
  BY <1>1 DEF Sifted
<1>6. QED
  BY <1>2, <1>3, <1>4, <1>5

\* A step that makes no call.
LEMMA CallKept ==
  ASSUME TypeOK, NEW p \in Colors, CallOK(p), Narrow(p), NEW k \in Nat, Sifted(p, k),
         NEW l \in Nat, Heard(p, l)
  PROVE  CallOK(p)'
<1>1. Asked(p)'
  <2>1. SUFFICES ASSUME NEW i \in 1 .. Len(requests'[p]), requests'[p][i].kind # "end"
                 PROVE  /\ requests'[p][i].seq < page'[p].seq
                        /\ \A d \in page'[p].calls : d.seq = requests'[p][i].seq =>
                             d.kind = requests'[p][i].kind /\ d.move = requests'[p][i].move
    BY DEF Asked
  <2>2. i + k \in 1 .. Len(requests[p]) /\ requests'[p][i] = requests[p][i + k]
    BY <2>1 DEF Sifted
  <2>3. QED
    BY <2>1, <2>2 DEF CallOK, Asked, Narrow
<1>2. Replied(p)'
  <2>1. SUFFICES ASSUME NEW i \in 1 .. Len(inbox'[p]), inbox'[p][i].kind = "answer"
                 PROVE  /\ inbox'[p][i].seq < page'[p].seq
                        /\ \A d \in page'[p].calls :
                             d.seq = inbox'[p][i].seq => Matched(p, d, inbox'[p][i])
    BY DEF Replied, Matched
  <2>2. i + l \in 1 .. Len(inbox[p]) /\ inbox'[p][i] = inbox[p][i + l]
    BY <2>1 DEF Heard
  <2>3. QED
    BY <2>1, <2>2 DEF CallOK, Replied, Narrow, Matched
<1>3. Once(p)'
  <2>1. ASSUME NEW h \in 1 .. Len(requests'[p]), NEW i \in 1 .. Len(requests'[p]), h < i,
               requests'[p][h].kind # "end", requests'[p][i].kind # "end"
        PROVE  requests'[p][h].seq # requests'[p][i].seq
    <3>1. /\ h + k \in 1 .. Len(requests[p]) /\ requests'[p][h] = requests[p][h + k]
          /\ i + k \in 1 .. Len(requests[p]) /\ requests'[p][i] = requests[p][i + k]
      BY <2>1 DEF Sifted
    <3>2. h + k < i + k
      BY <2>1
    <3>3. QED
      BY <2>1, <3>1, <3>2 DEF CallOK, Once
  <2>2. ASSUME NEW h \in 1 .. Len(inbox'[p]), NEW i \in 1 .. Len(inbox'[p]), h < i,
               inbox'[p][h].kind = "answer", inbox'[p][i].kind = "answer"
        PROVE  inbox'[p][h].seq # inbox'[p][i].seq
    <3>1. /\ h + l \in 1 .. Len(inbox[p]) /\ inbox'[p][h] = inbox[p][h + l]
          /\ i + l \in 1 .. Len(inbox[p]) /\ inbox'[p][i] = inbox[p][i + l]
      BY <2>2 DEF Heard
    <3>2. h + l < i + l
      BY <2>2
    <3>3. QED
      BY <2>2, <3>1, <3>2 DEF CallOK, Once
  <2>3. ASSUME NEW h \in 1 .. Len(requests'[p]), NEW i \in 1 .. Len(inbox'[p]),
               requests'[p][h].kind # "end", inbox'[p][i].kind = "answer"
        PROVE  requests'[p][h].seq # inbox'[p][i].seq
    <3>1. /\ h + k \in 1 .. Len(requests[p]) /\ requests'[p][h] = requests[p][h + k]
          /\ i + l \in 1 .. Len(inbox[p]) /\ inbox'[p][i] = inbox[p][i + l]
      BY <2>3 DEF Sifted, Heard
    <3>2. QED
      BY <2>3, <3>1 DEF CallOK, Once
  <2>4. QED
    BY <2>1, <2>2, <2>3 DEF Once
<1>4. QED
  BY <1>1, <1>2, <1>3 DEF CallOK

\* A step that makes a call: its number is new.
LEMMA CallMade ==
  ASSUME TypeOK, NEW p \in Colors, CallOK(p), NEW c, NEW kind, NEW move, kind # "end",
         Called(p, c, kind, move), NEW l \in Nat, Heard(p, l)
  PROVE  CallOK(p)'
<1> DEFINE n == page[p].seq
           r == Request(kind, move, n)
<1>1. /\ n \in Nat /\ page'[p].seq = n + 1 /\ c.seq = n /\ c.kind = kind /\ c.move = move
      /\ page'[p].calls = page[p].calls \cup {c}
      /\ requests[p] \in Seq(Requests) /\ Len(requests[p]) \in Nat
      /\ inbox[p] \in Seq(Messages) /\ Len(inbox[p]) \in Nat
      /\ requests'[p] = requests[p] \/ requests'[p] = Append(requests[p], r)
  BY PageFields DEF TypeOK, Called
<1>2. /\ \A i \in 1 .. Len(requests[p]) : requests[p][i].seq \in Nat
      /\ \A i \in 1 .. Len(inbox[p]) : inbox[p][i].seq \in Nat
  <2>1. (\A x \in Requests : x.seq \in Nat) /\ (\A x \in Messages : x.seq \in Nat)
    BY DEF Requests, Messages
  <2>2. /\ \A i \in 1 .. Len(requests[p]) : requests[p][i] \in Requests
        /\ \A i \in 1 .. Len(inbox[p]) : inbox[p][i] \in Messages
    BY <1>1
  <2>3. QED
    BY <2>1, <2>2
<1>3. r.seq = n /\ r.kind = kind /\ r.move = move
  BY DEF Request
<1> HIDE DEF r, n
<1>4. \A i \in 1 .. Len(requests'[p]) :
        \/ i \in 1 .. Len(requests[p]) /\ requests'[p][i] = requests[p][i]
        \/ i = Len(requests[p]) + 1 /\ requests'[p][i] = r
  <2>1. CASE requests'[p] = Append(requests[p], r)
    <3>1. /\ Len(requests'[p]) = Len(requests[p]) + 1
          /\ requests'[p][Len(requests[p]) + 1] = r
          /\ \A i \in 1 .. Len(requests[p]) : requests'[p][i] = requests[p][i]
      BY <1>1, <2>1
    <3>2. QED
      BY <1>1, <3>1
  <2>2. CASE requests'[p] = requests[p]
    BY <2>2
  <2>3. QED
    BY <1>1, <2>1, <2>2
<1>5. /\ \A i \in 1 .. Len(requests[p]) : requests[p][i].kind # "end" => requests[p][i].seq < n
      /\ \A i \in 1 .. Len(inbox[p]) : inbox[p][i].kind = "answer" => inbox[p][i].seq < n
      /\ \A d \in page[p].calls : d.seq \in Nat /\ d.seq < n
  <2>1. page[p].calls \subseteq PageCalls /\ \A d \in page[p].calls : d.seq < n
    BY PageFields DEF TypeOK, n
  <2>2. \A d \in PageCalls : d.seq \in Nat
    BY DEF PageCalls
  <2>3. QED
    BY <2>1, <2>2 DEF CallOK, Asked, Replied, n
<1>6. \A i \in 1 .. Len(inbox'[p]) : inbox'[p][i].kind = "answer" =>
         i + l \in 1 .. Len(inbox[p]) /\ inbox'[p][i] = inbox[p][i + l]
  BY DEF Heard
<1>7. Asked(p)'
  <2>1. SUFFICES ASSUME NEW i \in 1 .. Len(requests'[p]), requests'[p][i].kind # "end"
                 PROVE  /\ requests'[p][i].seq < page'[p].seq
                        /\ \A d \in page'[p].calls : d.seq = requests'[p][i].seq =>
                             d.kind = requests'[p][i].kind /\ d.move = requests'[p][i].move
    BY DEF Asked
  <2>2. CASE i \in 1 .. Len(requests[p]) /\ requests'[p][i] = requests[p][i]
    <3>1. requests[p][i].seq < n /\ requests[p][i].seq \in Nat
      BY <1>2, <1>5, <2>1, <2>2
    <3>2. requests[p][i].seq < n + 1 /\ requests[p][i].seq # c.seq
      BY <1>1, <3>1
    <3>3. \A d \in page[p].calls : d.seq = requests[p][i].seq =>
            d.kind = requests[p][i].kind /\ d.move = requests[p][i].move
      BY <2>1, <2>2 DEF CallOK, Asked
    <3>4. QED
      BY <1>1, <2>2, <3>2, <3>3
  <2>3. CASE requests'[p][i] = r
    <3>1. n < n + 1 /\ \A d \in page[p].calls : d.seq # n
      BY <1>1, <1>5
    <3>2. QED
      BY <1>1, <1>3, <2>3, <3>1
  <2>4. QED
    BY <1>4, <2>2, <2>3
<1>8. Replied(p)'
  <2>1. SUFFICES ASSUME NEW i \in 1 .. Len(inbox'[p]), inbox'[p][i].kind = "answer"
                 PROVE  /\ inbox'[p][i].seq < page'[p].seq
                        /\ \A d \in page'[p].calls :
                             d.seq = inbox'[p][i].seq => Matched(p, d, inbox'[p][i])
    BY DEF Replied, Matched
  <2>2. i + l \in 1 .. Len(inbox[p]) /\ inbox'[p][i] = inbox[p][i + l]
    BY <1>6, <2>1
  <2>3. inbox[p][i + l].seq < n /\ inbox[p][i + l].seq \in Nat
    BY <1>2, <1>5, <2>1, <2>2
  <2>4. inbox[p][i + l].seq < n + 1 /\ inbox[p][i + l].seq # c.seq
    BY <1>1, <2>3
  <2>5. \A d \in page[p].calls : d.seq = inbox[p][i + l].seq => Matched(p, d, inbox[p][i + l])
    BY <2>1, <2>2 DEF CallOK, Replied
  <2>6. QED
    BY <1>1, <2>2, <2>4, <2>5
<1>9. Once(p)'
  <2>1. ASSUME NEW h \in 1 .. Len(requests'[p]), NEW i \in 1 .. Len(requests'[p]), h < i,
               requests'[p][h].kind # "end", requests'[p][i].kind # "end"
        PROVE  requests'[p][h].seq # requests'[p][i].seq
    <3>1. h \in 1 .. Len(requests[p]) /\ requests'[p][h] = requests[p][h]
      BY <1>1, <1>4, <2>1
    <3>2. CASE i \in 1 .. Len(requests[p]) /\ requests'[p][i] = requests[p][i]
      BY <2>1, <3>1, <3>2 DEF CallOK, Once
    <3>3. CASE requests'[p][i] = r
      <4>1. requests[p][h].seq < n /\ requests[p][h].seq \in Nat
        BY <1>2, <1>5, <2>1, <3>1
      <4>2. requests'[p][i].seq = n
        BY <1>3, <3>3
      <4>3. requests[p][h].seq # n
        BY <1>1, <4>1
      <4>4. QED
        BY <3>1, <4>2, <4>3
    <3>4. QED
      BY <1>4, <3>2, <3>3
  <2>2. ASSUME NEW h \in 1 .. Len(inbox'[p]), NEW i \in 1 .. Len(inbox'[p]), h < i,
               inbox'[p][h].kind = "answer", inbox'[p][i].kind = "answer"
        PROVE  inbox'[p][h].seq # inbox'[p][i].seq
    <3>1. h + l < i + l
      BY <2>2
    <3>2. QED
      BY <1>6, <2>2, <3>1 DEF CallOK, Once
  <2>3. ASSUME NEW h \in 1 .. Len(requests'[p]), NEW i \in 1 .. Len(inbox'[p]),
               requests'[p][h].kind # "end", inbox'[p][i].kind = "answer"
        PROVE  requests'[p][h].seq # inbox'[p][i].seq
    <3>1. i + l \in 1 .. Len(inbox[p]) /\ inbox'[p][i] = inbox[p][i + l]
      BY <1>6, <2>3
    <3>2. CASE h \in 1 .. Len(requests[p]) /\ requests'[p][h] = requests[p][h]
      BY <2>3, <3>1, <3>2 DEF CallOK, Once
    <3>3. CASE requests'[p][h] = r
      <4>1. inbox[p][i + l].seq < n /\ inbox[p][i + l].seq \in Nat
        BY <1>2, <1>5, <2>3, <3>1
      <4>2. requests'[p][h].seq = n
        BY <1>3, <3>3
      <4>3. inbox[p][i + l].seq # n
        BY <1>1, <4>1
      <4>4. QED
        BY <3>1, <4>2, <4>3
    <3>4. QED
      BY <1>4, <3>2, <3>3
  <2>4. QED
    BY <2>1, <2>2, <2>3 DEF Once
<1>10. QED
  BY <1>7, <1>8, <1>9 DEF CallOK

LEMMA NarrowFacts ==
  ASSUME TypeOK, NEW p \in Colors
  PROVE  /\ SameCalls(p) => Narrow(p)
         /\ \A c \in page[p].calls :
              page'[p].seq = page[p].seq /\ page'[p].calls = page[p].calls \ {c} => Narrow(p)
         /\ \A c \in page[p].calls : SendReturns(p, c) => Narrow(p)
<1>1. \A c \in page[p].calls : c \in PageCalls
  BY PageFields DEF TypeOK
<1>2. ASSUME NEW c \in page[p].calls, SendReturns(p, c)
      PROVE  Narrow(p)
  <2> DEFINE e == [c EXCEPT !.sent = TRUE]
  <2>1. e.seq = c.seq /\ e.kind = c.kind /\ e.move = c.move
    BY <1>1 DEF PageCalls
  <2>2. page'[p].seq = page[p].seq /\ page'[p].calls = (page[p].calls \ {c}) \cup {e}
    BY <1>2, SmallFacts
  <2> HIDE DEF e
  <2>3. QED
    BY <2>1, <2>2 DEF Narrow
<1>3. SameCalls(p) => Narrow(p)
  BY DEF SameCalls, Narrow
<1>4. \A c \in page[p].calls :
        page'[p].seq = page[p].seq /\ page'[p].calls = page[p].calls \ {c} => Narrow(p)
  BY DEF Narrow
<1>5. QED
  BY <1>2, <1>3, <1>4

LEMMA CallHandle ==
  ASSUME TypeOK, NEW p \in Colors, CallOK(p), Handle(p)
  PROVE  CallOK(p)'
<1> DEFINE m == Head(inbox[p])
<1>1. /\ inbox[p] # <<>> /\ inbox'[p] = Tail(inbox[p])
      /\ \/ Resolves(p, m) \/ Misses(p, m) \/ Gropes(p, m) \/ Follows(p, m) \/ Stops(p, m)
         \/ Waits(p, m) \/ Returns(p, m)
  BY HandleFacts
<1>2. Heard(p, 1)
  BY <1>1, DrainedFacts, HeardFacts
<1> HIDE DEF m
<1>3. CASE Resolves(p, m)
  <2>1. Narrow(p) /\ Sifted(p, 0)
    BY <1>3, NarrowFacts, SiftedFacts DEF Resolves
  <2>2. QED
    BY <1>2, <2>1, CallKept
<1>4. CASE Follows(p, m)
  <2>1. Narrow(p)
    BY <1>4, NarrowFacts DEF Follows
  <2>2. Sifted(p, 0)
    BY <1>4, SiftedFacts DEF Follows, Moved
  <2>3. QED
    BY <1>2, <2>1, <2>2, CallKept
<1>5. CASE Misses(p, m) \/ Gropes(p, m) \/ Stops(p, m) \/ Waits(p, m)
  <2>1. SameCalls(p) /\ requests'[p] = requests[p]
    BY <1>5 DEF Misses, Gropes, Stops, Waits
  <2>2. Narrow(p) /\ Sifted(p, 0)
    BY <2>1, NarrowFacts, SiftedFacts
  <2>3. QED
    BY <1>2, <2>2, CallKept
<1>6. CASE Returns(p, m)
  BY <1>2, <1>6, CallMade DEF Returns
<1>7. QED
  BY <1>1, <1>3, <1>4, <1>5, <1>6

LEMMA CallContinue ==
  ASSUME TypeOK, NEW p \in Colors, CallOK(p), Continue(p)
  PROVE  CallOK(p)'
<1> DEFINE j == Head(page[p].jobs)
<1>1. \/ Quits(p, j)
      \/ /\ inbox'[p] = inbox[p]
         /\ \/ Enters(p, j) \/ SetsUp(p, j) \/ Retries(p, j) \/ Rejoins(p, j) \/ Idles(p, j)
            \/ Learns(p, j) \/ Plays(p, j)
  BY ContinueFacts
<1> HIDE DEF j
<1>2. CASE Quits(p, j)
  <2>1. inbox'[p] = <<>> /\ requests'[p] = <<>>
    BY <1>2 DEF Quits
  <2>2. QED
    BY <2>1 DEF CallOK, Asked, Replied, Once
<1>3. CASE inbox'[p] = inbox[p] /\ (Enters(p, j) \/ Retries(p, j) \/ Rejoins(p, j))
  <2>1. Heard(p, 0)
    BY <1>3, HeardFacts
  <2>2. \E c : \E kind \in {"join", "password", "repassword", "rejoin"} :
           Called(p, c, kind, None)
    BY <1>3 DEF Enters, Retries, Rejoins
  <2>3. QED
    BY <2>1, <2>2, CallMade
<1>4. CASE inbox'[p] = inbox[p] /\ (SetsUp(p, j) \/ Idles(p, j) \/ Learns(p, j) \/ Plays(p, j))
  <2>1. Heard(p, 0)
    BY <1>4, HeardFacts
  <2>2. SameCalls(p)
    BY <1>4 DEF SetsUp, Idles, Learns, Plays
  <2>3. requests'[p] = requests[p] \/ requests'[p] = Append(requests[p], EndRequest)
    BY <1>4 DEF SetsUp, Idles, Learns, Plays, Moved
  <2>4. QED
    BY <2>1, <2>2, <2>3, NarrowFacts, SiftedFacts, CallKept
<1>5. QED
  BY <1>1, <1>2, <1>3, <1>4

LEMMA CallOwn ==
  ASSUME TypeOK, NEW p \in Colors, CallOK(p), Own(p)
  PROVE  CallOK(p)'
<1>1. ASSUME Narrow(p), inbox'[p] = inbox[p],
             \/ requests'[p] = requests[p]
             \/ requests'[p] = Append(requests[p], EndRequest)
      PROVE  CallOK(p)'
  BY <1>1, HeardFacts, SiftedFacts, CallKept
<1>2. CASE Poll(p)
  BY <1>1, <1>2, SmallFacts, NarrowFacts DEF Still
<1>3. CASE Repick(p)
  BY <1>1, <1>3, SmallFacts, NarrowFacts
<1>4. CASE Resign(p) \/ ResignCancelled(p)
  <2>1. SameCalls(p) /\ inbox'[p] = inbox[p]
        /\ (requests'[p] = requests[p] \/ requests'[p] = Append(requests[p], EndRequest))
    BY <1>4, SmallFacts DEF Still
  <2>2. QED
    BY <1>1, <2>1, NarrowFacts
<1>5. CASE Click(p)
  <2>1. PICK m, c : Called(p, c, "move", m) /\ inbox'[p] = inbox[p]
    BY <1>5, ClickFacts
  <2>2. Heard(p, 0)
    BY <2>1, HeardFacts
  <2>3. QED
    BY <2>1, <2>2, CallMade
<1>6. CASE Lose(p)
  <2>1. PICK n \in 0 .. Len(inbox[p]) :
          inbox'[p] = Append(SubSeq(inbox[p], 1, n), Status("reconnecting"))
    BY <1>6, SmallFacts
  <2>2. Heard(p, 0)
    BY <2>1, DrainedFacts, HeardFacts
  <2>3. requests'[p] = <<>> /\ page'[p] = page[p]
    BY <1>6, SmallFacts
  <2>4. SameCalls(p)
    BY <2>3 DEF SameCalls
  <2>5. QED
    BY <2>2, <2>3, <2>4, NarrowFacts, SiftedFacts, CallKept
<1>7. CASE Reconnect(p)
  <2>1. page'[p] = page[p] /\ inbox'[p] = Append(inbox[p], Status("reconnected"))
        /\ requests'[p] = requests[p]
    BY <1>7, SmallFacts
  <2>2. Heard(p, 0) /\ SameCalls(p)
    BY <2>1, DrainedFacts, HeardFacts DEF SameCalls
  <2>3. QED
    BY <2>1, <2>2, NarrowFacts, SiftedFacts, CallKept
<1>8. ASSUME NEW c \in page[p].calls, SendReturns(p, c)
      PROVE  CallOK(p)'
  BY <1>1, <1>8, SmallFacts, NarrowFacts
<1>9. ASSUME NEW c \in page[p].calls, TimeOut(p, c)
      PROVE  CallOK(p)'
  BY <1>1, <1>9, TimeOutFacts, NarrowFacts
<1>10. CASE ClickOffline(p)
  BY <1>1, <1>10, ClickOfflineFacts, NarrowFacts DEF Dabbles
<1>11. QED
  BY <1>2, <1>3, <1>4, <1>5, <1>6, <1>7, <1>8, <1>9, <1>10, CallHandle, CallContinue DEF Own

\* The first request is answered.
LEMMA CallAnswered ==
  ASSUME TypeOK, NEW p \in Colors, CallOK(p), requests[p] # <<>>, Head(requests[p]).kind # "end",
         requests'[p] = Tail(requests[p]), page'[p] = page[p],
         NEW m \in Messages, inbox'[p] = Append(inbox[p], m), m.seq = Head(requests[p]).seq,
         \A c \in page[p].calls : c.seq = m.seq => Matched(p, c, m)
  PROVE  CallOK(p)'
<1> DEFINE n == Len(inbox[p])
           k == Len(requests[p])
<1>1. /\ n \in Nat /\ Len(inbox'[p]) = n + 1 /\ inbox'[p][n + 1] = m
      /\ \A i \in 1 .. n : inbox'[p][i] = inbox[p][i]
  <2>1. inbox[p] \in Seq(Messages)
    BY DEF TypeOK
  <2>2. QED
    BY <2>1
<1>2. /\ k \in Nat \ {0} /\ Len(requests'[p]) = k - 1 /\ Head(requests[p]) = requests[p][1]
      /\ \A i \in 1 .. k - 1 : requests'[p][i] = requests[p][i + 1]
  <2>1. requests[p] \in Seq(Requests)
    BY DEF TypeOK
  <2>2. QED
    BY <2>1
<1> HIDE DEF n, k
<1>3. Asked(p)'
  BY <1>2 DEF CallOK, Asked, k
<1>4. Replied(p)'
  <2>1. m.seq < page[p].seq
    BY <1>2 DEF CallOK, Asked, k
  <2>2. SUFFICES ASSUME NEW i \in 1 .. n + 1, inbox'[p][i].kind = "answer"
                 PROVE  /\ inbox'[p][i].seq < page[p].seq
                        /\ \A d \in page[p].calls :
                             d.seq = inbox'[p][i].seq => Matched(p, d, inbox'[p][i])
    BY <1>1 DEF Replied, Matched
  <2>3. CASE i \in 1 .. n
    BY <1>1, <2>2, <2>3 DEF CallOK, Replied, n
  <2>4. CASE i = n + 1
    BY <1>1, <2>1, <2>4
  <2>5. QED
    BY <1>1, <2>3, <2>4
<1>5. Once(p)'
  <2>0. /\ \A h, i \in 1 .. k : h < i /\ requests[p][h].kind # "end" /\ requests[p][i].kind # "end"
             => requests[p][h].seq # requests[p][i].seq
        /\ \A h, i \in 1 .. n : h < i /\ inbox[p][h].kind = "answer" /\ inbox[p][i].kind = "answer"
             => inbox[p][h].seq # inbox[p][i].seq
        /\ \A h \in 1 .. k, i \in 1 .. n : requests[p][h].kind # "end" /\ inbox[p][i].kind = "answer"
             => requests[p][h].seq # inbox[p][i].seq
    BY DEF CallOK, Once, n, k
  <2>1. ASSUME NEW h \in 1 .. k - 1, NEW i \in 1 .. k - 1, h < i,
               requests'[p][h].kind # "end", requests'[p][i].kind # "end"
        PROVE  requests'[p][h].seq # requests'[p][i].seq
    <3>1. h + 1 \in 1 .. k /\ i + 1 \in 1 .. k /\ h + 1 < i + 1
      BY <1>2, <2>1
    <3>2. requests'[p][h] = requests[p][h + 1] /\ requests'[p][i] = requests[p][i + 1]
      BY <1>2
    <3>3. QED
      BY <2>0, <2>1, <3>1, <3>2
  <2>2. ASSUME NEW h \in 1 .. n + 1, NEW i \in 1 .. n + 1, h < i,
               inbox'[p][h].kind = "answer", inbox'[p][i].kind = "answer"
        PROVE  inbox'[p][h].seq # inbox'[p][i].seq
    <3>1. h \in 1 .. n
      BY <1>1, <2>2
    <3>2. CASE i \in 1 .. n
      BY <1>1, <2>0, <2>2, <3>1, <3>2
    <3>3. CASE i = n + 1
      <4>1. requests[p][1].seq # inbox[p][h].seq
        <5>1. 1 \in 1 .. k
          BY <1>2
        <5>2. requests[p][1].kind # "end" /\ inbox[p][h].kind = "answer"
          BY <1>1, <1>2, <2>2, <3>1
        <5>3. QED
          BY <2>0, <3>1, <5>1, <5>2
      <4>2. QED
        BY <1>1, <1>2, <3>1, <3>3, <4>1
    <3>4. QED
      BY <1>1, <3>2, <3>3
  <2>3. ASSUME NEW h \in 1 .. k - 1, NEW i \in 1 .. n + 1,
               requests'[p][h].kind # "end", inbox'[p][i].kind = "answer"
        PROVE  requests'[p][h].seq # inbox'[p][i].seq
    <3>1. h + 1 \in 1 .. k /\ 1 \in 1 .. k /\ 1 < h + 1
      BY <1>2, <2>3
    <3>2. CASE i \in 1 .. n
      <4>1. requests'[p][h] = requests[p][h + 1] /\ inbox'[p][i] = inbox[p][i]
        BY <1>1, <1>2, <3>2
      <4>2. QED
        BY <2>0, <2>3, <3>1, <3>2, <4>1
    <3>3. CASE i = n + 1
      <4>1. requests[p][1].seq # requests[p][h + 1].seq
        BY <1>2, <2>0, <2>3, <3>1
      <4>2. QED
        BY <1>1, <1>2, <2>3, <3>3, <4>1
    <3>4. i \in 1 .. n \/ i = n + 1
      BY <1>1, <2>3
    <3>5. QED
      BY <3>2, <3>3, <3>4
  <2>4. QED
    BY <1>1, <1>2, <2>1, <2>2, <2>3 DEF Once
<1>6. QED
  BY <1>3, <1>4, <1>5 DEF CallOK

LEMMA CallServe ==
  ASSUME TypeOK, NEW p \in Colors, NEW q \in Colors, CallOK(q), Serve(p)
  PROVE  CallOK(q)'
<1> DEFINE r == Head(requests[p])
           n == Len(log)
<1>1. /\ requests[p] # <<>> /\ r \in Requests /\ requests'[p] = Tail(requests[p])
      /\ page' = page /\ (q # p => requests'[q] = requests[q])
      /\ Answers(p, r) \/ Takes(p, r) \/ Closes(p, r)
  BY ServeFacts
<1>2. Narrow(q)
  BY <1>1, NarrowFacts DEF SameCalls
<1>3. n \in Nat /\ n + 1 \in Nat /\ r.seq \in Nat
  <2>1. r.seq \in Nat
    BY <1>1 DEF Requests
  <2>2. QED
    BY <2>1, LevelType
<1>4. OpponentMove(r.move, n + 1).kind # "answer" /\ GameEnd.kind # "answer" /\ GameEnd \in Messages
  BY MessageTypes DEF OpponentMove, GameEnd, Notice
<1> HIDE DEF r, n
<1>5. CASE q # p
  <2>1. Sifted(q, 0)
    BY <1>1, <1>5, SiftedFacts
  <2>2. \/ inbox'[q] = inbox[q]
        \/ inbox'[q] = Append(inbox[q], OpponentMove(r.move, n + 1)) /\ r.move \in Moves
        \/ inbox'[q] = Append(inbox[q], GameEnd)
    BY <1>1, <1>5 DEF Answers, Takes, Closes, n
  <2>3. Heard(q, 0)
    BY <1>3, <1>4, <2>2, HeardFacts, MessageTypes
  <2>4. QED
    BY <1>2, <2>1, <2>3, CallKept
<1>6. CASE q = p /\ Closes(p, r)
  <2>1. Sifted(q, 1)
    BY <1>1, <1>6, SiftedFacts
  <2>2. inbox'[q] = inbox[q] \/ inbox'[q] = Append(inbox[q], GameEnd)
    BY <1>6 DEF Closes
  <2>3. Heard(q, 0)
    BY <1>4, <2>2, HeardFacts
  <2>4. QED
    BY <1>2, <2>1, <2>3, CallKept
<1>7. ASSUME q = p, r.kind # "end", NEW c \in page[p].calls, c.seq = r.seq
      PROVE  c.kind = r.kind /\ c.move = r.move
  <2>1. 1 \in 1 .. Len(requests[p]) /\ r = requests[p][1]
    <3>1. requests[p] \in Seq(Requests)
      BY DEF TypeOK
    <3>2. QED
      BY <1>1, <3>1 DEF r
  <2>2. QED
    BY <1>7, <2>1 DEF CallOK, Asked
<1>8. CASE q = p /\ Answers(p, r)
  <2>1. PICK ok \in BOOLEAN, mine \in BOOLEAN :
          /\ r.kind # "end"
          /\ r.kind = "move" => ~ok
          /\ r.kind \in {"join", "rejoin"} => mine = (Awaited = p)
          /\ inbox'[p] = Append(inbox[p], Answer(r.seq, ok, None, mine, n))
    BY <1>8 DEF Answers, n
  <2> DEFINE m == Answer(r.seq, ok, None, mine, n)
  <2>2. m \in Messages
    BY <1>3, MessageTypes
  <2>3. m.seq = r.seq /\ m.ok = ok /\ m.move = None /\ m.mine = mine /\ m.at = n
    BY DEF Answer
  <2> HIDE DEF m
  <2>4. \A c \in page[p].calls : c.seq = m.seq => Matched(p, c, m)
    BY <1>7, <1>8, <2>1, <2>3 DEF Matched, Awaited, n
  <2>5. inbox'[p] = Append(inbox[p], m) /\ page'[p] = page[p]
    BY <1>1, <2>1 DEF m
  <2>6. QED
    BY <1>1, <1>8, <2>1, <2>2, <2>3, <2>4, <2>5, CallAnswered DEF r
<1>9. CASE q = p /\ Takes(p, r)
  <2> DEFINE m == Answer(r.seq, TRUE, r.move, FALSE, n + 1)
  <2>1. /\ r.kind = "move" /\ r.move \in Moves
        /\ inbox'[p] = Append(inbox[p], m)
    BY <1>9 DEF Takes, n
  <2>2. m \in Messages
    BY <1>3, <2>1, MessageTypes
  <2>3. m.seq = r.seq /\ m.ok = TRUE /\ m.move = r.move
    BY DEF Answer
  <2> HIDE DEF m
  <2>4. \A c \in page[p].calls : c.seq = m.seq => Matched(p, c, m)
    BY <1>7, <1>9, <2>1, <2>3, PlayAssumption DEF Matched
  <2>5. QED
    BY <1>1, <1>9, <2>1, <2>2, <2>3, <2>4, CallAnswered DEF r
<1>10. QED
  BY <1>1, <1>5, <1>6, <1>8, <1>9

LEMMA CallSwept ==
  ASSUME TypeOK, NEW q \in Colors, CallOK(q), Swept
  PROVE  CallOK(q)'
<1>1. Narrow(q) /\ Sifted(q, 0)
  BY NarrowFacts, SiftedFacts DEF SameCalls, Swept
<1>2. GameEnd.kind # "answer" /\ GameEnd \in Messages
  BY MessageTypes DEF GameEnd, Notice
<1>3. inbox'[q] = inbox[q] \/ inbox'[q] = Append(inbox[q], GameEnd)
  BY DEF Swept
<1>4. Heard(q, 0)
  BY <1>2, <1>3, HeardFacts
<1>5. QED
  BY <1>1, <1>4, CallKept

(***************************************************************************)
(* What the code behind an await learns is true.                           *)
(***************************************************************************)
JobFit(p, j) ==
  /\ Owed(j) => j.at \in 1 .. Len(log) /\ j.call.move = log[j.at] /\ Mover(j.at - 1) = p
  /\ j.call.kind \in {"join", "rejoin"} /\ j.ok => j.mine = (Mover(j.at) = p)
JobsFit(p) == \A i \in 1 .. Len(page[p].jobs) : JobFit(p, page[p].jobs[i])

LEMMA JobsStay ==
  ASSUME TypeOK, NEW p \in Colors, JobsFit(p), Grows,
         \/ page'[p].jobs = page[p].jobs
         \/ page[p].jobs # <<>> /\ page'[p].jobs = Tail(page[p].jobs)
         \/ page'[p].jobs = <<>>
         \/ \E j \in Jobs : JobFit(p, j) /\ page'[p].jobs = Append(page[p].jobs, j)
  PROVE  JobsFit(p)'
<1> DEFINE jobs == page[p].jobs
           n == Len(jobs)
<1>1. jobs \in Seq(Jobs) /\ n \in Nat /\ Len(log) \in Nat
  BY PageFields, LevelType DEF TypeOK
<1>2. \A j : JobFit(p, j) => JobFit(p, j)'
  <2>1. SUFFICES ASSUME NEW j, JobFit(p, j)
                 PROVE  JobFit(p, j)'
    OBVIOUS
  <2>2. ASSUME Owed(j)
        PROVE  j.at \in 1 .. Len(log') /\ j.call.move = log'[j.at] /\ Mover(j.at - 1) = p
    <3>1. Len(log) =< Len(log') /\ Len(log') \in Nat
      BY <1>1 DEF Grows
    <3>2. QED
      BY <1>1, <2>1, <2>2, <3>1 DEF JobFit, Grows
  <2>3. QED
    BY <2>1, <2>2 DEF JobFit, Owed
<1>3. CASE page'[p].jobs = jobs
  BY <1>2, <1>3 DEF JobsFit
<1>4. CASE jobs # <<>> /\ page'[p].jobs = Tail(jobs)
  <2>1. /\ Len(page'[p].jobs) = n - 1
        /\ \A i \in 1 .. n - 1 : i + 1 \in 1 .. n /\ page'[p].jobs[i] = jobs[i + 1]
    BY <1>1, <1>4
  <2> HIDE DEF jobs
  <2>2. QED
    BY <1>2, <2>1 DEF JobsFit, jobs
<1>5. CASE page'[p].jobs = <<>>
  BY <1>5 DEF JobsFit
<1>6. ASSUME NEW j \in Jobs, JobFit(p, j), page'[p].jobs = Append(jobs, j)
      PROVE  JobsFit(p)'
  <2>1. /\ Len(page'[p].jobs) = n + 1 /\ page'[p].jobs[n + 1] = j
        /\ \A i \in 1 .. n : page'[p].jobs[i] = jobs[i]
    BY <1>1, <1>6
  <2> HIDE DEF jobs
  <2>2. \A i \in 1 .. n + 1 : i \in 1 .. n \/ i = n + 1
    BY <1>1
  <2>3. QED
    BY <1>2, <1>6, <2>1, <2>2 DEF JobsFit, jobs
<1>7. QED
  BY <1>3, <1>4, <1>5, <1>6

LEMMA ResultFits ==
  ASSUME TypeOK, NEW p \in Colors, QueueOK(p), CallOK(p), inbox[p] # <<>>,
         NEW c \in page[p].calls, c.seq = Head(inbox[p]).seq, Head(inbox[p]).kind = "answer"
  PROVE  Resulting(c, Head(inbox[p])) \in Jobs /\ JobFit(p, Resulting(c, Head(inbox[p])))
<1> DEFINE m == Head(inbox[p])
           j == Resulting(c, m)
<1>1. 1 \in 1 .. Len(inbox[p]) /\ m = inbox[p][1] /\ m \in Messages
  <2>1. inbox[p] \in Seq(Messages)
    BY DEF TypeOK
  <2>2. QED
    BY <2>1
<1>2. Dated(p, m) /\ Matched(p, c, m)
  BY <1>1 DEF QueueOK, Timely, CallOK, Replied
<1>3. c \in PageCalls /\ Level(p) \in Nat /\ Len(log) \in Nat
  BY PageFields, LevelType DEF TypeOK
<1>4. m.at \in Nat /\ m.ok \in BOOLEAN /\ m.mine \in BOOLEAN
  BY <1>1 DEF Messages
<1> HIDE DEF m
<1>5. j \in Jobs
  BY <1>3, <1>4 DEF Resulting, Jobs
<1>6. j.call = c /\ j.ok = m.ok /\ j.mine = m.mine /\ j.at = m.at
  BY DEF Resulting
<1> HIDE DEF j
<1>7. ASSUME Owed(j)
      PROVE  j.at \in 1 .. Len(log) /\ j.call.move = log[j.at] /\ Mover(j.at - 1) = p
  <2>1. c.kind = "move" /\ m.ok /\ m.move # None /\ m.move = c.move
    BY <1>2, <1>6, <1>7 DEF Owed, Matched
  <2>2. Level(p) < m.at /\ m.at =< Len(log) /\ log[m.at] = m.move /\ Mover(m.at - 1) = p
    BY <1>2, <2>1 DEF Dated, Timed, m
  <2>3. m.at \in 1 .. Len(log)
    BY <1>3, <1>4, <2>2
  <2>4. QED
    BY <1>6, <2>1, <2>2, <2>3
<1>8. JobFit(p, j)
  BY <1>2, <1>6, <1>7 DEF JobFit, Matched
<1>9. QED
  BY <1>5, <1>8 DEF j, m

LEMMA JobsOwn ==
  ASSUME TypeOK, NEW p \in Colors, QueueOK(p), CallOK(p), JobsFit(p), log' = log, over' = over,
         Own(p)
  PROVE  JobsFit(p)'
<1>1. Grows
  BY LevelType DEF Grows
<1>2. CASE Handle(p)
  <2> DEFINE m == Head(inbox[p])
  <2>1. /\ inbox[p] # <<>>
        /\ \/ Resolves(p, m) \/ Misses(p, m) \/ Gropes(p, m) \/ Follows(p, m) \/ Stops(p, m)
           \/ Waits(p, m) \/ Returns(p, m)
    BY <1>2, HandleFacts
  <2>2. CASE Resolves(p, m)
    <3>1. PICK c \in page[p].calls : /\ m.kind = "answer" /\ c.seq = m.seq
                                     /\ page'[p].jobs = Append(page[p].jobs, Resulting(c, m))
      BY <2>2 DEF Resolves
    <3>2. Resulting(c, m) \in Jobs /\ JobFit(p, Resulting(c, m))
      BY <2>1, <3>1, ResultFits
    <3>3. QED
      BY <1>1, <3>1, <3>2, JobsStay
  <2> HIDE DEF m
  <2>3. CASE \/ Misses(p, m) \/ Gropes(p, m) \/ Follows(p, m) \/ Stops(p, m)
             \/ Waits(p, m) \/ Returns(p, m)
    <3>1. page'[p].jobs = page[p].jobs
      BY <2>3 DEF Misses, Gropes, Follows, Stops, Waits, Returns
    <3>2. QED
      BY <1>1, <3>1, JobsStay
  <2>4. QED
    BY <2>1, <2>2, <2>3
<1>3. CASE Continue(p)
  <2>1. /\ page[p].jobs # <<>>
        /\ page'[p].jobs = Tail(page[p].jobs) \/ page'[p] = LeftPage(p)
    BY <1>3, ContinueFacts DEF Quits
  <2>2. LeftPage(p).jobs = <<>>
    BY DEF LeftPage, FreshPage
  <2>3. QED
    BY <1>1, <2>1, <2>2, JobsStay
<1>4. ASSUME NEW c \in page[p].calls, TimeOut(p, c)
      PROVE  JobsFit(p)'
  <2> DEFINE j == [call |-> c, ok |-> FALSE, mine |-> TRUE, at |-> 0]
  <2>1. page'[p].jobs = <<j>>
    BY <1>4, TimeOutFacts
  <2>2. j.ok = FALSE
    OBVIOUS
  <2> HIDE DEF j
  <2>3. Len(page'[p].jobs) = 1 /\ page'[p].jobs[1] = j
    BY <2>1
  <2>4. QED
    BY <2>2, <2>3 DEF JobsFit, JobFit, Owed
<1>5. CASE \/ Poll(p) \/ Click(p) \/ ClickOffline(p) \/ Repick(p) \/ Resign(p)
           \/ ResignCancelled(p) \/ Lose(p) \/ Reconnect(p)
           \/ \E c \in page[p].calls : SendReturns(p, c)
  <2>1. page'[p].jobs = page[p].jobs
    BY <1>5, SmallFacts, ClickFacts, ClickOfflineFacts DEF Still, Dabbles
  <2>2. QED
    BY <1>1, <2>1, JobsStay
<1>6. QED
  BY <1>2, <1>3, <1>4, <1>5 DEF Own

(***************************************************************************)
(* The invariant of the queues.                                            *)
(***************************************************************************)
QueuesOK == \A p \in Colors : QueueOK(p) /\ CallOK(p) /\ JobsFit(p)

LEMMA InitFacts ==
  ASSUME Init, NEW p \in Colors
  PROVE  /\ log = <<>> /\ over = FALSE /\ inbox[p] = <<>> /\ page[p].board = <<>>
         /\ page[p].local = 0 /\ page[p].jobs = <<>> /\ page[p].seq = 2 /\ page[p].turn = "red"
         /\ page[p].held = None /\ page[p].online /\ page[p].connected /\ up[p]
         /\ page[p].myTurn = (p = "red") /\ ~astray[p] /\ faults = 0
         /\ \/ /\ page[p].where = "loading" /\ requests[p] = <<Request("login", None, 1)>>
               /\ page[p].calls = {PageCall(1, "login", None, TRUE)}
            \/ page[p].where = "playing" /\ requests[p] = <<>> /\ page[p].calls = {}
<1>1. /\ log = <<>> /\ over = FALSE /\ inbox[p] = <<>> /\ ~astray[p] /\ faults = 0 /\ up[p]
      /\ \/ page[p] = FreshPage(p) /\ requests[p] = <<Request("login", None, 1)>>
         \/ page[p] = LoadedPage(p) /\ requests[p] = <<>>
  BY DEF Init
<1>2. LET n == FreshPage(p) IN
      /\ n.board = <<>> /\ n.local = 0 /\ n.jobs = <<>> /\ n.seq = 2 /\ n.turn = "red"
      /\ n.held = None
      /\ n.online /\ n.connected /\ n.myTurn = (p = "red") /\ n.where = "loading"
      /\ n.calls = {PageCall(1, "login", None, TRUE)}
  BY DEF FreshPage
<1>3. LET n == LoadedPage(p) IN
      /\ n.board = <<>> /\ n.local = 0 /\ n.jobs = <<>> /\ n.seq = 2 /\ n.turn = "red"
      /\ n.held = None
      /\ n.online /\ n.connected /\ n.myTurn = (p = "red") /\ n.where = "playing"
      /\ n.calls = {}
  BY DEF LoadedPage, FreshPage
<1>4. QED
  BY <1>1, <1>2, <1>3

LEMMA InitQueues == Init => QueuesOK
<1> SUFFICES ASSUME Init, NEW p \in Colors
             PROVE  QueueOK(p) /\ CallOK(p) /\ JobsFit(p)
  BY DEF QueuesOK
<1>1. /\ log = <<>> /\ over = FALSE /\ inbox[p] = <<>> /\ page[p].board = <<>>
      /\ page[p].local = 0 /\ page[p].jobs = <<>> /\ page[p].seq = 2
      /\ \/ /\ requests[p] = <<Request("login", None, 1)>>
            /\ page[p].calls = {PageCall(1, "login", None, TRUE)}
         \/ requests[p] = <<>> /\ page[p].calls = {}
  BY InitFacts
<1>2. JobsFit(p)
  BY <1>1 DEF JobsFit
<1>3. Level(p) = 0
  <2>1. <<>> \in Seq(Jobs) /\ OwedIn(<<>>) = {}
    BY DEF OwedIn
  <2>2. CountOwed(<<>>) = 0
    BY <2>1, FS_EmptySet DEF CountOwed
  <2>3. QED
    BY <1>1, <2>2 DEF Level, Served
<1>4. QueueOK(p)
  BY <1>1, <1>3 DEF QueueOK, Room, Timely, Ordered, Ahead
<1>5. LET r == Request("login", None, 1)
          c == PageCall(1, "login", None, TRUE) IN
      r.seq = 1 /\ r.kind = "login" /\ r.move = None /\ c.kind = "login" /\ c.move = None
  BY DEF Request, PageCall
<1>6. (\A x : Len(<<x>>) = 1 /\ <<x>>[1] = x) /\ Len(<<>>) = 0
  OBVIOUS
<1>7. Asked(p)
  <2>1. CASE requests[p] = <<>>
    BY <1>6, <2>1 DEF Asked
  <2>2. CASE /\ requests[p] = <<Request("login", None, 1)>>
             /\ page[p].calls = {PageCall(1, "login", None, TRUE)}
    <3>1. /\ Len(requests[p]) = 1 /\ requests[p][1].seq = 1 /\ requests[p][1].kind = "login"
          /\ requests[p][1].move = None
      BY <1>5, <1>6, <2>2
    <3>2. \A c \in page[p].calls : c.kind = "login" /\ c.move = None
      BY <1>5, <2>2
    <3>3. QED
      BY <1>1, <3>1, <3>2 DEF Asked
  <2>3. QED
    BY <1>1, <2>1, <2>2
<1>8. Once(p)
  <2>1. Len(inbox[p]) = 0 /\ (Len(requests[p]) = 0 \/ Len(requests[p]) = 1)
    BY <1>1, <1>6
  <2>2. \A n \in {0, 1} : \A h, i \in 1 .. n : ~(h < i)
    OBVIOUS
  <2>3. QED
    BY <2>1, <2>2 DEF Once
<1>9. Replied(p)
  BY <1>1 DEF Replied
<1>10. QED
  BY <1>2, <1>4, <1>7, <1>8, <1>9 DEF CallOK

LEMMA RestsQueues ==
  ASSUME NEW q \in Colors, QueueOK(q), CallOK(q), JobsFit(q), Rests(q)
  PROVE  QueueOK(q)' /\ CallOK(q)' /\ JobsFit(q)'
<1>1. page'[q] = page[q] /\ requests'[q] = requests[q] /\ inbox'[q] = inbox[q]
      /\ log' = log /\ over' = over
  BY DEF Rests
<1>2. Level(q)' = Level(q)
  BY <1>1 DEF Level, Served
<1>3. QueueOK(q)'
  BY <1>1, <1>2 DEF QueueOK, Room, Timely, Dated, Ordered, Ahead
<1>4. CallOK(q)'
  <2>1. Asked(q)'
    BY <1>1 DEF CallOK, Asked
  <2>2. Replied(q)'
    BY <1>1 DEF CallOK, Replied, Matched
  <2>3. Once(q)'
    BY <1>1 DEF CallOK, Once
  <2>4. QED
    BY <2>1, <2>2, <2>3 DEF CallOK
<1>5. JobsFit(q)'
  BY <1>1 DEF JobsFit, JobFit
<1>6. QED
  BY <1>3, <1>4, <1>5

LEMMA NextQueues == TypeOK /\ TypeOK' /\ QueuesOK /\ [Next]_vars => QueuesOK'
<1> SUFFICES ASSUME TypeOK, TypeOK', QueuesOK, [Next]_vars, NEW q \in Colors
             PROVE  QueueOK(q)' /\ CallOK(q)' /\ JobsFit(q)'
  BY DEF QueuesOK
<1>1. QueueOK(q) /\ CallOK(q) /\ JobsFit(q)
  BY DEF QueuesOK
<1>2. CASE Passes
  BY <1>1, <1>2, RestsQueues DEF Passes, Rests
<1>3. ASSUME NEW p \in Colors, Serve(p)
      PROVE  QueueOK(q)' /\ CallOK(q)' /\ JobsFit(q)'
  <2>1. QueueOK(q)' /\ CallOK(q)'
    BY <1>1, <1>3, QueueServe, CallServe
  <2>2. page' = page
    BY <1>3, ServeFacts
  <2>3. JobsFit(q)'
    BY <1>1, <1>3, <2>2, ServeGrows, JobsStay
  <2>4. QED
    BY <2>1, <2>3
<1>4. ASSUME NEW p \in Colors, Own(p), q = p
      PROVE  QueueOK(q)' /\ CallOK(q)' /\ JobsFit(q)'
  <2>1. log' = log /\ over' = over
    <3>1. PICK r \in Colors : r # p
      BY ColorFacts
    <3>2. QED
      BY <1>4, <3>1, OthersRest
  <2>2. QueueOK(q)'
    BY <1>1, <1>4, <2>1, QueueOwn DEF CallOK
  <2>3. QED
    BY <1>1, <1>4, <2>1, <2>2, CallOwn, JobsOwn
<1>5. ASSUME NEW p \in Colors, Own(p), q # p
      PROVE  QueueOK(q)' /\ CallOK(q)' /\ JobsFit(q)'
  BY <1>1, <1>5, OthersRest, RestsQueues
<1>6. CASE Swept
  <2>1. page'[q] = page[q] /\ Grows
    BY <1>6, LevelType DEF Swept, Grows
  <2>2. JobsFit(q)'
    BY <1>1, <2>1, JobsStay
  <2>3. QED
    BY <1>1, <1>6, <2>2, QueueSwept, CallSwept
<1>7. QED
  BY <1>2, <1>3, <1>4, <1>5, <1>6, NextFacts

\* In the queues between a page and the server nothing is mixed up, whatever the players do and
\* however often connections are lost: moves are in the order of the game and later than what
\* the board shows, an answer meets the call that asked for it, and nothing is answered twice.
THEOREM QueuesTheorem == Spec => []QueuesOK
<1>1. Init => QueuesOK
  BY InitQueues
<1>2. TypeOK /\ TypeOK' /\ QueuesOK /\ [Next]_vars => QueuesOK'
  BY NextQueues
<1>3. QED
  BY <1>1, <1>2, TypeTheorem, PTL DEF Spec

\* However muddled a page is, it shows and is owed no more moves than the server has taken, those
\* not counted that its player made when the game was over for the page: the messages that carry a move carry different ones, all of them later than those that the
\* board shows or is owed.
THEOREM NeverAheadTheorem == Spec => []NeverAhead
<1>1. TypeOK /\ QueuesOK => NeverAhead
  <2> SUFFICES ASSUME TypeOK, QueuesOK, NEW p \in Colors
               PROVE  Len(page[p].board) + Cardinality(OwedJobs(p)) + Cardinality(Carriers(p))
                        =< Len(log) + page[p].local
    BY DEF NeverAhead
  <2> DEFINE b == Served(p)
             o == Cardinality(OwedJobs(p))
             n == Len(log)
             S == Carriers(p)
             T == b + o + 1 .. n
             f == [i \in S |-> inbox[p][i].at]
  <2>1. QueueOK(p)
    BY DEF QueuesOK
  <2>2. b \in Nat /\ o \in Nat /\ n \in Nat /\ Level(p) = b + o /\ Len(inbox[p]) \in Nat
    <3>1. o = CountOwed(page[p].jobs)
      BY DEF OwedJobs, CountOwed, OwedIn
    <3>2. QED
      BY <3>1, LevelType, LevelIs
  <2>3. b + o =< n
    BY <2>1, <2>2 DEF QueueOK, Room
  <2>4. \A i \in S : i \in 1 .. Len(inbox[p]) /\ inbox[p][i].move # None /\ inbox[p][i].at \in Nat
    BY LevelType DEF Carriers
  <2> HIDE DEF b, o, n, S
  <2>5. f \in [S -> T]
    <3>1. \A i \in S : inbox[p][i].at \in T
      <4>1. SUFFICES ASSUME NEW i \in S PROVE inbox[p][i].at \in T
        OBVIOUS
      <4>2. Level(p) < inbox[p][i].at /\ inbox[p][i].at =< Len(log)
        BY <2>1, <2>4 DEF QueueOK, Timely, Dated, Timed
      <4>3. QED
        BY <2>2, <2>4, <4>2 DEF n
    <3>2. QED
      BY <3>1
  <2>6. \A h, i \in S : f[h] = f[i] => h = i
    <3>1. SUFFICES ASSUME NEW h \in S, NEW i \in S, h < i
                   PROVE  inbox[p][h].at # inbox[p][i].at
      BY <2>2, <2>4
    <3>2. inbox[p][h].at < inbox[p][i].at
      BY <2>1, <2>4, <3>1 DEF QueueOK, Ordered, Before, Timed
    <3>3. QED
      BY <2>4, <3>2
  <2>7. IsFiniteSet(T) /\ Cardinality(T) = n - (b + o)
    <3>1. b + o + 1 \in Int /\ n \in Int
      BY <2>2
    <3>2. (IF b + o + 1 > n THEN 0 ELSE n - (b + o + 1) + 1) = n - (b + o)
      BY <2>2, <2>3
    <3>3. QED
      BY <3>1, <3>2, FS_Interval
  <2>8. Cardinality(S) =< Cardinality(T) /\ IsFiniteSet(S)
    <3>1. f \in Injection(S, T)
      BY <2>5, <2>6 DEF Injection, IsInjective
    <3>2. QED
      BY <2>7, <3>1, FS_Injection
  <2>9. Cardinality(S) \in Nat
    BY <2>8, FS_CardinalityType
  <2>10. b + o + Cardinality(S) =< n
    <3>1. \A k, l \in Nat : k =< l /\ l = n - (b + o) => b + o + k =< n
      BY <2>2
    <3>2. n - (b + o) \in Nat
      BY <2>2, <2>3
    <3>3. QED
      BY <2>7, <2>8, <2>9, <3>1, <3>2
  <2>11. /\ Len(page[p].board) \in Nat /\ page[p].local \in Nat
         /\ b = Len(page[p].board) - page[p].local
    BY LevelType, PageFields DEF TypeOK, Served, b
  <2>12. \A x, l, k \in Nat : b = x - l /\ b + o + k =< n => x + o + k =< n + l
    BY <2>2
  <2>13. Len(page[p].board) + o + Cardinality(S) =< n + page[p].local
    BY <2>9, <2>10, <2>11, <2>12
  <2>14. QED
    BY <2>13 DEF o, n, S
<1>2. QED
  BY <1>1, TypeTheorem, QueuesTheorem, PTL

(***************************************************************************)
(* Calls and jobs that are alone: of the kinds in K a page awaits or owes  *)
(* the code behind at most one.                                            *)
(***************************************************************************)
Alone(p, K) ==
  /\ \A c, d \in page[p].calls : c.kind \in K /\ d.kind \in K => c = d
  /\ \A h, i \in 1 .. Len(page[p].jobs) :
        h < i => ~(page[p].jobs[h].call.kind \in K /\ page[p].jobs[i].call.kind \in K)
  /\ \A c \in page[p].calls, i \in 1 .. Len(page[p].jobs) :
        ~(c.kind \in K /\ page[p].jobs[i].call.kind \in K)
\* No call of the kinds in K.
Without(p, K) == \A c \in page[p].calls : c.kind \notin K
WithoutJob(p, K) == \A i \in 1 .. Len(page[p].jobs) : page[p].jobs[i].call.kind \notin K

\* How calls and jobs change: nothing; a send returns; a call is resolved; ...
SameWork(p) == page'[p].calls = page[p].calls /\ page'[p].jobs = page[p].jobs
Sent(p, c) == /\ page'[p].calls = (page[p].calls \ {c}) \cup {[c EXCEPT !.sent = TRUE]}
              /\ page'[p].jobs = page[p].jobs
Settles(p, c, j) == /\ page'[p].calls = page[p].calls \ {c} /\ j \in Jobs /\ j.call = c
                    /\ page'[p].jobs = Append(page[p].jobs, j)
\* ... a call is made, the first job has run, or it makes a call.
Adds(p, c) == page'[p].calls = page[p].calls \cup {c} /\ page'[p].jobs = page[p].jobs
Runs(p) == page'[p].calls = page[p].calls /\ page'[p].jobs = Tail(page[p].jobs)
RunsOn(p, c) == page'[p].calls = page[p].calls \cup {c} /\ page'[p].jobs = Tail(page[p].jobs)

LEMMA JobShift ==
  ASSUME TypeOK, NEW p \in Colors
  PROVE  /\ page[p].jobs \in Seq(Jobs) /\ Len(page[p].jobs) \in Nat
         /\ page[p].jobs # <<>> /\ page'[p].jobs = Tail(page[p].jobs) =>
              /\ Len(page'[p].jobs) = Len(page[p].jobs) - 1 /\ Len(page[p].jobs) >= 1
              /\ Head(page[p].jobs) = page[p].jobs[1]
              /\ \A i \in 1 .. Len(page'[p].jobs) :
                    i + 1 \in 2 .. Len(page[p].jobs) /\ page'[p].jobs[i] = page[p].jobs[i + 1]
         /\ \A j \in Jobs : page'[p].jobs = Append(page[p].jobs, j) =>
              /\ Len(page'[p].jobs) = Len(page[p].jobs) + 1
              /\ page'[p].jobs[Len(page[p].jobs) + 1] = j
              /\ \A i \in 1 .. Len(page[p].jobs) : page'[p].jobs[i] = page[p].jobs[i]
<1> DEFINE jobs == page[p].jobs
<1>1. jobs \in Seq(Jobs)
  BY PageFields DEF TypeOK
<1>2. Len(jobs) \in Nat
  BY <1>1
<1>3. ASSUME jobs # <<>>, page'[p].jobs = Tail(jobs)
      PROVE  /\ Len(page'[p].jobs) = Len(jobs) - 1 /\ Len(jobs) >= 1 /\ Head(jobs) = jobs[1]
             /\ \A i \in 1 .. Len(page'[p].jobs) :
                   i + 1 \in 2 .. Len(jobs) /\ page'[p].jobs[i] = jobs[i + 1]
  <2> DEFINE more == Tail(jobs)
  <2>1. /\ Len(more) = Len(jobs) - 1 /\ Len(jobs) >= 1 /\ Head(jobs) = jobs[1]
        /\ \A i \in 1 .. Len(jobs) - 1 : more[i] = jobs[i + 1]
    BY <1>1, <1>3
  <2>2. \A i \in 1 .. Len(jobs) - 1 : i + 1 \in 2 .. Len(jobs)
    BY <1>2
  <2>3. QED
    BY <1>3, <2>1, <2>2
<1>4. ASSUME NEW j \in Jobs, page'[p].jobs = Append(jobs, j)
      PROVE  /\ Len(page'[p].jobs) = Len(jobs) + 1 /\ page'[p].jobs[Len(jobs) + 1] = j
             /\ \A i \in 1 .. Len(jobs) : page'[p].jobs[i] = jobs[i]
  BY <1>1, <1>4
<1>5. QED
  BY <1>1, <1>2, <1>3, <1>4

LEMMA AloneKept ==
  ASSUME TypeOK, NEW p \in Colors, NEW K, Alone(p, K),
         \/ SameWork(p)
         \/ \E c \in page[p].calls : Sent(p, c)
         \/ \E c \in page[p].calls : \E j : Settles(p, c, j)
         \/ page[p].jobs # <<>> /\ Runs(p)
  PROVE  Alone(p, K)'
<1>1. CASE SameWork(p)
  BY <1>1 DEF SameWork, Alone
<1>2. ASSUME NEW c \in page[p].calls, Sent(p, c)
      PROVE  Alone(p, K)'
  <2> DEFINE e == [c EXCEPT !.sent = TRUE]
  <2>1. e.kind = c.kind
    BY PageFields DEF TypeOK, PageCalls
  <2>2. page'[p].calls = (page[p].calls \ {c}) \cup {e} /\ page'[p].jobs = page[p].jobs
    BY <1>2 DEF Sent
  <2> HIDE DEF e
  <2>3. QED
    BY <2>1, <2>2 DEF Alone
<1>3. ASSUME NEW c \in page[p].calls, NEW j, Settles(p, c, j)
      PROVE  Alone(p, K)'
  <2> DEFINE n == Len(page[p].jobs)
  <2>1. /\ page'[p].calls = page[p].calls \ {c} /\ j.call = c /\ n \in Nat
        /\ Len(page'[p].jobs) = n + 1 /\ page'[p].jobs[n + 1] = j
        /\ \A i \in 1 .. n : page'[p].jobs[i] = page[p].jobs[i]
    BY <1>3, JobShift DEF Settles
  <2>2. \A i \in 1 .. n + 1 : i \in 1 .. n \/ i = n + 1
    BY <2>1
  <2>3. \A c1, c2 \in page'[p].calls : c1.kind \in K /\ c2.kind \in K => c1 = c2
    BY <2>1 DEF Alone
  <2>4. ASSUME NEW h \in 1 .. n + 1, NEW i \in 1 .. n + 1, h < i
        PROVE  ~(page'[p].jobs[h].call.kind \in K /\ page'[p].jobs[i].call.kind \in K)
    <3>1. h \in 1 .. n
      BY <2>1, <2>4
    <3>2. CASE i \in 1 .. n
      BY <2>1, <2>4, <3>1, <3>2 DEF Alone
    <3>3. CASE i = n + 1
      <4>1. page'[p].jobs[h] = page[p].jobs[h] /\ page'[p].jobs[i].call = c
        BY <2>1, <3>1, <3>3
      <4>2. ~(c.kind \in K /\ page[p].jobs[h].call.kind \in K)
        BY <3>1 DEF Alone
      <4>3. QED
        BY <4>1, <4>2
    <3>4. QED
      BY <2>2, <3>2, <3>3
  <2>5. ASSUME NEW d \in page'[p].calls, NEW i \in 1 .. n + 1
        PROVE  ~(d.kind \in K /\ page'[p].jobs[i].call.kind \in K)
    <3>1. d \in page[p].calls /\ d # c
      BY <2>1
    <3>2. CASE i \in 1 .. n
      BY <2>1, <3>1, <3>2 DEF Alone
    <3>3. CASE i = n + 1
      BY <2>1, <3>1, <3>3 DEF Alone
    <3>4. QED
      BY <2>2, <3>2, <3>3
  <2>6. QED
    BY <2>1, <2>3, <2>4, <2>5 DEF Alone
<1>4. CASE page[p].jobs # <<>> /\ Runs(p)
  <2> DEFINE n == Len(page[p].jobs)
  <2>1. /\ page'[p].calls = page[p].calls /\ n \in Nat /\ Len(page'[p].jobs) = n - 1
        /\ \A i \in 1 .. n - 1 : i + 1 \in 1 .. n /\ page'[p].jobs[i] = page[p].jobs[i + 1]
    BY <1>4, JobShift DEF Runs
  <2>2. ASSUME NEW h \in 1 .. n - 1, NEW i \in 1 .. n - 1, h < i
        PROVE  ~(page'[p].jobs[h].call.kind \in K /\ page'[p].jobs[i].call.kind \in K)
    <3>1. h + 1 < i + 1
      BY <2>2
    <3>2. QED
      BY <2>1, <3>1 DEF Alone
  <2>3. QED
    BY <2>1, <2>2 DEF Alone
<1>5. QED
  BY <1>1, <1>2, <1>3, <1>4

\* A call of another kind, or the only one.
LEMMA AloneAdds ==
  ASSUME TypeOK, NEW p \in Colors, NEW K, Alone(p, K), NEW c,
         \/ Adds(p, c)
         \/ page[p].jobs # <<>> /\ RunsOn(p, c),
         c.kind \in K => /\ Without(p, K)
                         /\ \A i \in 1 .. Len(page'[p].jobs) : page'[p].jobs[i].call.kind \notin K
  PROVE  Alone(p, K)'
<1>1. page'[p].calls = page[p].calls \cup {c}
  BY DEF Adds, RunsOn
<1>2. \A c1, c2 \in page'[p].calls : c1.kind \in K /\ c2.kind \in K => c1 = c2
  BY <1>1 DEF Alone, Without
<1>3. CASE Adds(p, c)
  BY <1>1, <1>2, <1>3 DEF Alone, Adds
<1>4. CASE page[p].jobs # <<>> /\ RunsOn(p, c)
  <2> DEFINE n == Len(page[p].jobs)
  <2>1. /\ n \in Nat /\ Len(page'[p].jobs) = n - 1
        /\ \A i \in 1 .. n - 1 : i + 1 \in 1 .. n /\ page'[p].jobs[i] = page[p].jobs[i + 1]
    BY <1>4, JobShift DEF RunsOn
  <2>2. ASSUME NEW h \in 1 .. n - 1, NEW i \in 1 .. n - 1, h < i
        PROVE  ~(page'[p].jobs[h].call.kind \in K /\ page'[p].jobs[i].call.kind \in K)
    <3>1. h + 1 < i + 1
      BY <2>2
    <3>2. QED
      BY <2>1, <3>1 DEF Alone
  <2>3. \A d \in page[p].calls, i \in 1 .. n - 1 :
          ~(d.kind \in K /\ page'[p].jobs[i].call.kind \in K)
    BY <2>1 DEF Alone
  <2>4. QED
    BY <1>1, <1>2, <2>1, <2>2, <2>3 DEF Alone
<1>5. QED
  BY <1>3, <1>4

\* The code behind a call that is alone leaves none of its kind.
LEMMA AloneHead ==
  ASSUME TypeOK, NEW p \in Colors, NEW K, Alone(p, K), page[p].jobs # <<>>,
         Head(page[p].jobs).call.kind \in K, page'[p].jobs = Tail(page[p].jobs)
  PROVE  /\ Without(p, K)
         /\ \A i \in 1 .. Len(page'[p].jobs) : page'[p].jobs[i].call.kind \notin K
<1> DEFINE n == Len(page[p].jobs)
<1>1. /\ n \in Nat /\ n >= 1 /\ Head(page[p].jobs) = page[p].jobs[1] /\ Len(page'[p].jobs) = n - 1
      /\ \A i \in 1 .. n - 1 : i + 1 \in 2 .. n /\ page'[p].jobs[i] = page[p].jobs[i + 1]
  BY JobShift
<1>2. 1 \in 1 .. n /\ \A i \in 2 .. n : i \in 1 .. n /\ 1 < i
  BY <1>1
<1>3. Without(p, K)
  BY <1>1, <1>2 DEF Alone, Without
<1>4. ASSUME NEW i \in 1 .. n - 1
      PROVE  page'[p].jobs[i].call.kind \notin K
  <2>1. i + 1 \in 1 .. n /\ 1 < i + 1 /\ page'[p].jobs[i] = page[p].jobs[i + 1]
    BY <1>1, <1>2
  <2>2. QED
    BY <1>1, <1>2, <2>1 DEF Alone
<1>5. QED
  BY <1>1, <1>3, <1>4

\* How the steps of a page change calls and jobs.
LEMMA WorkFacts ==
  ASSUME TypeOK, NEW p \in Colors, Own(p)
  PROVE  \/ /\ page'[p].where = page[p].where
            /\ \/ SameWork(p)
               \/ \E c \in page[p].calls : Sent(p, c)
               \/ \E c \in page[p].calls : \E j : Settles(p, c, j)
               \/ page[p].jobs # <<>> /\ Runs(p)
               \/ \E c : Adds(p, c) /\ c.kind \in {"relogin", "move"}
               \/ /\ page[p].jobs # <<>>
                  /\ \E c : RunsOn(p, c) /\ c.kind \in {"rejoin", "repassword"}
         \/ /\ page[p].jobs # <<>> /\ Head(page[p].jobs).call.kind \in {"login", "password"}
            /\ page'[p].where = "joining" /\ \E c : RunsOn(p, c) /\ c.kind = "join"
         \/ /\ page[p].jobs # <<>> /\ Head(page[p].jobs).call.kind = "login"
            /\ page'[p].where = page[p].where /\ \E c : RunsOn(p, c) /\ c.kind = "password"
         \/ /\ page[p].jobs # <<>> /\ Head(page[p].jobs).call.kind = "join"
            /\ page'[p].where = "playing" /\ Runs(p)
         \/ page'[p].calls = {} /\ page'[p].jobs = <<>>
<1>1. CASE Handle(p)
  <2> DEFINE m == Head(inbox[p])
  <2>1. m \in Messages /\
        \/ Resolves(p, m) \/ Misses(p, m) \/ Gropes(p, m) \/ Follows(p, m) \/ Stops(p, m)
        \/ Waits(p, m) \/ Returns(p, m)
    BY <1>1, HandleFacts
  <2> HIDE DEF m
  <2>2. CASE Resolves(p, m)
    <3>1. PICK c \in page[p].calls :
            /\ SameView(p) /\ page'[p].calls = page[p].calls \ {c}
            /\ page'[p].jobs = Append(page[p].jobs, Resulting(c, m))
      BY <2>2 DEF Resolves
    <3>2. c \in PageCalls /\ m.ok \in BOOLEAN /\ m.mine \in BOOLEAN /\ m.at \in Nat
      BY <2>1, PageFields DEF TypeOK, Messages
    <3>3. Resulting(c, m) \in Jobs /\ Resulting(c, m).call = c
      BY <3>2 DEF Resulting, Jobs
    <3>4. Settles(p, c, Resulting(c, m))
      BY <3>1, <3>3 DEF Settles
    <3>5. QED
      BY <3>1, <3>4 DEF SameView
  <2>3. CASE Misses(p, m) \/ Gropes(p, m) \/ Stops(p, m) \/ Waits(p, m) \/ Follows(p, m)
    <3>1. SameCalls(p) /\ page'[p].jobs = page[p].jobs /\ page'[p].where = page[p].where
      BY <2>3 DEF Misses, Gropes, Stops, Waits, Follows, Moved, SameView
    <3>2. QED
      BY <3>1 DEF SameCalls, SameWork
  <2>4. CASE Returns(p, m)
    <3>1. PICK c : Called(p, c, "relogin", None)
      BY <2>4 DEF Returns
    <3>2. Adds(p, c) /\ c.kind = "relogin" /\ page'[p].where = page[p].where
      BY <2>4, <3>1 DEF Returns, Called, Adds
    <3>3. QED
      BY <3>2
  <2>5. QED
    BY <2>1, <2>2, <2>3, <2>4
<1>2. CASE Continue(p)
  <2> DEFINE j == Head(page[p].jobs)
  <2>1. /\ page[p].jobs # <<>>
        /\ \/ Quits(p, j)
           \/ /\ page'[p].jobs = Tail(page[p].jobs)
              /\ \/ Enters(p, j) \/ SetsUp(p, j) \/ Retries(p, j) \/ Rejoins(p, j)
                 \/ Idles(p, j) \/ Learns(p, j) \/ Plays(p, j)
    BY <1>2, ContinueFacts
  <2> HIDE DEF j
  <2>2. CASE Quits(p, j)
    <3>1. LeftPage(p).calls = {} /\ LeftPage(p).jobs = <<>>
      BY DEF LeftPage, FreshPage
    <3>2. QED
      BY <2>2, <3>1 DEF Quits
  <2>3. CASE page'[p].jobs = Tail(page[p].jobs) /\ Enters(p, j)
    <3>1. PICK c : Called(p, c, "join", None)
      BY <2>3 DEF Enters
    <3>2. /\ RunsOn(p, c) /\ c.kind = "join" /\ page'[p].where = "joining"
          /\ j.call.kind \in {"login", "password"}
      BY <2>3, <3>1 DEF Enters, Called, RunsOn
    <3>3. QED
      BY <2>1, <3>2 DEF j
  <2>4. CASE page'[p].jobs = Tail(page[p].jobs) /\ SetsUp(p, j)
    BY <2>1, <2>4 DEF SetsUp, SameCalls, Runs, j
  <2>5. CASE page'[p].jobs = Tail(page[p].jobs) /\ Rejoins(p, j)
    <3>1. PICK c : Called(p, c, "rejoin", None)
      BY <2>5 DEF Rejoins
    <3>2. RunsOn(p, c) /\ c.kind = "rejoin" /\ page'[p].where = page[p].where
      BY <2>5, <3>1 DEF Rejoins, Called, RunsOn, SameView
    <3>3. QED
      BY <2>1, <3>2
  <2>6. CASE page'[p].jobs = Tail(page[p].jobs) /\ (Idles(p, j) \/ Learns(p, j) \/ Plays(p, j))
    <3>1. SameCalls(p) /\ page'[p].where = page[p].where
      BY <2>6 DEF Idles, Learns, Plays, Moved, SameView
    <3>2. QED
      BY <2>1, <2>6, <3>1 DEF SameCalls, Runs
  <2>7. CASE page'[p].jobs = Tail(page[p].jobs) /\ Retries(p, j)
    <3>1. PICK c : \/ Called(p, c, "password", None) /\ j.call.kind = "login"
                   \/ Called(p, c, "repassword", None)
      BY <2>7 DEF Retries
    <3>2. /\ RunsOn(p, c) /\ page'[p].where = page[p].where
          /\ c.kind = "repassword" \/ (c.kind = "password" /\ j.call.kind = "login")
      BY <2>7, <3>1 DEF Retries, Called, RunsOn, SameView
    <3>3. QED
      BY <2>1, <3>2 DEF j
  <2>8. QED
    BY <2>1, <2>2, <2>3, <2>4, <2>5, <2>6, <2>7
<1>3. CASE Click(p)
  <2>1. PICK m, c : Called(p, c, "move", m) /\ SameView(p) /\ page'[p].jobs = page[p].jobs
    BY <1>3, ClickFacts
  <2>2. Adds(p, c) /\ c.kind = "move" /\ page'[p].where = page[p].where
    BY <2>1 DEF Called, Adds, SameView
  <2>3. QED
    BY <2>2
<1>4. CASE Poll(p) \/ Repick(p) \/ Resign(p) \/ ResignCancelled(p) \/ ClickOffline(p)
  <2>1. SameView(p) /\ SameCalls(p) /\ page'[p].jobs = page[p].jobs
    BY <1>4, SmallFacts, ClickOfflineFacts DEF Still, Dabbles
  <2>2. QED
    BY <2>1 DEF SameView, SameCalls, SameWork
<1>5. CASE Lose(p) \/ Reconnect(p)
  BY <1>5, SmallFacts DEF SameWork
<1>6. ASSUME NEW c \in page[p].calls, SendReturns(p, c)
      PROVE  Sent(p, c) /\ page'[p].where = page[p].where
  BY <1>6, SmallFacts DEF Sent, SameView
<1>7. ASSUME NEW c \in page[p].calls, TimeOut(p, c)
      PROVE  page'[p].where = page[p].where /\ \E j : Settles(p, c, j)
  <2> DEFINE j == [call |-> c, ok |-> FALSE, mine |-> TRUE, at |-> 0]
  <2>1. c \in PageCalls
    BY PageFields DEF TypeOK
  <2>2. j \in Jobs /\ j.call = c
    BY <2>1 DEF Jobs
  <2>3. /\ SameView(p) /\ page'[p].calls = page[p].calls \ {c} /\ page'[p].jobs = <<j>>
        /\ page[p].jobs = <<>>
    BY <1>7, TimeOutFacts
  <2> HIDE DEF j
  <2>4. page'[p].jobs = Append(page[p].jobs, j)
    BY <2>3
  <2>5. QED
    BY <2>2, <2>3, <2>4 DEF SameView, Settles
<1>8. QED
  BY <1>1, <1>2, <1>3, <1>4, <1>5, <1>6, <1>7 DEF Own

(***************************************************************************)
(* A page logs in once and joins once, and is set up when it has joined.   *)
(***************************************************************************)
Setting == {"login", "password", "join"}
Stage(where, kind) == /\ kind \in {"login", "password"} => where = "loading"
                      /\ kind = "join" => where = "joining"
Staged(p) == /\ \A c \in page[p].calls : Stage(page[p].where, c.kind)
             /\ \A i \in 1 .. Len(page[p].jobs) : Stage(page[p].where, page[p].jobs[i].call.kind)
LifeOK(p) == Staged(p) /\ Alone(p, Setting)

LEMMA LifeOwn ==
  ASSUME TypeOK, NEW p \in Colors, LifeOK(p), Own(p)
  PROVE  LifeOK(p)'
<1>1. Staged(p) /\ Alone(p, Setting)
  BY DEF LifeOK
<1>2. CASE page'[p].calls = {} /\ page'[p].jobs = <<>>
  BY <1>2 DEF LifeOK, Staged, Alone
<1>3. CASE /\ page'[p].where = page[p].where
           /\ \/ SameWork(p)
              \/ \E c \in page[p].calls : Sent(p, c)
              \/ \E c \in page[p].calls : \E j : Settles(p, c, j)
              \/ page[p].jobs # <<>> /\ Runs(p)
  <2>1. Alone(p, Setting)'
    BY <1>1, <1>3, AloneKept
  <2> SUFFICES Staged(p)'
    BY <2>1 DEF LifeOK
  <2>2. page'[p].where = page[p].where
    BY <1>3
  <2>3. CASE SameWork(p)
    BY <1>1, <2>2, <2>3 DEF SameWork, Staged
  <2>4. ASSUME NEW c \in page[p].calls, Sent(p, c)
        PROVE  Staged(p)'
    <3> DEFINE e == [c EXCEPT !.sent = TRUE]
    <3>1. e.kind = c.kind
      BY PageFields DEF TypeOK, PageCalls
    <3>2. page'[p].calls = (page[p].calls \ {c}) \cup {e} /\ page'[p].jobs = page[p].jobs
      BY <2>4 DEF Sent
    <3> HIDE DEF e
    <3>3. QED
      BY <1>1, <2>2, <3>1, <3>2 DEF Staged
  <2>5. ASSUME NEW c \in page[p].calls, NEW j, Settles(p, c, j)
        PROVE  Staged(p)'
    <3> DEFINE n == Len(page[p].jobs)
    <3>1. /\ page'[p].calls = page[p].calls \ {c} /\ j.call = c /\ n \in Nat
          /\ Len(page'[p].jobs) = n + 1 /\ page'[p].jobs[n + 1] = j
          /\ \A i \in 1 .. n : page'[p].jobs[i] = page[p].jobs[i]
      BY <2>5, JobShift DEF Settles
    <3>2. \A i \in 1 .. n + 1 : i \in 1 .. n \/ i = n + 1
      BY <3>1
    <3>3. QED
      BY <1>1, <2>2, <3>1, <3>2 DEF Staged
  <2>6. CASE page[p].jobs # <<>> /\ Runs(p)
    <3>1. /\ page'[p].calls = page[p].calls
          /\ \A i \in 1 .. Len(page'[p].jobs) :
                i + 1 \in 2 .. Len(page[p].jobs) /\ page'[p].jobs[i] = page[p].jobs[i + 1]
      BY <2>6, JobShift DEF Runs
    <3>2. \A i \in 2 .. Len(page[p].jobs) : i \in 1 .. Len(page[p].jobs)
      BY JobShift
    <3>3. QED
      BY <1>1, <2>2, <3>1, <3>2 DEF Staged
  <2>7. QED
    BY <1>3, <2>3, <2>4, <2>5, <2>6
<1>4. ASSUME page'[p].where = page[p].where, NEW c,
             c.kind \in {"relogin", "repassword", "rejoin", "move"},
             Adds(p, c) \/ (page[p].jobs # <<>> /\ RunsOn(p, c))
      PROVE  LifeOK(p)'
  <2>1. Alone(p, Setting)'
    BY <1>1, <1>4, AloneAdds DEF Setting
  <2> SUFFICES Staged(p)'
    BY <2>1 DEF LifeOK
  <2>2. page'[p].where = page[p].where
    BY <1>4
  <2>3. \A where : Stage(where, c.kind)
    BY <1>4 DEF Stage
  <2>4. CASE Adds(p, c)
    BY <1>1, <2>2, <2>3, <2>4 DEF Adds, Staged
  <2>5. CASE page[p].jobs # <<>> /\ RunsOn(p, c)
    <3>1. /\ page'[p].calls = page[p].calls \cup {c}
          /\ \A i \in 1 .. Len(page'[p].jobs) :
                i + 1 \in 2 .. Len(page[p].jobs) /\ page'[p].jobs[i] = page[p].jobs[i + 1]
      BY <2>5, JobShift DEF RunsOn
    <3>2. \A i \in 2 .. Len(page[p].jobs) : i \in 1 .. Len(page[p].jobs)
      BY JobShift
    <3>3. QED
      BY <1>1, <2>2, <2>3, <3>1, <3>2 DEF Staged
  <2>6. QED
    BY <1>4, <2>4, <2>5
<1>5. ASSUME page[p].jobs # <<>>, Head(page[p].jobs).call.kind \in Setting,
             page'[p].jobs = Tail(page[p].jobs)
      PROVE  /\ \A c \in page[p].calls : c.kind \notin Setting
             /\ \A i \in 1 .. Len(page'[p].jobs) : page'[p].jobs[i].call.kind \notin Setting
  BY <1>1, <1>5, AloneHead DEF Without
<1>6. CASE /\ page[p].jobs # <<>> /\ Head(page[p].jobs).call.kind \in {"login", "password"}
           /\ \E c : /\ RunsOn(p, c)
                      /\ \/ page'[p].where = "joining" /\ c.kind = "join"
                         \/ page'[p].where = "loading" /\ c.kind = "password"
  <2>1. PICK c : /\ RunsOn(p, c)
                 /\ \/ page'[p].where = "joining" /\ c.kind = "join"
                    \/ page'[p].where = "loading" /\ c.kind = "password"
    BY <1>6
  <2>2. /\ \A d \in page[p].calls : d.kind \notin Setting
        /\ \A i \in 1 .. Len(page'[p].jobs) : page'[p].jobs[i].call.kind \notin Setting
    BY <1>5, <1>6, <2>1 DEF RunsOn, Setting
  <2>3. Alone(p, Setting)'
    BY <1>1, <1>6, <2>1, <2>2, AloneAdds DEF Without
  <2>4. page'[p].calls = page[p].calls \cup {c}
    BY <2>1 DEF RunsOn
  <2>5. Staged(p)'
    BY <1>6, <2>1, <2>2, <2>4 DEF Staged, Stage, Setting
  <2>6. QED
    BY <2>3, <2>5 DEF LifeOK
<1>7. CASE /\ page[p].jobs # <<>> /\ Head(page[p].jobs).call.kind = "join" /\ Runs(p)
  <2>1. /\ \A d \in page[p].calls : d.kind \notin Setting
        /\ \A i \in 1 .. Len(page'[p].jobs) : page'[p].jobs[i].call.kind \notin Setting
    BY <1>5, <1>7 DEF Runs, Setting
  <2>2. Alone(p, Setting)'
    BY <1>1, <1>7, AloneKept
  <2>3. Staged(p)'
    BY <1>7, <2>1 DEF Staged, Stage, Setting, Runs
  <2>4. QED
    BY <2>2, <2>3 DEF LifeOK
<1>8. ASSUME page[p].jobs # <<>>, Head(page[p].jobs).call.kind = "login"
      PROVE  page[p].where = "loading"
  BY <1>1, <1>8, JobShift DEF Staged, Stage
<1>9. QED
  BY <1>2, <1>3, <1>4, <1>6, <1>7, <1>8, WorkFacts

(***************************************************************************)
(* A page that has not gone astray follows the game.                       *)
(***************************************************************************)
In(q) == {q[i] : i \in 1 .. Len(q)}

Shown(p) == Len(page[p].board)
OwedAt(p, k) ==
  \E i \in 1 .. Len(page[p].jobs) : Owed(page[p].jobs[i]) /\ page[p].jobs[i].at = k
SentAt(p, k) == \E m \in In(inbox[p]) : m.move # None /\ m.at = k

\* No move of the board was made without the server; before the board is set up it is empty and
\* no move is asked for.
Placed(p) ==
  /\ page[p].where \in {"loading", "joining", "playing"} /\ page[p].local = 0
  /\ page[p].where # "playing" =>
       page[p].board = <<>> /\ Without(p, {"move"}) /\ WithoutJob(p, {"move"})
\* It shows the first moves of the game; the others are on their way; the one that is owed is
\* the next one.
Prefix(p) == \A k \in 1 .. Shown(p) : page[p].board[k] = log[k]
Covered(p) == \A k \in Shown(p) + 1 .. Len(log) : OwedAt(p, k) \/ SentAt(p, k)
Due(p) == \A i \in 1 .. Len(page[p].jobs) :
            Owed(page[p].jobs[i]) => page[p].jobs[i].at = Shown(p) + 1
\* The colour whose pieces can be picked, whose turn it is and whether the game goes on.
Turned(p) ==
  page[p].turn = IF Shown(p) = 0 THEN "red" ELSE Other(page[p].board[Shown(p)].color)
Knows(p) == page[p].online => page[p].myTurn = (Mover(Shown(p)) = p)
Warned(p) == over /\ page[p].online => \E m \in In(inbox[p]) : m.kind = "game_end"
\* What is asked of the server is the move of the piece that is held, and its turn has come.
Intends(p) ==
  /\ \A c \in page[p].calls : c.kind = "move" =>
        Mover(Shown(p)) = p /\ page[p].held = c.move /\ c.move.color = page[p].turn
  /\ \A i \in 1 .. Len(page[p].jobs) : page[p].jobs[i].call.kind = "move" =>
        /\ Mover(Shown(p)) = p /\ page[p].held = page[p].jobs[i].call.move
        /\ page[p].held.color = page[p].turn /\ (~page[p].jobs[i].ok => page[p].jobs[i].mine)
AsksNext(p) ==
  \A r \in In(requests[p]) : r.kind = "move" =>
     Shown(p) = Len(log) /\ \E c \in page[p].calls : c.kind = "move" /\ c.seq = r.seq
Hears(p) ==
  \A m \in In(inbox[p]) : m.kind = "answer" =>
     /\ m.move # None => \E c \in page[p].calls : c.kind = "move" /\ c.seq = m.seq
     /\ ~m.ok => \A c \in page[p].calls : c.kind = "move" /\ c.seq = m.seq => m.mine
\* Whose turn it is said to be when the code runs is whose turn it then is.
Rejoined(p) ==
  \A i \in 1 .. Len(page[p].jobs) :
     page[p].jobs[i].call.kind \in {"join", "rejoin"} /\ page[p].jobs[i].ok =>
       page[p].jobs[i].at = IF \E h \in 1 .. i - 1 : Owed(page[p].jobs[h])
                            THEN Shown(p) + 1 ELSE Shown(p)
FollowOK(p) ==
  /\ Placed(p) /\ Prefix(p) /\ Covered(p) /\ Due(p) /\ Turned(p) /\ Knows(p) /\ Warned(p)
  /\ Alone(p, {"move"}) /\ Intends(p) /\ AsksNext(p) /\ Hears(p) /\ Rejoined(p)

LEMMA InFacts ==
  ASSUME NEW S, NEW q \in Seq(S)
  PROVE  /\ \A x \in S : In(Append(q, x)) = In(q) \cup {x}
         /\ q # <<>> => In(q) = {Head(q)} \cup In(Tail(q))
         /\ \A n \in 0 .. Len(q) :
              /\ In(SubSeq(q, 1, n)) \subseteq In(q)
              /\ \A m \in In(q) :
                   m \in In(SubSeq(q, 1, n)) \/ \E i \in n + 1 .. Len(q) : m = q[i]
         /\ In(q) \subseteq S
<1> DEFINE k == Len(q)
<1>1. k \in Nat
  OBVIOUS
<1>2. ASSUME NEW x \in S PROVE In(Append(q, x)) = In(q) \cup {x}
  <2> DEFINE t == Append(q, x)
  <2>1. Len(t) = k + 1 /\ t[k + 1] = x /\ \A i \in 1 .. k : t[i] = q[i]
    OBVIOUS
  <2>2. k + 1 \in 1 .. k + 1 /\ \A i \in 1 .. k + 1 : i \in 1 .. k \/ i = k + 1
    BY <1>1
  <2>3. \A i \in 1 .. k : i \in 1 .. k + 1
    BY <1>1
  <2> HIDE DEF t
  <2>4. QED
    BY <2>1, <2>2, <2>3 DEF In, t
<1>3. ASSUME q # <<>> PROVE In(q) = {Head(q)} \cup In(Tail(q))
  <2> DEFINE t == Tail(q)
             h == Head(q)
  <2>1. Len(t) = k - 1 /\ h = q[1] /\ k >= 1 /\ \A i \in 1 .. k - 1 : t[i] = q[i + 1]
    BY <1>3
  <2>2. 1 \in 1 .. k /\ \A i \in 1 .. k - 1 : i + 1 \in 1 .. k
    BY <1>1, <2>1
  <2>3. \A i \in 1 .. k : i = 1 \/ (i - 1 \in 1 .. k - 1 /\ (i - 1) + 1 = i)
    BY <1>1
  <2> HIDE DEF t, h
  <2>4. \A i \in 1 .. k : q[i] = h \/ q[i] \in In(t)
    <3>1. SUFFICES ASSUME NEW i \in 1 .. k, i # 1 PROVE q[i] \in In(t)
      BY <2>1
    <3>2. i - 1 \in 1 .. Len(t) /\ t[i - 1] = q[(i - 1) + 1] /\ (i - 1) + 1 = i
      BY <2>1, <2>3, <3>1
    <3>3. QED
      BY <3>2 DEF In
  <2>5. In(q) \subseteq {h} \cup In(t)
    BY <2>4 DEF In
  <2>6. {h} \cup In(t) \subseteq In(q)
    BY <2>1, <2>2 DEF In
  <2>7. QED
    BY <2>5, <2>6 DEF t, h
<1>4. ASSUME NEW n \in 0 .. Len(q)
      PROVE  /\ In(SubSeq(q, 1, n)) \subseteq In(q)
             /\ \A m \in In(q) :
                  m \in In(SubSeq(q, 1, n)) \/ \E i \in n + 1 .. Len(q) : m = q[i]
  <2> DEFINE t == SubSeq(q, 1, n)
  <2>1. Len(t) = n /\ \A i \in 1 .. n : t[i] = q[i]
    BY <1>1
  <2>2. /\ \A i \in 1 .. n : i \in 1 .. k
        /\ \A i \in 1 .. k : i \in 1 .. n \/ i \in n + 1 .. k
    BY <1>1
  <2> HIDE DEF t
  <2>3. QED
    BY <2>1, <2>2 DEF In, t
<1>5. In(q) \subseteq S
  BY DEF In
<1>6. QED
  BY <1>2, <1>3, <1>4, <1>5

\* The board stays, what is on its way to it too, and no move is asked for.
LEMMA FollowStill ==
  ASSUME TypeOK, NEW p \in Colors, FollowOK(p), log' = log, over' = over,
         page'[p].board = page[p].board, page'[p].turn = page[p].turn,
         Placed(p)', Knows(p)', Alone(p, {"move"})',
         \/ page'[p].held = page[p].held
         \/ Without(p, {"move"}) /\ WithoutJob(p, {"move"}),
         \/ page'[p].jobs = page[p].jobs
         \/ /\ page[p].jobs # <<>> /\ ~Owed(Head(page[p].jobs))
            /\ page'[p].jobs = Tail(page[p].jobs),
         \A d \in page'[p].calls : d.kind = "move" =>
            \E c \in page[p].calls : c.kind = "move" /\ c.seq = d.seq /\ c.move = d.move,
         \A c \in page[p].calls : c.kind = "move" =>
            \E d \in page'[p].calls : d.kind = "move" /\ d.seq = c.seq,
         \A r \in In(requests'[p]) : r.kind = "move" => r \in In(requests[p]),
         \A m \in In(inbox'[p]) : m.kind = "answer" => m \in In(inbox[p]),
         \A m \in In(inbox[p]) : m.move # None => m \in In(inbox'[p]),
         page'[p].online => /\ page[p].online
                            /\ \A m \in In(inbox[p]) : m.kind = "game_end" => m \in In(inbox'[p])
  PROVE  FollowOK(p)'
<1>1. Shown(p)' = Shown(p) /\ Shown(p) \in Nat /\ Len(log) \in Nat
  BY LevelType DEF Shown
<1>2. Prefix(p)' /\ Turned(p)'
  BY <1>1 DEF FollowOK, Prefix, Turned
<1>3. PICK k \in {0, 1} :
        /\ \A i \in 1 .. Len(page'[p].jobs) :
              i + k \in 1 .. Len(page[p].jobs) /\ page'[p].jobs[i] = page[p].jobs[i + k]
        /\ \A i \in 1 .. Len(page[p].jobs) :
              \/ i - k \in 1 .. Len(page'[p].jobs) /\ page'[p].jobs[i - k] = page[p].jobs[i]
              \/ i = 1 /\ k = 1 /\ ~Owed(page[p].jobs[i])
  <2> DEFINE n == Len(page[p].jobs)
  <2>1. CASE page'[p].jobs = page[p].jobs
    <3>1. \A i \in 1 .. n : i + 0 = i /\ i - 0 = i
      BY JobShift
    <3>2. QED
      BY <2>1, <3>1
  <2>2. CASE /\ page[p].jobs # <<>> /\ ~Owed(Head(page[p].jobs))
             /\ page'[p].jobs = Tail(page[p].jobs)
    <3>1. /\ n \in Nat /\ n >= 1 /\ Len(page'[p].jobs) = n - 1 /\ ~Owed(page[p].jobs[1])
          /\ \A i \in 1 .. n - 1 : i + 1 \in 2 .. n /\ page'[p].jobs[i] = page[p].jobs[i + 1]
      BY <2>2, JobShift
    <3>2. \A i \in 1 .. n : i = 1 \/ (i - 1 \in 1 .. n - 1 /\ (i - 1) + 1 = i)
      BY <3>1
    <3>3. \A i \in 2 .. n : i \in 1 .. n
      BY <3>1
    <3>4. \A i \in 1 .. n : i = 1 \/ (i - 1 \in 1 .. n - 1 /\ page'[p].jobs[i - 1] = page[p].jobs[i])
      BY <3>1, <3>2
    <3>5. QED
      BY <3>1, <3>3, <3>4
  <2>3. QED
    BY <2>1, <2>2
<1>4. Covered(p)'
  <2>1. ASSUME NEW l, OwedAt(p, l)
        PROVE  OwedAt(p, l)'
    <3>1. PICK i \in 1 .. Len(page[p].jobs) : Owed(page[p].jobs[i]) /\ page[p].jobs[i].at = l
      BY <2>1 DEF OwedAt
    <3>2. i - k \in 1 .. Len(page'[p].jobs) /\ page'[p].jobs[i - k] = page[p].jobs[i]
      BY <1>3, <3>1
    <3>3. QED
      BY <3>1, <3>2 DEF OwedAt, Owed
  <2>2. \A l : SentAt(p, l) => SentAt(p, l)'
    BY DEF SentAt
  <2>3. QED
    BY <1>1, <2>1, <2>2 DEF FollowOK, Covered
<1>5. Due(p)'
  BY <1>1, <1>3 DEF FollowOK, Due, Owed
<1>6. Warned(p)'
  BY DEF FollowOK, Warned
<1>7. Intends(p)'
  <2>1. ASSUME NEW d \in page'[p].calls, d.kind = "move"
        PROVE  Mover(Shown(p)) = p /\ page'[p].held = d.move /\ d.move.color = page'[p].turn
    <3>1. PICK c \in page[p].calls : c.kind = "move" /\ c.move = d.move
      BY <2>1
    <3>2. page'[p].held = page[p].held
      BY <3>1 DEF Without
    <3>3. QED
      BY <3>1, <3>2 DEF FollowOK, Intends
  <2>2. ASSUME NEW i \in 1 .. Len(page'[p].jobs), page'[p].jobs[i].call.kind = "move"
        PROVE  /\ Mover(Shown(p)) = p /\ page'[p].held = page'[p].jobs[i].call.move
               /\ page'[p].held.color = page'[p].turn
               /\ ~page'[p].jobs[i].ok => page'[p].jobs[i].mine
    <3>1. i + k \in 1 .. Len(page[p].jobs) /\ page'[p].jobs[i] = page[p].jobs[i + k]
      BY <1>3
    <3>2. page'[p].held = page[p].held
      BY <2>2, <3>1 DEF WithoutJob
    <3>3. QED
      BY <2>2, <3>1, <3>2 DEF FollowOK, Intends
  <2>3. QED
    BY <1>1, <2>1, <2>2 DEF Intends
<1>8. AsksNext(p)'
  <2>1. SUFFICES ASSUME NEW r \in In(requests'[p]), r.kind = "move"
                 PROVE  /\ Shown(p) = Len(log)
                        /\ \E d \in page'[p].calls : d.kind = "move" /\ d.seq = r.seq
    BY <1>1 DEF AsksNext
  <2>2. Shown(p) = Len(log) /\ \E c \in page[p].calls : c.kind = "move" /\ c.seq = r.seq
    BY <2>1 DEF FollowOK, AsksNext
  <2>3. QED
    BY <2>2
<1>9. Hears(p)'
  <2>1. SUFFICES ASSUME NEW m \in In(inbox'[p]), m.kind = "answer"
                 PROVE  /\ m.move # None =>
                             \E d \in page'[p].calls : d.kind = "move" /\ d.seq = m.seq
                        /\ ~m.ok =>
                             \A d \in page'[p].calls : d.kind = "move" /\ d.seq = m.seq => m.mine
    BY DEF Hears
  <2>2. m \in In(inbox[p])
    BY <2>1
  <2>3. QED
    BY <2>1, <2>2 DEF FollowOK, Hears
<1>10. Rejoined(p)'
  <2>1. SUFFICES ASSUME NEW i \in 1 .. Len(page'[p].jobs),
                        page'[p].jobs[i].call.kind \in {"join", "rejoin"}, page'[p].jobs[i].ok
                 PROVE  page'[p].jobs[i].at = IF \E h \in 1 .. i - 1 : Owed(page'[p].jobs[h])
                                              THEN Shown(p) + 1 ELSE Shown(p)
    BY <1>1 DEF Rejoined, Owed
  <2>2. i + k \in 1 .. Len(page[p].jobs) /\ page'[p].jobs[i] = page[p].jobs[i + k]
    BY <1>3
  <2>3. page[p].jobs[i + k].at = IF \E h \in 1 .. i + k - 1 : Owed(page[p].jobs[h])
                                 THEN Shown(p) + 1 ELSE Shown(p)
    BY <2>1, <2>2 DEF FollowOK, Rejoined
  <2>4. (\E h \in 1 .. i + k - 1 : Owed(page[p].jobs[h]))
          <=> \E h \in 1 .. i - 1 : Owed(page'[p].jobs[h])
    <3>1. ASSUME NEW h \in 1 .. i + k - 1, Owed(page[p].jobs[h])
          PROVE  \E g \in 1 .. i - 1 : Owed(page'[p].jobs[g])
      <4>1. h \in 1 .. Len(page[p].jobs)
        BY <2>2, JobShift
      <4>2. h - k \in 1 .. Len(page'[p].jobs) /\ page'[p].jobs[h - k] = page[p].jobs[h]
        BY <1>3, <3>1, <4>1
      <4>3. h - k \in 1 .. i - 1
        BY <4>2
      <4>4. QED
        BY <3>1, <4>2, <4>3
    <3>2. ASSUME NEW h \in 1 .. i - 1, Owed(page'[p].jobs[h])
          PROVE  \E g \in 1 .. i + k - 1 : Owed(page[p].jobs[g])
      <4>1. h \in 1 .. Len(page'[p].jobs)
        <5>1. Len(page'[p].jobs) \in Nat
          BY JobShift
        <5>2. QED
          BY <5>1
      <4>2. page'[p].jobs[h] = page[p].jobs[h + k] /\ h + k \in 1 .. i + k - 1
        BY <1>3, <4>1
      <4>3. QED
        BY <3>2, <4>2
    <3>3. QED
      BY <3>1, <3>2
  <2>5. QED
    BY <2>2, <2>3, <2>4
<1>11. QED
  BY <1>2, <1>4, <1>5, <1>6, <1>7, <1>8, <1>9, <1>10 DEF FollowOK

LEMMA LevelShown ==
  ASSUME TypeOK, NEW p \in Colors, FollowOK(p)
  PROVE  Level(p) = Shown(p) + CountOwed(page[p].jobs)
<1>1. page[p].local = 0 /\ Len(page[p].board) \in Nat
  BY LevelType DEF FollowOK, Placed
<1>2. Served(p) = Shown(p)
  BY <1>1 DEF Served, Shown
<1>3. QED
  BY <1>2, LevelIs

\* The first message that carries a move brings the next move, if none is owed; ...
LEMMA NextMove ==
  ASSUME TypeOK, NEW p \in Colors, QueueOK(p), FollowOK(p), inbox[p] # <<>>,
         Head(inbox[p]).move # None, \A i \in 1 .. Len(page[p].jobs) : ~Owed(page[p].jobs[i])
  PROVE  LET m == Head(inbox[p]) IN
         /\ m.at = Shown(p) + 1 /\ m.at =< Len(log) /\ log[m.at] = m.move
         /\ m.kind = "answer" <=> Mover(Shown(p)) = p
<1> DEFINE m == Head(inbox[p])
<1>1. 1 \in 1 .. Len(inbox[p]) /\ m = inbox[p][1]
  <2>1. inbox[p] \in Seq(Messages)
    BY DEF TypeOK
  <2>2. QED
    BY <2>1
<1>2. /\ m.at \in Nat /\ Shown(p) \in Nat /\ Len(log) \in Nat /\ Level(p) \in Nat
      /\ Level(p) = Shown(p) + CountOwed(page[p].jobs) /\ CountOwed(page[p].jobs) \in Nat
  BY <1>1, LevelType, LevelShown DEF Shown
<1> HIDE DEF m
<1>3. m.move # None /\ Timed(m) /\ Shown(p) =< Level(p)
  <2>1. Shown(p) =< Level(p)
    BY <1>2
  <2>2. QED
    BY <2>1 DEF m, Timed
<1>4. /\ Level(p) < m.at /\ m.at =< Len(log) /\ log[m.at] = m.move
      /\ m.kind = "answer" <=> Mover(m.at - 1) = p
  BY <1>1, <1>3 DEF QueueOK, Timely, Dated
<1>5. Shown(p) + 1 \in Shown(p) + 1 .. Len(log) /\ Shown(p) + 1 =< m.at
  <2>1. \A a, b, c, d \in Nat :
          a =< b /\ b < c /\ c =< d => a + 1 \in a + 1 .. d /\ a + 1 =< c
    OBVIOUS
  <2>2. QED
    BY <1>2, <1>3, <1>4, <2>1
<1>6. SentAt(p, Shown(p) + 1)
  BY <1>5 DEF FollowOK, Covered, OwedAt
<1>7. PICK i \in 1 .. Len(inbox[p]) : inbox[p][i].move # None /\ inbox[p][i].at = Shown(p) + 1
  BY <1>6 DEF SentAt, In
<1>8. m.at = Shown(p) + 1
  <2>1. CASE i = 1
    BY <1>1, <1>7, <2>1
  <2>2. CASE i # 1
    <3>1. 1 < i
      BY <2>2
    <3>2. m.at < inbox[p][i].at
      BY <1>1, <1>3, <1>7, <3>1 DEF QueueOK, Ordered, Before
    <3>3. m.at < Shown(p) + 1
      BY <1>7, <3>2
    <3>4. QED
      BY <1>2, <1>5, <3>3
  <2>3. QED
    BY <2>1, <2>2
<1>9. m.at - 1 = Shown(p)
  BY <1>2, <1>8
<1>10. QED
  BY <1>4, <1>8, <1>9 DEF m

\* ... and an answer without a move was given when the game had the moves before it.
LEMMA NextAnswer ==
  ASSUME TypeOK, NEW p \in Colors, QueueOK(p), FollowOK(p), inbox[p] # <<>>,
         Head(inbox[p]).kind = "answer", Head(inbox[p]).move = None
  PROVE  Head(inbox[p]).at = IF \E i \in 1 .. Len(page[p].jobs) : Owed(page[p].jobs[i])
                             THEN Shown(p) + 1 ELSE Shown(p)
<1> DEFINE m == Head(inbox[p])
           Some == \E i \in 1 .. Len(page[p].jobs) : Owed(page[p].jobs[i])
<1>1. 1 \in 1 .. Len(inbox[p]) /\ m = inbox[p][1]
  <2>1. inbox[p] \in Seq(Messages)
    BY DEF TypeOK
  <2>2. QED
    BY <2>1
<1>2. /\ m.at \in Nat /\ Shown(p) \in Nat /\ Len(log) \in Nat /\ Level(p) \in Nat
      /\ Level(p) = Shown(p) + CountOwed(page[p].jobs) /\ CountOwed(page[p].jobs) \in Nat
  BY <1>1, LevelType, LevelShown DEF Shown
<1>3. Some => CountOwed(page[p].jobs) >= 1
  <2>1. page[p].jobs \in Seq(Jobs)
    BY JobShift
  <2>2. IsFiniteSet(OwedIn(page[p].jobs)) /\ (Some => OwedIn(page[p].jobs) # {})
    BY <2>1, OwedFinite DEF OwedIn
  <2>3. Some => CountOwed(page[p].jobs) # 0
    BY <2>2, FS_EmptySet DEF CountOwed
  <2>4. QED
    BY <1>2, <2>3
<1> HIDE DEF m
<1>4. m.kind = "answer" /\ m.move = None /\ Timed(m)
  BY DEF m, Timed
<1>5. Level(p) =< m.at /\ m.at =< Len(log)
  BY <1>1, <1>4 DEF QueueOK, Timely, Dated
<1>6. ASSUME m.at >= Shown(p) + 1
      PROVE  Some /\ m.at = Shown(p) + 1
  <2>1. m.at \in Shown(p) + 1 .. Len(log)
    BY <1>2, <1>5, <1>6
  <2>2. ~SentAt(p, m.at)
    <3>1. SUFFICES ASSUME NEW i \in 1 .. Len(inbox[p]), inbox[p][i].move # None,
                          inbox[p][i].at = m.at
                   PROVE  FALSE
      BY DEF SentAt, In
    <3>2. i # 1
      BY <1>1, <1>4, <3>1
    <3>3. 1 < i
      BY <3>2
    <3>4. m.at < inbox[p][i].at
      BY <1>1, <1>4, <3>1, <3>3 DEF QueueOK, Ordered, Before
    <3>5. QED
      BY <1>2, <3>1, <3>4
  <2>3. OwedAt(p, m.at)
    BY <2>1, <2>2 DEF FollowOK, Covered
  <2>4. QED
    BY <2>3 DEF OwedAt, FollowOK, Due
<1> HIDE DEF Some
<1>7. Some => m.at = Shown(p) + 1
  BY <1>2, <1>3, <1>5, <1>6
<1>8. ~Some => m.at = Shown(p)
  BY <1>2, <1>5, <1>6
<1>9. QED
  BY <1>7, <1>8 DEF m, Some

\* An answer that has come, or that nobody waits for any more.
LEMMA FollowSettles ==
  ASSUME TypeOK, NEW p \in Colors, FollowOK(p), log' = log, over' = over,
         SameView(p), SameBoard(p), NEW c \in page[p].calls, NEW j, Settles(p, c, j),
         requests'[p] = requests[p],
         Owed(j) => j.at = Shown(p) + 1,
         c.kind \in {"join", "rejoin"} /\ j.ok =>
            j.at = IF \E i \in 1 .. Len(page[p].jobs) : Owed(page[p].jobs[i])
                   THEN Shown(p) + 1 ELSE Shown(p),
         c.kind = "move" /\ ~j.ok => j.mine,
         \A r \in In(requests[p]) : r.kind = "move" => r.seq # c.seq,
         \A m \in In(inbox'[p]) : m \in In(inbox[p]),
         \A m \in In(inbox'[p]) : m.kind = "answer" /\ m.move # None => m.seq # c.seq,
         \A m \in In(inbox[p]) : m.kind = "game_end" => m \in In(inbox'[p]),
         \A m \in In(inbox[p]) : m.move # None => m \in In(inbox'[p]) \/ (Owed(j) /\ j.at = m.at)
  PROVE  FollowOK(p)'
<1> DEFINE n == Len(page[p].jobs)
<1>1. Shown(p)' = Shown(p) /\ Shown(p) \in Nat /\ Len(log) \in Nat
  BY LevelType DEF Shown, SameBoard
<1>2. /\ page'[p].calls = page[p].calls \ {c} /\ j.call = c /\ n \in Nat
      /\ Len(page'[p].jobs) = n + 1 /\ page'[p].jobs[n + 1] = j
      /\ \A i \in 1 .. n : page'[p].jobs[i] = page[p].jobs[i]
  BY JobShift DEF Settles
<1>3. \A i \in 1 .. n + 1 : i \in 1 .. n \/ i = n + 1
  BY <1>2
<1>4. n + 1 \in 1 .. n + 1 /\ \A i \in 1 .. n : i \in 1 .. n + 1
  BY <1>2
<1>5. Prefix(p)' /\ Turned(p)' /\ Knows(p)'
  BY <1>1 DEF FollowOK, Prefix, Turned, Knows, SameBoard, SameView
<1>6. Placed(p)'
  <2>1. /\ page'[p].where = page[p].where /\ page'[p].board = page[p].board
        /\ page'[p].local = page[p].local
    BY DEF SameView, SameBoard
  <2>2. page[p].where # "playing" => Without(p, {"move"})' /\ WithoutJob(p, {"move"})'
    BY <1>2, <1>3 DEF FollowOK, Placed, Without, WithoutJob
  <2>3. QED
    BY <2>1, <2>2 DEF FollowOK, Placed
<1>7. Covered(p)'
  <2>1. ASSUME NEW l, OwedAt(p, l) PROVE OwedAt(p, l)'
    BY <1>2, <1>4, <2>1 DEF OwedAt, Owed
  <2>2. ASSUME NEW l, SentAt(p, l) PROVE SentAt(p, l)' \/ OwedAt(p, l)'
    <3>1. PICK m \in In(inbox[p]) : m.move # None /\ m.at = l
      BY <2>2 DEF SentAt
    <3>2. CASE m \in In(inbox'[p])
      BY <3>1, <3>2 DEF SentAt
    <3>3. CASE Owed(j) /\ j.at = l
      BY <1>2, <1>4, <3>3 DEF OwedAt, Owed
    <3>4. QED
      BY <3>1, <3>2, <3>3
  <2>3. QED
    BY <1>1, <2>1, <2>2 DEF FollowOK, Covered
<1>8. Due(p)'
  <2>1. \A i \in 1 .. n + 1 : Owed(page'[p].jobs[i]) => page'[p].jobs[i].at = Shown(p) + 1
    BY <1>2, <1>3 DEF FollowOK, Due
  <2>2. QED
    BY <1>1, <1>2, <2>1 DEF Due, Owed
<1>9. Warned(p)'
  BY DEF FollowOK, Warned, SameView
<1>10. Alone(p, {"move"})'
  BY AloneKept DEF FollowOK
<1>11. Intends(p)'
  <2>0. /\ page'[p].held = page[p].held /\ page'[p].turn = page[p].turn
        /\ \A i \in 1 .. n : page[p].jobs[i].call.kind = "move" =>
             /\ Mover(Shown(p)) = p /\ page[p].held = page[p].jobs[i].call.move
             /\ page[p].held.color = page[p].turn
             /\ ~page[p].jobs[i].ok => page[p].jobs[i].mine
    BY DEF FollowOK, Intends, SameBoard
  <2>1. ASSUME NEW i \in 1 .. n + 1, page'[p].jobs[i].call.kind = "move"
        PROVE  /\ Mover(Shown(p)) = p /\ page'[p].held = page'[p].jobs[i].call.move
               /\ page'[p].held.color = page'[p].turn
               /\ ~page'[p].jobs[i].ok => page'[p].jobs[i].mine
    <3>1. CASE i \in 1 .. n
      <4>1. page'[p].jobs[i] = page[p].jobs[i]
        BY <1>2, <3>1
      <4>2. QED
        BY <2>0, <2>1, <3>1, <4>1, Zenon
    <3>2. CASE i = n + 1
      <4>1. page'[p].jobs[i] = j /\ j.call = c
        BY <1>2, <3>2
      <4>2. c.kind = "move"
        BY <2>1, <4>1
      <4>3. Mover(Shown(p)) = p /\ page[p].held = c.move /\ c.move.color = page[p].turn
        BY <4>2 DEF FollowOK, Intends
      <4>4. ~j.ok => j.mine
        BY <4>2
      <4>5. QED
        BY <2>0, <4>1, <4>3, <4>4
    <3>3. QED
      BY <1>3, <3>1, <3>2
  <2>2. \A d \in page'[p].calls : d.kind = "move" =>
          Mover(Shown(p)) = p /\ page'[p].held = d.move /\ d.move.color = page'[p].turn
    BY <1>2 DEF FollowOK, Intends, SameBoard
  <2>3. QED
    BY <1>1, <1>2, <2>1, <2>2 DEF Intends
<1>12. AsksNext(p)'
  BY <1>1, <1>2 DEF FollowOK, AsksNext
<1>13. Hears(p)'
  BY <1>2 DEF FollowOK, Hears
<1>14. Rejoined(p)'
  <2>1. SUFFICES ASSUME NEW i \in 1 .. n + 1,
                        page'[p].jobs[i].call.kind \in {"join", "rejoin"}, page'[p].jobs[i].ok
                 PROVE  page'[p].jobs[i].at = IF \E h \in 1 .. i - 1 : Owed(page'[p].jobs[h])
                                              THEN Shown(p) + 1 ELSE Shown(p)
    BY <1>1, <1>2 DEF Rejoined, Owed
  <2>2. \A h \in 1 .. i - 1 : h \in 1 .. n /\ page'[p].jobs[h] = page[p].jobs[h]
    <3>1. \A h \in 1 .. i - 1 : h \in 1 .. n
      BY <1>2
    <3>2. QED
      BY <1>2, <3>1
  <2>3. CASE i \in 1 .. n
    <3>1. page'[p].jobs[i] = page[p].jobs[i]
      BY <1>2, <2>3
    <3>2. page[p].jobs[i].at = IF \E h \in 1 .. i - 1 : Owed(page[p].jobs[h])
                               THEN Shown(p) + 1 ELSE Shown(p)
      BY <1>2, <2>1, <2>3, <3>1 DEF FollowOK, Rejoined
    <3>3. QED
      BY <2>1, <2>2, <3>1, <3>2
  <2>4. CASE i = n + 1
    <3>1. i - 1 = n
      BY <1>2, <2>4
    <3>2. QED
      BY <1>2, <2>1, <2>2, <2>4, <3>1
  <2>5. QED
    BY <1>3, <2>3, <2>4
<1>15. QED
  BY <1>5, <1>6, <1>7, <1>8, <1>9, <1>10, <1>11, <1>12, <1>13, <1>14 DEF FollowOK

LEMMA BoardIsPrefix ==
  ASSUME TypeOK, NEW p \in Colors, Prefix(p), Shown(p) =< Len(log)
  PROVE  page[p].board = SubSeq(log, 1, Shown(p))
<1> DEFINE b == page[p].board
           n == Shown(p)
           t == SubSeq(log, 1, n)
<1>1. b \in Seq(Moves) /\ log \in Seq(Moves)
  BY PageFields DEF TypeOK
<1>2. Len(b) = n /\ n \in 0 .. Len(log) /\ n \in Nat
  BY <1>1 DEF Shown
<1>3. t \in Seq(Moves) /\ Len(t) = n /\ \A i \in 1 .. n : t[i] = log[i]
  BY <1>1, <1>2
<1>4. \A i \in 1 .. n : b[i] = t[i]
  BY <1>3 DEF Prefix
<1> HIDE DEF t
<1>5. \A s1, s2 \in Seq(Moves) :
        Len(s1) = Len(s2) /\ (\A i \in 1 .. Len(s1) : s1[i] = s2[i]) => s1 = s2
  OBVIOUS
<1>6. b = t
  BY <1>1, <1>2, <1>3, <1>4, <1>5
<1>7. QED
  BY <1>6 DEF t

\* The board moves by one.
LEMMA ShownMoved ==
  ASSUME TypeOK, NEW p \in Colors, NEW m, NEW turn, NEW myTurn, Moved(p, m, turn, myTurn)
  PROVE  /\ Shown(p) \in Nat /\ Shown(p)' = Shown(p) + 1 /\ page'[p].board[Shown(p) + 1] = m
         /\ \A k \in 1 .. Shown(p) : page'[p].board[k] = page[p].board[k]
         /\ page'[p].turn = turn /\ page'[p].myTurn = myTurn /\ page'[p].where = page[p].where
         /\ page'[p].local = page[p].local /\ (page'[p].online => page[p].online)
         /\ \A r \in In(requests'[p]) : r.kind = "move" => r \in In(requests[p])
<1>1. page[p].board \in Seq(Moves) /\ requests[p] \in Seq(Requests)
  BY PageFields DEF TypeOK
<1>2. Shown(p) \in Nat
  BY <1>1 DEF Shown
<1>3. page'[p].board = Append(page[p].board, m)
  BY DEF Moved
<1>4. /\ Len(page'[p].board) = Shown(p) + 1 /\ page'[p].board[Shown(p) + 1] = m
      /\ \A k \in 1 .. Shown(p) : page'[p].board[k] = page[p].board[k]
  BY <1>1, <1>3 DEF Shown
<1>5. \A r \in In(requests'[p]) : r.kind = "move" => r \in In(requests[p])
  <2>1. EndRequest \in Requests /\ EndRequest.kind = "end"
    BY DEF EndRequest, Request, Requests
  <2>2. requests'[p] = requests[p] \/ requests'[p] = Append(requests[p], EndRequest)
    BY DEF Moved
  <2>3. In(requests'[p]) \subseteq In(requests[p]) \cup {EndRequest}
    <3>1. In(Append(requests[p], EndRequest)) = In(requests[p]) \cup {EndRequest}
      BY <1>1, <2>1, InFacts
    <3>2. QED
      BY <2>2, <3>1
  <2>4. QED
    BY <2>1, <2>3
<1>6. QED
  BY <1>2, <1>4, <1>5 DEF Moved, Shown

LEMMA FollowFollows ==
  ASSUME TypeOK, NEW p \in Colors, QueueOK(p), FollowOK(p), log' = log, over' = over,
         inbox[p] # <<>>, inbox'[p] = Tail(inbox[p]), Follows(p, Head(inbox[p])), ~astray'[p]
  PROVE  FollowOK(p)'
<1> DEFINE m == Head(inbox[p])
           b == Shown(p)
<1>1. m \in Messages /\ In(inbox[p]) = {m} \cup In(inbox'[p])
  <2>1. inbox[p] \in Seq(Messages)
    BY DEF TypeOK
  <2>2. QED
    BY <2>1, InFacts
<1>2. /\ m.kind = "opponent_move" /\ page[p].jobs = <<>> /\ page'[p].jobs = <<>>
      /\ page[p].where # "loading" /\ page[p].where # "joining" /\ SameCalls(p)
  BY DEF Follows
<1>3. m.move # None
  BY <1>1, <1>2 DEF Messages
<1>4. \A i \in 1 .. Len(page[p].jobs) : ~Owed(page[p].jobs[i])
  BY <1>2
<1>5. m.at = b + 1 /\ m.at =< Len(log) /\ log[m.at] = m.move /\ Mover(b) # p
  BY <1>2, <1>3, <1>4, NextMove
<1>6. b \in Nat /\ Len(log) \in Nat
  BY LevelType DEF Shown
<1>7. Agrees(page[p], m.at)
  <2>1. b =< Len(log) /\ (b + 1) - 1 = b
    BY <1>5, <1>6
  <2>2. page[p].board = SubSeq(log, 1, b)
    BY <2>1, BoardIsPrefix DEF FollowOK
  <2>3. QED
    BY <1>5, <2>1, <2>2 DEF Agrees
<1>8. PICK found \in Moves : found = m.move /\ Moved(p, found, Other(found.color), TRUE)
  BY <1>7 DEF Follows
<1> HIDE DEF m
<1>9. /\ Shown(p)' = b + 1 /\ page'[p].board[b + 1] = found
      /\ \A k \in 1 .. b : page'[p].board[k] = page[p].board[k]
      /\ page'[p].turn = Other(found.color) /\ page'[p].myTurn = TRUE
      /\ page'[p].where = page[p].where /\ page'[p].local = page[p].local
      /\ (page'[p].online => page[p].online)
      /\ \A r \in In(requests'[p]) : r.kind = "move" => r \in In(requests[p])
  BY <1>8, ShownMoved
<1>10. page[p].where = "playing" /\ Placed(p)'
  BY <1>2, <1>9 DEF FollowOK, Placed
<1>11. Prefix(p)'
  <2>1. \A k \in 1 .. b + 1 : k \in 1 .. b \/ k = b + 1
    BY <1>6
  <2>2. \A k \in 1 .. b : page'[p].board[k] = log[k]
    BY <1>9 DEF FollowOK, Prefix
  <2>3. QED
    BY <1>5, <1>8, <1>9, <2>1, <2>2 DEF Prefix
<1>12. Covered(p)'
  <2>1. SUFFICES ASSUME NEW k \in b + 1 + 1 .. Len(log)
                 PROVE  SentAt(p, k)'
    BY <1>9 DEF Covered
  <2>2. k \in b + 1 .. Len(log) /\ k # b + 1
    BY <1>6, <2>1
  <2>3. SentAt(p, k)
    BY <1>4, <2>2 DEF FollowOK, Covered, OwedAt
  <2>4. QED
    BY <1>1, <1>5, <2>2, <2>3 DEF SentAt
<1>13. Due(p)' /\ Rejoined(p)'
  BY <1>2 DEF Due, Rejoined
<1>14. Turned(p)'
  BY <1>6, <1>9 DEF Turned
<1>15. Knows(p)'
  <2>1. Mover(b + 1) = p
    BY <1>5, <1>6, ColorFacts
  <2>2. QED
    BY <1>9, <2>1 DEF Knows
<1>16. Warned(p)'
  BY <1>1, <1>2, <1>9 DEF FollowOK, Warned
<1>17. Alone(p, {"move"})'
  BY <1>2 DEF FollowOK, Alone, SameCalls
<1>18. Intends(p)'
  BY <1>2, <1>5 DEF FollowOK, Intends, SameCalls
<1>19. AsksNext(p)'
  <2>1. b # Len(log)
    BY <1>5, <1>6
  <2>2. QED
    BY <1>9, <2>1 DEF FollowOK, AsksNext
<1>20. Hears(p)'
  BY <1>1, <1>2 DEF FollowOK, Hears, SameCalls
<1>21. QED
  BY <1>10, <1>11, <1>12, <1>13, <1>14, <1>15, <1>16, <1>17, <1>18, <1>19, <1>20 DEF FollowOK

LEMMA FollowPlays ==
  ASSUME TypeOK, NEW p \in Colors, FollowOK(p), JobsFit(p), log' = log, over' = over,
         page[p].jobs # <<>>, page'[p].jobs = Tail(page[p].jobs), inbox'[p] = inbox[p],
         Plays(p, Head(page[p].jobs))
  PROVE  FollowOK(p)'
<1> DEFINE j == Head(page[p].jobs)
           b == Shown(p)
           n == Len(page[p].jobs)
<1>1. /\ n \in Nat /\ n >= 1 /\ Len(page'[p].jobs) = n - 1 /\ j = page[p].jobs[1]
      /\ \A i \in 1 .. n - 1 : i + 1 \in 2 .. n /\ page'[p].jobs[i] = page[p].jobs[i + 1]
  BY JobShift
<1>2. 1 \in 1 .. n /\ \A i \in 2 .. n : i \in 1 .. n
  BY <1>1
<1> HIDE DEF j
<1>3. /\ j.call.kind = "move" /\ j.ok /\ SameCalls(p)
      /\ Moved(p, page[p].held, Other(page[p].turn), FALSE)
  BY DEF Plays, j
<1>4. b \in Nat /\ Len(log) \in Nat
  BY LevelType DEF Shown
<1>5. /\ Owed(j) /\ j.at = b + 1 /\ j.at \in 1 .. Len(log) /\ j.call.move = log[b + 1]
      /\ Mover(b) = p /\ page[p].held = log[b + 1] /\ page[p].held.color = page[p].turn
  <2>1. Owed(j)
    BY <1>3 DEF Owed
  <2>2. j.at = b + 1
    BY <1>1, <1>2, <2>1 DEF FollowOK, Due
  <2>3. j.at \in 1 .. Len(log) /\ j.call.move = log[j.at]
    BY <1>1, <1>2, <2>1 DEF JobsFit, JobFit
  <2>4. Mover(b) = p /\ page[p].held = j.call.move /\ page[p].held.color = page[p].turn
    BY <1>1, <1>2, <1>3 DEF FollowOK, Intends
  <2>5. QED
    BY <2>1, <2>2, <2>3, <2>4
<1>6. /\ Without(p, {"move"})
      /\ \A i \in 1 .. n - 1 : page'[p].jobs[i].call.kind # "move"
  <2>1. Head(page[p].jobs).call.kind \in {"move"}
    BY <1>3 DEF j
  <2>2. QED
    BY <1>1, <2>1, AloneHead DEF FollowOK
<1>7. /\ Shown(p)' = b + 1 /\ page'[p].board[b + 1] = page[p].held
      /\ \A k \in 1 .. b : page'[p].board[k] = page[p].board[k]
      /\ page'[p].turn = Other(page[p].turn) /\ page'[p].myTurn = FALSE
      /\ page'[p].where = page[p].where /\ page'[p].local = page[p].local
      /\ (page'[p].online => page[p].online)
      /\ \A r \in In(requests'[p]) : r.kind = "move" => r \in In(requests[p])
  BY <1>3, ShownMoved
<1>8. Placed(p)'
  <2>1. page[p].where = "playing"
    BY <1>1, <1>2, <1>3 DEF FollowOK, Placed, WithoutJob
  <2>2. QED
    BY <1>7, <2>1 DEF FollowOK, Placed
<1>9. Prefix(p)'
  <2>1. \A k \in 1 .. b + 1 : k \in 1 .. b \/ k = b + 1
    BY <1>4
  <2>2. \A k \in 1 .. b : page'[p].board[k] = log[k]
    BY <1>7 DEF FollowOK, Prefix
  <2>3. QED
    BY <1>5, <1>7, <2>1, <2>2 DEF Prefix
<1>10. Covered(p)'
  <2>1. SUFFICES ASSUME NEW k \in b + 1 + 1 .. Len(log)
                 PROVE  SentAt(p, k)'
    BY <1>7 DEF Covered
  <2>2. k \in b + 1 .. Len(log) /\ k # b + 1
    BY <1>4, <2>1
  <2>3. ~OwedAt(p, k)
    BY <2>2 DEF FollowOK, Due, OwedAt
  <2>4. SentAt(p, k)
    BY <2>2, <2>3 DEF FollowOK, Covered
  <2>5. QED
    BY <2>4 DEF SentAt
<1>11. Due(p)'
  BY <1>1, <1>6 DEF Due, Owed
<1>12. Turned(p)'
  BY <1>4, <1>5, <1>7 DEF Turned
<1>13. Knows(p)'
  <2>1. Mover(b + 1) # p
    BY <1>4, <1>5, ColorFacts
  <2>2. QED
    BY <1>7, <2>1 DEF Knows
<1>14. Warned(p)'
  BY <1>7 DEF FollowOK, Warned
<1>15. Alone(p, {"move"})'
  BY <1>1, <1>3, <1>6 DEF Alone, Without, SameCalls
<1>16. Intends(p)'
  BY <1>1, <1>3, <1>6 DEF Intends, Without, SameCalls
<1>17. AsksNext(p)'
  <2>1. \A r \in In(requests[p]) : r.kind # "move"
    BY <1>6 DEF FollowOK, AsksNext, Without
  <2>2. QED
    BY <1>7, <2>1 DEF AsksNext
<1>18. Hears(p)'
  BY <1>3 DEF FollowOK, Hears, SameCalls
<1>19. Rejoined(p)'
  <2>1. SUFFICES ASSUME NEW i \in 1 .. n - 1,
                        page'[p].jobs[i].call.kind \in {"join", "rejoin"}, page'[p].jobs[i].ok
                 PROVE  page'[p].jobs[i].at = IF \E h \in 1 .. i - 1 : Owed(page'[p].jobs[h])
                                              THEN b + 1 + 1 ELSE b + 1
    BY <1>1, <1>7 DEF Rejoined, Owed
  <2>2. \A h \in 1 .. i - 1 : h \in 1 .. n - 1
    BY <1>1
  <2>3. ~\E h \in 1 .. i - 1 : Owed(page'[p].jobs[h])
    BY <1>6, <2>2 DEF Owed
  <2>4. i + 1 \in 1 .. n /\ page'[p].jobs[i] = page[p].jobs[i + 1] /\ 1 \in 1 .. (i + 1) - 1
    BY <1>1, <1>2
  <2>5. page[p].jobs[i + 1].at = b + 1
    BY <1>1, <1>5, <2>1, <2>4 DEF FollowOK, Rejoined
  <2>6. QED
    BY <2>3, <2>4, <2>5
<1>20. QED
  BY <1>8, <1>9, <1>10, <1>11, <1>12, <1>13, <1>14, <1>15, <1>16, <1>17, <1>18, <1>19
     DEF FollowOK

LEMMA FollowClick ==
  ASSUME TypeOK, NEW p \in Colors, QueueOK(p), CallOK(p), FollowOK(p), log' = log, over' = over,
         Click(p), ~astray'[p]
  PROVE  FollowOK(p)'
<1> DEFINE m == [color |-> page[p].turn, piece |-> "asked"]
           b == Shown(p)
<1>1. PICK c :
        /\ Settled /\ page[p].online /\ page[p].myTurn /\ m.color = page[p].turn
        /\ Called(p, c, "move", m) /\ SameView(p) /\ page'[p].jobs = page[p].jobs
        /\ page'[p].held = m /\ page'[p].myTurn = page[p].myTurn /\ page'[p].turn = page[p].turn
        /\ page'[p].board = page[p].board /\ page'[p].local = page[p].local
        /\ inbox'[p] = inbox[p]
        /\ ~Moving(page[p]) /\ page[p].where = "playing"
  <2>1. LET k == [color |-> page[p].turn, piece |-> "asked"] IN k.color = page[p].turn
    OBVIOUS
  <2>2. QED
    BY <2>1, ClickFacts
<1> HIDE DEF m
<1>2. /\ c.seq = page[p].seq /\ c.kind = "move" /\ c.move = m
      /\ page'[p].calls = page[p].calls \cup {c}
      /\ requests'[p] = IF up[p] THEN Append(requests[p], Request("move", m, page[p].seq))
                        ELSE requests[p]
      /\ page[p].jobs = <<>> /\ page'[p].jobs = <<>>
  BY <1>1 DEF Called, Settled
<1>3. Without(p, {"move"})
  BY <1>1 DEF Moving, Without
<1>4. b \in Nat /\ Len(log) \in Nat /\ Shown(p)' = b /\ b =< Len(log)
  <2>1. b \in Nat /\ Len(log) \in Nat /\ Level(p) = b + CountOwed(page[p].jobs)
        /\ CountOwed(page[p].jobs) \in Nat /\ Level(p) =< Len(log)
    BY LevelType, LevelShown DEF Shown, QueueOK, Room
  <2>2. b =< Len(log)
    BY <2>1
  <2>3. QED
    BY <1>1, <2>1, <2>2 DEF Shown
<1>5. Mover(b) = p
  BY <1>1 DEF FollowOK, Knows
<1>6. b = Len(log)
  <2>1. SUFFICES ASSUME b + 1 \in b + 1 .. Len(log) PROVE FALSE
    BY <1>4
  <2>2. SentAt(p, b + 1)
    BY <1>2, <2>1 DEF FollowOK, Covered, OwedAt
  <2>3. PICK i \in 1 .. Len(inbox[p]) : inbox[p][i].move # None /\ inbox[p][i].at = b + 1
    BY <2>2 DEF SentAt, In
  <2>4. inbox[p][i].at - 1 = b
    BY <1>4, <2>3
  <2>5. inbox[p][i].kind = "answer"
    BY <1>5, <2>3, <2>4 DEF QueueOK, Timely, Dated
  <2>6. inbox[p][i] \in In(inbox[p])
    BY DEF In
  <2>7. QED
    BY <1>3, <2>3, <2>5, <2>6 DEF FollowOK, Hears, Without
<1>7. Prefix(p)' /\ Covered(p)' /\ Turned(p)' /\ Knows(p)' /\ Warned(p)'
  <2>1. Prefix(p)' /\ Turned(p)'
    BY <1>1, <1>4 DEF FollowOK, Prefix, Turned
  <2>2. Covered(p)'
    BY <1>4, <1>6 DEF Covered
  <2>3. Knows(p)' /\ Warned(p)'
    BY <1>1, <1>4 DEF FollowOK, Knows, Warned, SameView
  <2>4. QED
    BY <2>1, <2>2, <2>3
<1>8. Due(p)' /\ Rejoined(p)'
  BY <1>2 DEF Due, Rejoined
<1>9. Placed(p)'
  BY <1>1 DEF FollowOK, Placed, SameView
<1>10. Alone(p, {"move"})'
  BY <1>2, <1>3 DEF Alone, Without
<1>11. Intends(p)'
  BY <1>1, <1>2, <1>3, <1>4, <1>5 DEF Intends, Without
<1>12. AsksNext(p)'
  <2> DEFINE r == Request("move", m, page[p].seq)
  <2>1. r.seq = c.seq
    BY <1>2 DEF Request
  <2>2. In(requests'[p]) \subseteq In(requests[p]) \cup {r}
    <3>1. requests[p] \in Seq(Requests) /\ page[p].seq \in Nat
      BY PageFields DEF TypeOK
    <3>2. m \in Moves /\ m # None
      BY ClickFacts, PlayAssumption DEF m
    <3>3. r \in Requests
      BY <3>1, <3>2 DEF Request, Requests
    <3>4. In(Append(requests[p], r)) = In(requests[p]) \cup {r}
      BY <3>1, <3>3, InFacts
    <3>5. QED
      BY <1>2, <3>4
  <2> HIDE DEF r
  <2>3. QED
    BY <1>2, <1>4, <1>6, <2>1, <2>2 DEF FollowOK, AsksNext
<1>13. Hears(p)'
  <2>1. ASSUME NEW a \in In(inbox[p]), a.kind = "answer"
        PROVE  a.seq # c.seq
    <3>1. PICK i \in 1 .. Len(inbox[p]) : a = inbox[p][i]
      BY DEF In
    <3>2. a.seq < page[p].seq
      BY <2>1, <3>1 DEF CallOK, Replied
    <3>3. a.seq \in Nat /\ page[p].seq \in Nat
      <4>1. a \in Messages
        BY <3>1, LevelType
      <4>2. QED
        BY <4>1, PageFields DEF TypeOK, Messages
    <3>4. QED
      BY <1>2, <3>2, <3>3
  <2>2. QED
    BY <1>1, <1>2, <2>1 DEF FollowOK, Hears
<1>14. QED
  BY <1>7, <1>8, <1>9, <1>10, <1>11, <1>12, <1>13 DEF FollowOK

\* A call that is no move leaves the moves that are asked for.
LEMMA CalledAsks ==
  ASSUME TypeOK, NEW p \in Colors, NEW c,
         NEW kind \in {"join", "password", "relogin", "repassword", "rejoin"},
         Called(p, c, kind, None)
  PROVE  /\ \A d \in page'[p].calls : d.kind = "move" => d \in page[p].calls
         /\ \A d \in page[p].calls : d \in page'[p].calls
         /\ \A r \in In(requests'[p]) : r.kind = "move" => r \in In(requests[p])
         /\ page'[p].calls = page[p].calls \cup {c} /\ c.kind # "move"
<1> DEFINE r == Request(kind, None, page[p].seq)
<1>1. requests[p] \in Seq(Requests) /\ page[p].seq \in Nat
  BY PageFields DEF TypeOK
<1>2. r \in Requests /\ r.kind = kind
  BY <1>1 DEF Request, Requests
<1>3. In(Append(requests[p], r)) = In(requests[p]) \cup {r}
  BY <1>1, <1>2, InFacts
<1>4. requests'[p] = requests[p] \/ requests'[p] = Append(requests[p], r)
  BY DEF Called
<1>5. page'[p].calls = page[p].calls \cup {c} /\ c.kind = kind
  BY DEF Called
<1> HIDE DEF r
<1>6. QED
  BY <1>2, <1>3, <1>4, <1>5

\* The first message, and the rest of the inbox.
LEMMA FirstMessage ==
  ASSUME TypeOK, NEW p \in Colors, inbox[p] # <<>>, inbox'[p] = Tail(inbox[p])
  PROVE  /\ Head(inbox[p]) \in Messages /\ In(inbox[p]) = {Head(inbox[p])} \cup In(inbox'[p])
         /\ 1 \in 1 .. Len(inbox[p]) /\ Head(inbox[p]) = inbox[p][1]
         /\ \A m \in In(inbox'[p]) : \E i \in 1 .. Len(inbox[p]) : 1 < i /\ m = inbox[p][i]
<1>1. inbox[p] \in Seq(Messages)
  BY DEF TypeOK
<1>2. In(inbox[p]) = {Head(inbox[p])} \cup In(inbox'[p])
  BY <1>1, InFacts
<1>3. /\ Head(inbox[p]) \in Messages /\ 1 \in 1 .. Len(inbox[p]) /\ Head(inbox[p]) = inbox[p][1]
      /\ Len(inbox[p]) \in Nat
  BY <1>1
<1>4. ASSUME NEW m \in In(inbox'[p])
      PROVE  \E i \in 1 .. Len(inbox[p]) : 1 < i /\ m = inbox[p][i]
  <2>1. PICK i \in 1 .. Len(inbox'[p]) : m = inbox'[p][i]
    BY DEF In
  <2>2. i + 1 \in 1 .. Len(inbox[p]) /\ inbox'[p][i] = inbox[p][i + 1]
    BY DrainedFacts
  <2>3. 1 < i + 1
    OBVIOUS
  <2>4. QED
    BY <2>1, <2>2, <2>3
<1>5. QED
  BY <1>2, <1>3, <1>4

LEMMA FollowResolves ==
  ASSUME TypeOK, NEW p \in Colors, QueueOK(p), CallOK(p), FollowOK(p),
         log' = log, over' = over,
         inbox[p] # <<>>, inbox'[p] = Tail(inbox[p]), Resolves(p, Head(inbox[p]))
  PROVE  FollowOK(p)'
<1> DEFINE m == Head(inbox[p])
<1>1. /\ m \in Messages /\ In(inbox[p]) = {m} \cup In(inbox'[p]) /\ m \in In(inbox[p])
      /\ 1 \in 1 .. Len(inbox[p]) /\ m = inbox[p][1]
      /\ \A a \in In(inbox'[p]) : \E i \in 1 .. Len(inbox[p]) : 1 < i /\ a = inbox[p][i]
  BY FirstMessage
<1>2. PICK c \in page[p].calls :
        /\ m.kind = "answer" /\ c.seq = m.seq
        /\ SameView(p) /\ SameBoard(p) /\ page'[p].calls = page[p].calls \ {c}
        /\ page'[p].jobs = Append(page[p].jobs, Resulting(c, m)) /\ requests'[p] = requests[p]
  BY DEF Resolves
<1> DEFINE j == Resulting(c, m)
<1>3. j \in Jobs
  BY <1>2, ResultFits
<1>4. j.call = c /\ j.ok = m.ok /\ j.mine = m.mine /\ j.at = m.at
  BY DEF Resulting
<1>5. Settles(p, c, j)
  BY <1>2, <1>3, <1>4 DEF Settles
<1>6. Matched(p, c, m)
  BY <1>1, <1>2 DEF CallOK, Replied
<1>7. m.move # None => m.at = Shown(p) + 1
  <2>1. SUFFICES ASSUME m.move # None PROVE m.at = Shown(p) + 1
    OBVIOUS
  <2>2. c.kind = "move"
    BY <1>6, <2>1 DEF Matched
  <2>3. \A i \in 1 .. Len(page[p].jobs) : ~Owed(page[p].jobs[i])
    BY <2>2 DEF FollowOK, Alone, Owed
  <2>4. QED
    BY <2>1, <2>3, NextMove
<1>8. m.move = None => m.at = IF \E i \in 1 .. Len(page[p].jobs) : Owed(page[p].jobs[i])
                              THEN Shown(p) + 1 ELSE Shown(p)
  BY <1>2, NextAnswer
<1> HIDE DEF j, m
<1>9. Owed(j) <=> m.move # None
  BY <1>4, <1>6 DEF Matched, Owed
<1>10. c.kind = "move" /\ ~j.ok => j.mine
  BY <1>1, <1>2, <1>4 DEF FollowOK, Hears
<1>11. ASSUME NEW r \in In(requests[p]), r.kind = "move"
       PROVE  r.seq # c.seq
  <2>1. PICK h \in 1 .. Len(requests[p]) : r = requests[p][h]
    BY DEF In
  <2>2. QED
    BY <1>1, <1>2, <1>11, <2>1 DEF CallOK, Once
<1>12. ASSUME NEW a \in In(inbox'[p]), a.kind = "answer"
       PROVE  a.seq # c.seq
  <2>1. PICK i \in 1 .. Len(inbox[p]) : 1 < i /\ a = inbox[p][i]
    BY <1>1
  <2>2. \A h, k \in 1 .. Len(inbox[p]) :
          h < k /\ inbox[p][h].kind = "answer" /\ inbox[p][k].kind = "answer" =>
            inbox[p][h].seq # inbox[p][k].seq
    BY DEF CallOK, Once
  <2>3. m.seq # a.seq
    BY <1>1, <1>2, <1>12, <2>1, <2>2
  <2>4. QED
    BY <1>2, <2>3
<1>13. \A a \in In(inbox[p]) : a \in In(inbox'[p]) \/ a = m
  BY <1>1
<1>14. /\ Owed(j) => j.at = Shown(p) + 1
       /\ c.kind \in {"join", "rejoin"} /\ j.ok =>
            j.at = IF \E i \in 1 .. Len(page[p].jobs) : Owed(page[p].jobs[i])
                   THEN Shown(p) + 1 ELSE Shown(p)
  BY <1>4, <1>6, <1>7, <1>8, <1>9 DEF Matched
<1>15. /\ \A a \in In(inbox'[p]) : a \in In(inbox[p])
       /\ \A a \in In(inbox'[p]) : a.kind = "answer" /\ a.move # None => a.seq # c.seq
       /\ \A a \in In(inbox[p]) : a.kind = "game_end" => a \in In(inbox'[p])
       /\ \A a \in In(inbox[p]) : a.move # None => a \in In(inbox'[p]) \/ (Owed(j) /\ j.at = a.at)
  BY <1>1, <1>2, <1>4, <1>9, <1>12, <1>13
<1>16. QED
  BY <1>2, <1>5, <1>10, <1>11, <1>14, <1>15, FollowSettles

LEMMA FollowHandle ==
  ASSUME TypeOK, NEW p \in Colors, QueueOK(p), CallOK(p), FollowOK(p),
         log' = log, over' = over, Handle(p), ~astray'[p]
  PROVE  FollowOK(p)'
<1> DEFINE m == Head(inbox[p])
<1>1. /\ inbox[p] # <<>> /\ inbox'[p] = Tail(inbox[p])
      /\ \/ Resolves(p, m) \/ Misses(p, m) \/ Gropes(p, m) \/ Follows(p, m) \/ Stops(p, m)
         \/ Waits(p, m) \/ Returns(p, m)
  BY HandleFacts
<1>2. m \in Messages /\ In(inbox[p]) = {m} \cup In(inbox'[p])
  BY <1>1, FirstMessage
<1>3. CASE Resolves(p, m)
  BY <1>1, <1>3, FollowResolves
<1>4. CASE Follows(p, m)
  BY <1>1, <1>4, FollowFollows
<1>5. CASE Gropes(p, m)
  <2>1. m.kind = "opponent_move" /\ ~Agrees(page[p], m.at) /\ page[p].jobs = <<>>
    BY <1>5 DEF Gropes
  <2>2. m.move # None
    BY <1>2, <2>1 DEF Messages
  <2>3. m.at = Shown(p) + 1 /\ m.at =< Len(log)
    BY <1>1, <2>1, <2>2, NextMove
  <2>4. Shown(p) \in Nat /\ Len(log) \in Nat
    BY LevelType DEF Shown
  <2> HIDE DEF m
  <2>5. Shown(p) =< Len(log) /\ m.at - 1 = Shown(p)
    BY <2>3, <2>4
  <2>6. QED
    BY <2>1, <2>5, BoardIsPrefix DEF FollowOK, Agrees
<1> HIDE DEF m
<1>6. CASE Misses(p, m) \/ Stops(p, m) \/ Waits(p, m) \/ Returns(p, m)
  <2>1. /\ page'[p].board = page[p].board /\ page'[p].turn = page[p].turn
        /\ page'[p].held = page[p].held /\ page'[p].where = page[p].where
        /\ page'[p].local = page[p].local /\ page'[p].jobs = page[p].jobs
        /\ page'[p].online => page[p].online /\ page'[p].myTurn = page[p].myTurn
        /\ m.kind = "game_end" => ~page'[p].online
    BY <1>6 DEF Misses, Stops, Waits, Returns, SameBoard, SameView
  <2>2. m.move = None
    BY <1>2, <1>6 DEF Misses, Stops, Waits, Returns, Messages
  <2>3. \/ page'[p].calls = page[p].calls /\ requests'[p] = requests[p]
        \/ \E c : Called(p, c, "relogin", None)
    BY <1>6 DEF Misses, Stops, Waits, Returns, SameCalls
  <2>4. /\ \A d \in page'[p].calls : d.kind = "move" => d \in page[p].calls
        /\ \A c \in page[p].calls : c \in page'[p].calls
        /\ \A r \in In(requests'[p]) : r.kind = "move" => r \in In(requests[p])
    <3>1. CASE page'[p].calls = page[p].calls /\ requests'[p] = requests[p]
      BY <3>1
    <3>2. ASSUME NEW c, Called(p, c, "relogin", None)
          PROVE  /\ \A d \in page'[p].calls : d.kind = "move" => d \in page[p].calls
                 /\ \A d \in page[p].calls : d \in page'[p].calls
                 /\ \A r \in In(requests'[p]) : r.kind = "move" => r \in In(requests[p])
      BY <3>2, CalledAsks
    <3>3. QED
      BY <2>3, <3>1, <3>2
  <2>5. Alone(p, {"move"})'
    <3>1. \A d \in page'[p].calls : d.kind \in {"move"} => d \in page[p].calls
      BY <2>4
    <3>2. QED
      BY <2>1, <3>1 DEF FollowOK, Alone
  <2>6. Placed(p)'
    BY <2>1, <2>4 DEF FollowOK, Placed, Without, WithoutJob
  <2>7. Knows(p)'
    BY <2>1 DEF FollowOK, Knows, Shown
  <2>8. /\ \A d \in page'[p].calls : d.kind = "move" =>
              \E c \in page[p].calls : c.kind = "move" /\ c.seq = d.seq /\ c.move = d.move
        /\ \A c \in page[p].calls : c.kind = "move" =>
              \E d \in page'[p].calls : d.kind = "move" /\ d.seq = c.seq
    BY <2>4
  <2>9. /\ \A a \in In(inbox'[p]) : a.kind = "answer" => a \in In(inbox[p])
        /\ \A a \in In(inbox[p]) : a.move # None => a \in In(inbox'[p])
        /\ page'[p].online => /\ page[p].online
                              /\ \A a \in In(inbox[p]) : a.kind = "game_end" => a \in In(inbox'[p])
    BY <1>2, <2>1, <2>2
  <2>10. QED
    BY <2>1, <2>4, <2>5, <2>6, <2>7, <2>8, <2>9, FollowStill
<1>7. QED
  BY <1>1, <1>3, <1>4, <1>5, <1>6

LEMMA FollowContinue ==
  ASSUME TypeOK, NEW p \in Colors, JobsFit(p), LifeOK(p), FollowOK(p),
         log' = log, over' = over, Continue(p), ~astray'[p]
  PROVE  FollowOK(p)'
<1> DEFINE j == Head(page[p].jobs)
<1>1. /\ page[p].jobs # <<>> /\ j \in Jobs
      /\ page'[p].jobs = Tail(page[p].jobs) /\ inbox'[p] = inbox[p]
      /\ \/ Enters(p, j) \/ SetsUp(p, j) \/ Retries(p, j) \/ Rejoins(p, j) \/ Idles(p, j)
         \/ Learns(p, j) \/ Plays(p, j)
  BY ContinueFacts DEF Quits
<1>2. 1 \in 1 .. Len(page[p].jobs) /\ j = page[p].jobs[1]
  BY <1>1, JobShift
<1>3. CASE Plays(p, j)
  BY <1>1, <1>3, FollowPlays
<1> HIDE DEF j
<1>4. Shown(p)' = Shown(p) \/ Plays(p, j) \/ SetsUp(p, j)
  BY <1>1 DEF Enters, Retries, Rejoins, Idles, Learns, SameBoard, Shown
<1>5. j.call.kind = "move" =>
        /\ page[p].held # None /\ (~j.ok => j.mine)
  <2>1. j.call.kind = "move" => j.call.move # None
    BY <1>1 DEF Jobs, PageCalls
  <2>2. QED
    BY <1>2, <2>1 DEF FollowOK, Intends
<1>6. j.call.kind \in {"join", "rejoin"} /\ j.ok => j.mine = (Mover(Shown(p)) = p)
  <2>1. SUFFICES ASSUME j.call.kind \in {"join", "rejoin"}, j.ok
                 PROVE  j.mine = (Mover(Shown(p)) = p)
    OBVIOUS
  <2>2. \A h \in 1 .. 1 - 1 : FALSE
    OBVIOUS
  <2>3. j.at = Shown(p)
    BY <1>2, <2>1, <2>2 DEF FollowOK, Rejoined
  <2>4. QED
    BY <1>2, <2>1, <2>3 DEF JobsFit, JobFit
<1>7. Stage(page[p].where, j.call.kind)
  BY <1>2 DEF LifeOK, Staged
<1>8. ASSUME page'[p].board = page[p].board, page'[p].turn = page[p].turn, ~Owed(j),
             Placed(p)', Knows(p)',
             \/ page'[p].held = page[p].held
             \/ Without(p, {"move"}) /\ WithoutJob(p, {"move"}),
             page'[p].online = page[p].online,
             \/ page'[p].calls = page[p].calls /\ requests'[p] = requests[p]
             \/ \E c, kind : /\ kind \in {"join", "password", "repassword", "rejoin"}
                            /\ Called(p, c, kind, None)
      PROVE  FollowOK(p)'
  <2>1. /\ \A d \in page'[p].calls : d.kind = "move" => d \in page[p].calls
        /\ \A d \in page[p].calls : d \in page'[p].calls
        /\ \A r \in In(requests'[p]) : r.kind = "move" => r \in In(requests[p])
    BY <1>8, CalledAsks
  <2>2. Alone(p, {"move"})'
    <3>1. CASE page'[p].calls = page[p].calls
      BY <1>1, <3>1, AloneKept DEF Runs, FollowOK
    <3>2. ASSUME NEW c, NEW kind \in {"join", "password", "repassword", "rejoin"},
                 Called(p, c, kind, None)
          PROVE  Alone(p, {"move"})'
      <4>1. RunsOn(p, c) /\ c.kind \notin {"move"}
        BY <1>1, <3>2, CalledAsks DEF RunsOn
      <4>2. QED
        BY <1>1, <4>1, AloneAdds DEF FollowOK
    <3>3. QED
      BY <1>8, <3>1, <3>2
  <2>3. ~Owed(Head(page[p].jobs))
    BY <1>8 DEF j
  <2>4. /\ \A d \in page'[p].calls : d.kind = "move" =>
              \E c \in page[p].calls : c.kind = "move" /\ c.seq = d.seq /\ c.move = d.move
        /\ \A c \in page[p].calls : c.kind = "move" =>
              \E d \in page'[p].calls : d.kind = "move" /\ d.seq = c.seq
    BY <2>1
  <2>5. QED
    BY <1>1, <1>8, <2>1, <2>2, <2>3, <2>4, FollowStill
<1>9. CASE Enters(p, j)
  <2>1. /\ page[p].where = "loading" /\ page'[p].where = "joining" /\ ~Owed(j)
        /\ page'[p].online = page[p].online /\ page'[p].board = page[p].board
        /\ page'[p].turn = page[p].turn /\ page'[p].held = page[p].held
        /\ page'[p].myTurn = page[p].myTurn /\ page'[p].local = page[p].local
        /\ \E c : Called(p, c, "join", None)
    BY <1>7, <1>9 DEF Enters, SameBoard, Stage, Owed
  <2>2. Placed(p)'
    <3>1. \A d \in page'[p].calls : d.kind = "move" => d \in page[p].calls
      BY <2>1, CalledAsks
    <3>2. \A i \in 1 .. Len(page'[p].jobs) :
            i + 1 \in 2 .. Len(page[p].jobs) /\ page'[p].jobs[i] = page[p].jobs[i + 1]
      BY <1>1, JobShift
    <3>3. \A i \in 2 .. Len(page[p].jobs) : i \in 1 .. Len(page[p].jobs)
      BY JobShift
    <3>4. page[p].board = <<>> /\ Without(p, {"move"}) /\ WithoutJob(p, {"move"})
      BY <2>1 DEF FollowOK, Placed
    <3>5. Without(p, {"move"})' /\ WithoutJob(p, {"move"})'
      BY <3>1, <3>2, <3>3, <3>4 DEF Without, WithoutJob
    <3>6. QED
      BY <2>1, <3>4, <3>5 DEF FollowOK, Placed
  <2>3. Knows(p)'
    BY <2>1 DEF FollowOK, Knows, Shown
  <2>4. QED
    BY <1>8, <2>1, <2>2, <2>3
<1>10. CASE SetsUp(p, j)
  <2>1. /\ page[p].where = "joining" /\ page'[p].where = "playing" /\ ~Owed(j)
        /\ page'[p].online = page[p].online /\ page'[p].board = <<>> /\ page'[p].turn = "red"
        /\ page'[p].myTurn = (IF j.ok THEN j.mine ELSE page[p].myTurn)
        /\ page'[p].calls = page[p].calls /\ requests'[p] = requests[p] /\ page'[p].local = 0
    BY <1>7, <1>10 DEF SetsUp, SameCalls, Stage, Owed
  <2>2. page[p].board = <<>> /\ Without(p, {"move"}) /\ WithoutJob(p, {"move"})
    BY <2>1 DEF FollowOK, Placed
  <2>3. Shown(p) = 0 /\ Shown(p)' = 0
    BY <2>1, <2>2 DEF Shown
  <2>4. page[p].turn = "red"
    BY <2>3 DEF FollowOK, Turned
  <2>5. Placed(p)'
    BY <2>1 DEF Placed
  <2>6. j.call.kind = "join"
    BY <1>10 DEF SetsUp
  <2>7. Knows(p)'
    BY <1>6, <2>1, <2>3, <2>6 DEF FollowOK, Knows
  <2>8. QED
    BY <1>8, <2>1, <2>2, <2>4, <2>5, <2>7
<1>11. CASE Retries(p, j) \/ Rejoins(p, j) \/ Idles(p, j) \/ Learns(p, j)
  <2>1. /\ page'[p].where = page[p].where /\ page'[p].online = page[p].online /\ ~Owed(j)
        /\ page'[p].board = page[p].board /\ page'[p].turn = page[p].turn
        /\ page'[p].held = page[p].held /\ page'[p].local = page[p].local
        /\ \/ page'[p].calls = page[p].calls /\ requests'[p] = requests[p]
           \/ \E c, kind : /\ kind \in {"password", "repassword", "rejoin"}
                            /\ Called(p, c, kind, None)
    BY <1>5, <1>11 DEF Retries, Rejoins, Idles, Learns, SameView, SameBoard, SameCalls, Owed
  <2>2. Knows(p)'
    <3>1. page[p].online => page'[p].myTurn = (Mover(Shown(p)) = p)
      BY <1>5, <1>6, <1>11 DEF Retries, Rejoins, Idles, Learns, SameBoard, FollowOK, Knows
    <3>2. QED
      BY <2>1, <3>1 DEF Knows, Shown
  <2>3. Placed(p)'
    <3>1. \A d \in page'[p].calls : d.kind = "move" => d \in page[p].calls
      BY <2>1, CalledAsks
    <3>2. \A i \in 1 .. Len(page'[p].jobs) :
            i + 1 \in 2 .. Len(page[p].jobs) /\ page'[p].jobs[i] = page[p].jobs[i + 1]
      BY <1>1, JobShift
    <3>3. \A i \in 2 .. Len(page[p].jobs) : i \in 1 .. Len(page[p].jobs)
      BY JobShift
    <3>4. Without(p, {"move"}) => Without(p, {"move"})'
      BY <3>1 DEF Without
    <3>5. WithoutJob(p, {"move"}) => WithoutJob(p, {"move"})'
      BY <3>2, <3>3 DEF WithoutJob
    <3>6. QED
      BY <2>1, <3>4, <3>5 DEF FollowOK, Placed
  <2>4. QED
    BY <1>8, <2>1, <2>2, <2>3
<1>12. QED
  BY <1>1, <1>3, <1>9, <1>10, <1>11

LEMMA FollowTimeOut ==
  ASSUME TypeOK, NEW p \in Colors, CallOK(p), FollowOK(p), log' = log, over' = over,
         NEW c \in page[p].calls, TimeOut(p, c), ~astray'[p]
  PROVE  FollowOK(p)'
<1> DEFINE j == [call |-> c, ok |-> FALSE, mine |-> TRUE, at |-> 0]
<1>1. /\ SameView(p) /\ SameBoard(p) /\ page'[p].calls = page[p].calls \ {c}
      /\ page'[p].jobs = <<j>> /\ page[p].jobs = <<>>
      /\ requests'[p] = requests[p] /\ inbox'[p] = inbox[p]
      /\ c.kind = "move" => ~Underway(p, c)
  BY TimeOutFacts
<1>2. c \in PageCalls
  BY PageFields DEF TypeOK
<1>3. j \in Jobs /\ j.call = c /\ j.ok = FALSE /\ j.mine = TRUE
  BY <1>2 DEF Jobs
<1> HIDE DEF j
<1>4. Settles(p, c, j)
  <2>1. page'[p].jobs = Append(page[p].jobs, j)
    BY <1>1
  <2>2. QED
    BY <1>1, <1>3, <2>1 DEF Settles
<1>5. ~Owed(j)
  BY <1>3 DEF Owed
<1>6. ASSUME NEW r \in In(requests[p]), r.kind = "move"
      PROVE  r.seq # c.seq
  <2>1. PICK i \in 1 .. Len(requests[p]) : r = requests[p][i]
    BY DEF In
  <2>2. r.seq = c.seq => c.kind = "move"
    BY <1>6, <2>1 DEF CallOK, Asked
  <2>3. QED
    BY <1>1, <2>1, <2>2 DEF Underway
<1>7. ASSUME NEW a \in In(inbox[p]), a.kind = "answer", a.move # None
      PROVE  a.seq # c.seq
  <2>1. PICK i \in 1 .. Len(inbox[p]) : a = inbox[p][i]
    BY DEF In
  <2>2. a.seq = c.seq => c.kind = "move"
    BY <1>7, <2>1 DEF CallOK, Replied, Matched
  <2>3. QED
    BY <1>1, <1>7, <2>1, <2>2 DEF Underway
<1>8. QED
  BY <1>1, <1>3, <1>4, <1>5, <1>6, <1>7, FollowSettles

\* A step that leaves the page, but for what has been sent, and no message that matters.
LEMMA FollowRests ==
  ASSUME TypeOK, NEW p \in Colors, FollowOK(p), log' = log, over' = over,
         SameView(p), SameBoard(p),
         SameWork(p) \/ \E c \in page[p].calls : Sent(p, c),
         \A r \in In(requests'[p]) : r.kind = "move" => r \in In(requests[p]),
         \A m \in In(inbox'[p]) : m.kind = "answer" => m \in In(inbox[p]),
         \A m \in In(inbox[p]) : Matters(m) => m \in In(inbox'[p])
  PROVE  FollowOK(p)'
<1>1. /\ page'[p].where = page[p].where /\ page'[p].online = page[p].online
      /\ page'[p].board = page[p].board /\ page'[p].turn = page[p].turn
      /\ page'[p].held = page[p].held /\ page'[p].myTurn = page[p].myTurn
      /\ page'[p].jobs = page[p].jobs /\ page'[p].local = page[p].local
  BY DEF SameView, SameBoard, SameWork, Sent
<1>2. /\ \A d \in page'[p].calls : \E c \in page[p].calls :
            d.kind = c.kind /\ c.seq = d.seq /\ c.move = d.move
      /\ \A c \in page[p].calls : \E d \in page'[p].calls : d.kind = c.kind /\ d.seq = c.seq
  <2>1. CASE SameWork(p)
    BY <2>1 DEF SameWork
  <2>2. ASSUME NEW c \in page[p].calls, Sent(p, c)
        PROVE  <1>2!:
    <3> DEFINE e == [c EXCEPT !.sent = TRUE]
    <3>1. e.kind = c.kind /\ e.seq = c.seq /\ e.move = c.move
      BY PageFields DEF TypeOK, PageCalls
    <3>2. page'[p].calls = (page[p].calls \ {c}) \cup {e}
      BY <2>2 DEF Sent
    <3> HIDE DEF e
    <3>3. QED
      BY <3>1, <3>2
  <2>3. QED
    BY <2>1, <2>2
<1>3. Alone(p, {"move"})'
  BY AloneKept DEF FollowOK
<1>4. Placed(p)'
  <2>1. Without(p, {"move"}) => Without(p, {"move"})'
    BY <1>2 DEF Without
  <2>2. QED
    BY <1>1, <2>1 DEF FollowOK, Placed, WithoutJob
<1>5. Knows(p)'
  BY <1>1 DEF FollowOK, Knows, Shown
<1>6. /\ \A d \in page'[p].calls : d.kind = "move" =>
            \E c \in page[p].calls : c.kind = "move" /\ c.seq = d.seq /\ c.move = d.move
      /\ \A c \in page[p].calls : c.kind = "move" =>
            \E d \in page'[p].calls : d.kind = "move" /\ d.seq = c.seq
  BY <1>2
<1>7. /\ \A m \in In(inbox[p]) : m.move # None => m \in In(inbox'[p])
      /\ \A m \in In(inbox[p]) : m.kind = "game_end" => m \in In(inbox'[p])
  BY DEF Matters
<1>8. QED
  BY <1>1, <1>3, <1>4, <1>5, <1>6, <1>7, FollowStill

LEMMA FollowOwn ==
  ASSUME TypeOK, NEW p \in Colors, QueueOK(p), CallOK(p), JobsFit(p), LifeOK(p), FollowOK(p),
         log' = log, over' = over, Own(p), ~astray'[p]
  PROVE  FollowOK(p)'
<1>1. inbox[p] \in Seq(Messages) /\ requests[p] \in Seq(Requests)
  BY DEF TypeOK
<1>2. /\ Status("reconnecting") \in Messages /\ Status("reconnected") \in Messages
      /\ ~Matters(Status("reconnecting")) /\ ~Matters(Status("reconnected"))
      /\ Status("reconnecting").kind # "answer" /\ Status("reconnected").kind # "answer"
  BY MessageTypes DEF Status, Notice, Matters
<1>3. EndRequest \in Requests /\ EndRequest.kind = "end"
  BY DEF EndRequest, Request, Requests
<1>4. CASE Poll(p)
  <2>1. SameView(p) /\ SameBoard(p) /\ SameWork(p) /\ requests'[p] = requests[p]
        /\ inbox'[p] = inbox[p]
    BY <1>4, SmallFacts DEF Still, SameCalls, SameWork
  <2>2. QED
    BY <2>1, FollowRests
<1>5. ASSUME NEW c \in page[p].calls, SendReturns(p, c)
      PROVE  FollowOK(p)'
  <2>1. SameView(p) /\ SameBoard(p) /\ Sent(p, c) /\ requests'[p] = requests[p]
        /\ inbox'[p] = inbox[p]
    BY <1>5, SmallFacts DEF Sent
  <2>2. QED
    BY <2>1, FollowRests
<1>6. CASE Resign(p)
  <2>1. SameView(p) /\ SameBoard(p) /\ SameWork(p) /\ inbox'[p] = inbox[p]
        /\ (requests'[p] = requests[p] \/ requests'[p] = Append(requests[p], EndRequest))
    BY <1>6, SmallFacts DEF Still, SameCalls, SameWork
  <2>2. In(Append(requests[p], EndRequest)) = In(requests[p]) \cup {EndRequest}
    BY <1>1, <1>3, InFacts
  <2>3. \A r \in In(requests'[p]) : r.kind = "move" => r \in In(requests[p])
    BY <1>3, <2>1, <2>2
  <2>4. QED
    BY <2>1, <2>3, FollowRests
<1>7. CASE Lose(p)
  <2>1. PICK n \in 0 .. Len(inbox[p]) :
          /\ inbox'[p] = Append(SubSeq(inbox[p], 1, n), Status("reconnecting"))
          /\ \A i \in n + 1 .. Len(inbox[p]) : ~Matters(inbox[p][i])
    BY <1>7, SmallFacts
  <2>2. SameView(p) /\ SameBoard(p) /\ SameWork(p) /\ requests'[p] = <<>>
    BY <1>7, SmallFacts DEF SameView, SameBoard, SameWork
  <2>3. In(requests'[p]) = {}
    BY <2>2 DEF In
  <2>4. SubSeq(inbox[p], 1, n) \in Seq(Messages)
    BY <1>1
  <2>5. In(inbox'[p]) = In(SubSeq(inbox[p], 1, n)) \cup {Status("reconnecting")}
    <3> DEFINE t == SubSeq(inbox[p], 1, n)
               x == Status("reconnecting")
    <3>1. t \in Seq(Messages) /\ x \in Messages /\ inbox'[p] = Append(t, x)
      BY <1>2, <2>1, <2>4
    <3> HIDE DEF t, x
    <3>2. In(Append(t, x)) = In(t) \cup {x}
      BY <3>1, InFacts
    <3>3. QED
      BY <3>1, <3>2 DEF t, x
  <2>6. /\ In(SubSeq(inbox[p], 1, n)) \subseteq In(inbox[p])
        /\ \A m \in In(inbox[p]) :
             m \in In(SubSeq(inbox[p], 1, n)) \/ \E i \in n + 1 .. Len(inbox[p]) : m = inbox[p][i]
    BY <1>1, InFacts
  <2>7. /\ \A m \in In(inbox'[p]) : m.kind = "answer" => m \in In(inbox[p])
        /\ \A m \in In(inbox[p]) : Matters(m) => m \in In(inbox'[p])
    BY <1>2, <2>1, <2>5, <2>6
  <2>8. QED
    BY <2>2, <2>3, <2>7, FollowRests
<1>8. CASE Reconnect(p)
  <2>1. SameView(p) /\ SameBoard(p) /\ SameWork(p) /\ requests'[p] = requests[p]
        /\ inbox'[p] = Append(inbox[p], Status("reconnected"))
    BY <1>8, SmallFacts DEF SameView, SameBoard, SameWork
  <2>2. In(inbox'[p]) = In(inbox[p]) \cup {Status("reconnected")}
    BY <1>1, <1>2, <2>1, InFacts
  <2>3. QED
    BY <1>2, <2>1, <2>2, FollowRests
<1>9. ~Repick(p)
  BY SmallFacts
<1>10. CASE Click(p)
  BY <1>10, FollowClick
<1>11. ASSUME NEW c \in page[p].calls, TimeOut(p, c)
       PROVE  FollowOK(p)'
  BY <1>11, FollowTimeOut
<1>12. CASE ResignCancelled(p)
  <2>1. SameView(p) /\ SameBoard(p) /\ SameWork(p) /\ requests'[p] = requests[p]
        /\ inbox'[p] = inbox[p]
    BY <1>12, SmallFacts DEF Still, SameCalls, SameWork
  <2>2. QED
    BY <2>1, FollowRests
<1>13. ~ClickOffline(p)
  BY ClickOfflineFacts DEF Dabbles
<1>14. QED
  BY <1>4, <1>5, <1>6, <1>7, <1>8, <1>9, <1>10, <1>11, <1>12, <1>13, FollowHandle, FollowContinue DEF Own

\* The page rests; what it is told of covers what the server has done.
LEMMA FollowTold ==
  ASSUME TypeOK, NEW p \in Colors, QueueOK(p), FollowOK(p), page'[p] = page[p], Grows,
         \/ Len(log') = Len(log)
         \/ /\ Len(log') = Len(log) + 1
            /\ \E m \in In(inbox'[p]) : m.move # None /\ m.at = Len(log')
            /\ \A r \in In(requests'[p]) : r.kind # "move",
         \A r \in In(requests'[p]) : r \in In(requests[p]),
         \A m \in In(inbox[p]) : m \in In(inbox'[p]),
         \A m \in In(inbox'[p]) : m.kind = "answer" =>
            \/ m \in In(inbox[p])
            \/ /\ m.move # None => \E c \in page[p].calls : c.kind = "move" /\ c.seq = m.seq
               /\ ~m.ok => \A c \in page[p].calls : c.kind = "move" /\ c.seq = m.seq => m.mine,
         over' => over \/ \E m \in In(inbox'[p]) : m.kind = "game_end"
  PROVE  FollowOK(p)'
<1>1. Shown(p)' = Shown(p) /\ Shown(p) \in Nat /\ Len(log) \in Nat /\ Shown(p) =< Len(log)
  <2>1. Level(p) = Shown(p) + CountOwed(page[p].jobs) /\ Level(p) =< Len(log)
    BY LevelShown DEF Shown, QueueOK, Room
  <2>2. Shown(p) \in Nat /\ CountOwed(page[p].jobs) \in Nat /\ Len(log) \in Nat
    BY LevelType DEF Shown
  <2>3. Shown(p) =< Len(log)
    BY <2>1, <2>2
  <2>4. QED
    BY <2>2, <2>3 DEF Shown
<1>2. Placed(p)'
  BY DEF FollowOK, Placed, Without, WithoutJob
<1>3. Prefix(p)'
  <2>1. \A k \in 1 .. Shown(p) : k \in 1 .. Len(log)
    BY <1>1
  <2>2. QED
    BY <1>1, <2>1 DEF FollowOK, Prefix, Grows
<1>4. Covered(p)'
  <2>1. SUFFICES ASSUME NEW k \in Shown(p) + 1 .. Len(log')
                 PROVE  (OwedAt(p, k) \/ SentAt(p, k))'
    BY <1>1 DEF Covered
  <2>2. CASE k \in Shown(p) + 1 .. Len(log)
    <3>1. OwedAt(p, k) \/ SentAt(p, k)
      BY <2>2 DEF FollowOK, Covered
    <3>2. QED
      BY <3>1 DEF OwedAt, SentAt
  <2>3. CASE k \notin Shown(p) + 1 .. Len(log)
    <3>1. k = Len(log') /\ Len(log') = Len(log) + 1
      BY <1>1, <2>3
    <3>2. QED
      BY <1>1, <3>1 DEF SentAt
  <2>4. QED
    BY <2>2, <2>3
<1>5. Due(p)' /\ Turned(p)' /\ Knows(p)'
  BY <1>1 DEF FollowOK, Due, Turned, Knows
<1>6. Warned(p)'
  BY DEF FollowOK, Warned
<1>7. Alone(p, {"move"})'
  BY DEF FollowOK, Alone
<1>8. Intends(p)'
  BY <1>1 DEF FollowOK, Intends
<1>9. AsksNext(p)'
  BY <1>1 DEF FollowOK, AsksNext
<1>10. Hears(p)'
  BY DEF FollowOK, Hears
<1>11. Rejoined(p)'
  BY <1>1 DEF FollowOK, Rejoined
<1>12. QED
  BY <1>2, <1>3, <1>4, <1>5, <1>6, <1>7, <1>8, <1>9, <1>10, <1>11 DEF FollowOK

\* Who is told of the end, and of nothing else.
LEMMA FollowSwept ==
  ASSUME TypeOK, NEW p \in Colors, QueueOK(p), FollowOK(p), Swept, ~astray'[p]
  PROVE  FollowOK(p)'
<1> DEFINE g == GameEnd
<1>1. g \in Messages /\ g.kind = "game_end"
  BY MessageTypes DEF GameEnd, Notice
<1>2. log' = log /\ page' = page /\ requests' = requests /\ inbox'[p] = Append(inbox[p], g)
  BY DEF Swept
<1> HIDE DEF g
<1>3. In(inbox'[p]) = In(inbox[p]) \cup {g}
  <2>1. inbox[p] \in Seq(Messages)
    BY DEF TypeOK
  <2>2. QED
    BY <1>1, <1>2, <2>1, InFacts
<1>4. Grows
  <2>1. Len(log) \in Nat
    BY LevelType
  <2>2. QED
    BY <1>2, <2>1 DEF Grows, Swept
<1>5. QED
  BY <1>1, <1>2, <1>3, <1>4, FollowTold

LEMMA FollowServe ==
  ASSUME TypeOK, NEW p \in Colors, NEW s \in Colors, QueueOK(p), CallOK(p), FollowOK(p),
         Serve(s), ~astray'[p]
  PROVE  FollowOK(p)'
<1> DEFINE r == Head(requests[s])
           n == Len(log)
<1>1. /\ requests[s] # <<>> /\ r \in Requests /\ requests'[s] = Tail(requests[s])
      /\ page' = page /\ (s # p => requests'[p] = requests[p])
      /\ Answers(s, r) \/ Takes(s, r) \/ Closes(s, r)
  BY ServeFacts
<1>2. Grows
  BY ServeGrows
<1>3. /\ n \in Nat /\ n + 1 \in Nat /\ r.seq \in Nat /\ log \in Seq(Moves)
      /\ inbox[p] \in Seq(Messages) /\ requests[s] \in Seq(Requests)
  <2>1. r.seq \in Nat
    BY <1>1 DEF Requests
  <2>2. QED
    BY <2>1, LevelType DEF TypeOK
<1>4. \A m \in Messages : inbox'[p] = Append(inbox[p], m) => In(inbox'[p]) = In(inbox[p]) \cup {m}
  BY <1>3, InFacts
<1>5. In(requests[s]) = {r} \cup In(requests'[s])
  BY <1>1, <1>3, InFacts
<1>6. \A x \in In(requests'[p]) : x \in In(requests[p])
  BY <1>1, <1>5
<1>7. 1 \in 1 .. Len(requests[s]) /\ r = requests[s][1]
  BY <1>1, <1>3
<1> HIDE DEF r, n
<1>8. ASSUME s = p, r.kind # "end", NEW c \in page[p].calls, c.seq = r.seq
      PROVE  c.kind = r.kind
  BY <1>7, <1>8 DEF CallOK, Asked
<1>9. ASSUME s = p, r.kind = "move"
      PROVE  /\ Shown(p) = n
             /\ \E c \in page[p].calls : c.kind = "move" /\ c.seq = r.seq
  BY <1>5, <1>9 DEF FollowOK, AsksNext, n
<1>10. CASE Answers(s, r)
  <2>1. PICK ok \in BOOLEAN, mine \in BOOLEAN :
          /\ r.kind # "end"
          /\ r.kind = "move" => mine = (Awaited = s)
          /\ inbox'[s] = Append(inbox[s], Answer(r.seq, ok, None, mine, n))
          /\ \A q \in Colors \ {s} : inbox'[q] = inbox[q]
          /\ log' = log /\ over' = over
    BY <1>10 DEF Answers, n
  <2>2. CASE s # p
    BY <1>1, <1>2, <1>6, <2>1, <2>2, FollowTold
  <2>3. CASE s = p
    <3> DEFINE m == Answer(r.seq, ok, None, mine, n)
    <3>1. m \in Messages
      BY <1>3, MessageTypes
    <3>2. m.seq = r.seq /\ m.move = None /\ m.mine = mine
      BY DEF Answer
    <3> HIDE DEF m
    <3>3. In(inbox'[p]) = In(inbox[p]) \cup {m}
      BY <1>4, <2>1, <2>3, <3>1 DEF m
    <3>4. ASSUME NEW c \in page[p].calls, c.kind = "move", c.seq = m.seq
          PROVE  m.mine
      <4>1. r.kind = "move"
        BY <1>8, <2>1, <2>3, <3>2, <3>4
      <4>2. Shown(p) = n /\ Mover(Shown(p)) = p
        BY <1>9, <2>3, <3>4, <4>1 DEF FollowOK, Intends
      <4>3. QED
        BY <2>1, <2>3, <3>2, <4>1, <4>2 DEF Awaited, n
    <3>5. QED
      BY <1>1, <1>2, <1>6, <2>1, <3>2, <3>3, <3>4, FollowTold
  <2>4. QED
    BY <2>2, <2>3
<1>11. CASE Takes(s, r)
  <2>1. /\ r.kind = "move" /\ r.move \in Moves /\ Awaited = s /\ over' = over
        /\ log' = Append(log, r.move)
        /\ inbox'[s] = Append(inbox[s], Answer(r.seq, TRUE, r.move, FALSE, n + 1))
        /\ s # p => inbox'[p] = Append(inbox[p], OpponentMove(r.move, n + 1))
    BY <1>11 DEF Takes, n
  <2>2. Len(log') = n + 1 /\ Len(log') = Len(log) + 1 /\ r.move # None
    BY <1>3, <2>1, PlayAssumption DEF n
  <2>3. CASE s # p
    <3> DEFINE m == OpponentMove(r.move, n + 1)
    <3>1. m \in Messages
      BY <1>3, <2>1, MessageTypes
    <3>2. m.kind # "answer" /\ m.move # None /\ m.at = n + 1
      BY <2>2 DEF OpponentMove, Notice
    <3>3. inbox'[p] = Append(inbox[p], m)
      BY <2>1, <2>3
    <3> HIDE DEF m
    <3>4. In(inbox'[p]) = In(inbox[p]) \cup {m}
      BY <1>4, <3>1, <3>3
    <3>5. ASSUME NEW x \in In(requests'[p])
          PROVE  x.kind # "move"
      <4>1. SUFFICES ASSUME x.kind = "move" PROVE FALSE
        OBVIOUS
      <4>2. Shown(p) = Len(log) /\ Mover(Shown(p)) = p
        BY <1>6, <4>1 DEF FollowOK, AsksNext, Intends
      <4>3. QED
        BY <2>1, <2>3, <4>2 DEF Awaited
    <3>6. QED
      BY <1>1, <1>2, <1>6, <2>1, <2>2, <3>2, <3>4, <3>5, FollowTold
  <2>4. CASE s = p
    <3> DEFINE m == Answer(r.seq, TRUE, r.move, FALSE, n + 1)
    <3>1. m \in Messages
      BY <1>3, <2>1, MessageTypes
    <3>2. m.seq = r.seq /\ m.move = r.move /\ m.ok = TRUE /\ m.at = n + 1
      BY DEF Answer
    <3>3. inbox'[p] = Append(inbox[p], m)
      BY <2>1, <2>4
    <3> HIDE DEF m
    <3>4. In(inbox'[p]) = In(inbox[p]) \cup {m}
      BY <1>4, <3>1, <3>3
    <3>5. ASSUME NEW x \in In(requests'[p])
          PROVE  x.kind # "move"
      <4>1. SUFFICES ASSUME x.kind = "move" PROVE FALSE
        OBVIOUS
      <4>2. PICK i \in 1 .. Len(requests'[p]) : x = requests'[p][i]
        BY DEF In
      <4>3. i + 1 \in 1 .. Len(requests[p]) /\ 1 < i + 1 /\ requests'[p][i] = requests[p][i + 1]
        <5> DEFINE t == Tail(requests[p])
        <5>1. requests[p] \in Seq(Requests) /\ requests[p] # <<>> /\ requests'[p] = t
          BY <1>1, <1>3, <2>4
        <5>2. Len(t) = Len(requests[p]) - 1 /\ \A h \in 1 .. Len(t) : t[h] = requests[p][h + 1]
          BY <5>1
        <5>3. Len(requests[p]) \in Nat
          BY <5>1
        <5> HIDE DEF t
        <5>4. i \in 1 .. Len(requests[p]) - 1
          BY <4>2, <5>1, <5>2
        <5>5. QED
          BY <4>2, <5>1, <5>2, <5>3, <5>4
      <4>4. x.seq # r.seq
        BY <1>7, <2>1, <2>4, <4>1, <4>2, <4>3 DEF CallOK, Once
      <4>5. PICK d \in page[p].calls : d.kind = "move" /\ d.seq = x.seq
        BY <1>6, <4>1 DEF FollowOK, AsksNext
      <4>6. PICK c \in page[p].calls : c.kind = "move" /\ c.seq = r.seq
        BY <1>9, <2>1, <2>4
      <4>7. c = d
        BY <4>5, <4>6 DEF FollowOK, Alone
      <4>8. QED
        BY <4>4, <4>5, <4>6, <4>7
    <3>6. \E c \in page[p].calls : c.kind = "move" /\ c.seq = m.seq
      BY <1>9, <2>1, <2>4, <3>2
    <3>7. QED
      BY <1>1, <1>2, <1>6, <2>1, <2>2, <3>2, <3>4, <3>5, <3>6, FollowTold
  <2>5. QED
    BY <2>3, <2>4
<1>12. CASE Closes(s, r)
  <2> DEFINE g == GameEnd
  <2>1. g \in Messages /\ g.kind = "game_end"
    BY MessageTypes DEF GameEnd, Notice
  <2>2. /\ log' = log
        /\ (over /\ inbox'[p] = inbox[p]) \/ inbox'[p] = Append(inbox[p], g)
    BY <1>12 DEF Closes
  <2> HIDE DEF g
  <2>3. (over /\ In(inbox'[p]) = In(inbox[p])) \/ In(inbox'[p]) = In(inbox[p]) \cup {g}
    BY <1>4, <2>1, <2>2
  <2>4. Len(log') = Len(log)
    BY <2>2
  <2>5. QED
    BY <1>1, <1>2, <1>6, <2>1, <2>3, <2>4, FollowTold
<1>13. QED
  BY <1>1, <1>10, <1>11, <1>12

\* A page that has gone astray stays astray.
LEMMA StrayForGood ==
  ASSUME TypeOK, [Next]_vars, NEW p \in Colors, astray[p]
  PROVE  astray'[p]
<1>1. CASE Passes \/ Swept
  BY <1>1 DEF Passes, Swept
<1>2. ASSUME NEW s \in Colors, Serve(s)
      PROVE  astray'[p]
  <2> DEFINE r == Head(requests[s])
  <2>1. Answers(s, r) \/ Takes(s, r) \/ Closes(s, r)
    BY <1>2, ServeFacts
  <2> HIDE DEF r
  <2>2. QED
    BY <2>1 DEF Answers, Takes, Closes
<1>3. ASSUME NEW s \in Colors, Own(s), s # p
      PROVE  astray'[p]
  BY <1>3, OthersRest DEF Rests
<1>4. CASE Own(p)
  <2>1. CASE Handle(p)
    <3> DEFINE m == Head(inbox[p])
    <3>1. \/ Resolves(p, m) \/ Misses(p, m) \/ Gropes(p, m) \/ Follows(p, m) \/ Stops(p, m)
          \/ Waits(p, m) \/ Returns(p, m)
      BY <2>1, HandleFacts
    <3> HIDE DEF m
    <3>2. QED
      BY <3>1 DEF Resolves, Misses, Gropes, Follows, Stops, Waits, Returns
  <2>2. CASE Continue(p)
    BY <2>2, ContinueFacts DEF Quits
  <2>3. CASE Poll(p) \/ Repick(p) \/ Resign(p) \/ ResignCancelled(p) \/ Lose(p) \/ Reconnect(p)
    BY <2>3, SmallFacts
  <2>4. CASE Click(p) \/ ClickOffline(p)
    BY <2>4, ClickFacts, ClickOfflineFacts DEF Dabbles
  <2>5. ASSUME NEW c \in page[p].calls, SendReturns(p, c) \/ TimeOut(p, c)
        PROVE  astray'[p]
    BY <2>5, SmallFacts, TimeOutFacts
  <2>6. QED
    BY <1>4, <2>1, <2>2, <2>3, <2>4, <2>5 DEF Own
<1>5. QED
  BY <1>1, <1>2, <1>3, <1>4, NextFacts

LEMMA RestsFollow ==
  ASSUME NEW q \in Colors, FollowOK(q), Rests(q)
  PROVE  FollowOK(q)'
<1>1. page'[q] = page[q] /\ requests'[q] = requests[q] /\ inbox'[q] = inbox[q]
      /\ log' = log /\ over' = over
  BY DEF Rests
<1>2. Shown(q)' = Shown(q)
  BY <1>1 DEF Shown
<1>3. Placed(q)' /\ Prefix(q)' /\ Due(q)' /\ Turned(q)' /\ Knows(q)' /\ Warned(q)'
  BY <1>1, <1>2 DEF FollowOK, Placed, Without, WithoutJob, Prefix, Due, Turned, Knows, Warned
<1>4. Covered(q)'
  BY <1>1, <1>2 DEF FollowOK, Covered, OwedAt, SentAt
<1>5. Alone(q, {"move"})' /\ Intends(q)' /\ AsksNext(q)' /\ Hears(q)'
  BY <1>1, <1>2 DEF FollowOK, Alone, Intends, AsksNext, Hears
<1>6. Rejoined(q)'
  BY <1>1, <1>2 DEF FollowOK, Rejoined
<1>7. QED
  BY <1>3, <1>4, <1>5, <1>6 DEF FollowOK

\* A page logs in and joins in time, and follows the game while it is not astray.
FollowsOK == \A p \in Colors : LifeOK(p) /\ (~astray[p] => FollowOK(p))

LEMMA InitFollows == Init => FollowsOK
<1> SUFFICES ASSUME Init, NEW p \in Colors
             PROVE  LifeOK(p) /\ FollowOK(p)
  BY DEF FollowsOK
<1>1. /\ log = <<>> /\ over = FALSE /\ inbox[p] = <<>> /\ page[p].board = <<>>
      /\ page[p].jobs = <<>> /\ page[p].turn = "red" /\ page[p].myTurn = (p = "red")
      /\ page[p].local = 0
      /\ \/ /\ page[p].where = "loading" /\ requests[p] = <<Request("login", None, 1)>>
            /\ page[p].calls = {PageCall(1, "login", None, TRUE)}
         \/ page[p].where = "playing" /\ requests[p] = <<>> /\ page[p].calls = {}
  BY InitFacts
<1>2. PageCall(1, "login", None, TRUE).kind = "login" /\ Request("login", None, 1).kind = "login"
  BY DEF PageCall, Request
<1>3. /\ \A c \in page[p].calls : c.kind = "login" /\ page[p].where = "loading"
      /\ \A c, d \in page[p].calls : c = d
  BY <1>1, <1>2
<1>4. Len(page[p].jobs) = 0 /\ Len(log) = 0 /\ Shown(p) = 0 /\ In(inbox[p]) = {}
  BY <1>1 DEF Shown, In
<1>5. LifeOK(p)
  BY <1>1, <1>3, <1>4 DEF LifeOK, Staged, Stage, Alone
<1>6. Placed(p) /\ Alone(p, {"move"})
  <2>1. Without(p, {"move"})
    BY <1>3 DEF Without
  <2>2. \A i \in 1 .. Len(page[p].jobs) : FALSE
    BY <1>4
  <2>3. WithoutJob(p, {"move"})
    BY <2>2 DEF WithoutJob
  <2>4. Alone(p, {"move"})
    BY <1>3, <2>2 DEF Alone
  <2>5. QED
    BY <1>1, <2>1, <2>3, <2>4 DEF Placed
<1>7. Prefix(p) /\ Covered(p) /\ Due(p) /\ Turned(p) /\ Warned(p)
  BY <1>1, <1>4 DEF Prefix, Covered, Due, Turned, Warned
<1>8. Knows(p)
  <2>1. 0 % 2 = 0
    OBVIOUS
  <2>2. Mover(0) = "red"
    BY <2>1 DEF Mover
  <2>3. QED
    BY <1>1, <1>4, <2>2 DEF Knows
<1>9. Intends(p) /\ Hears(p) /\ Rejoined(p)
  BY <1>3, <1>4 DEF Intends, Hears, Rejoined
<1>10. AsksNext(p)
  <2>1. \A x : Len(<<x>>) = 1 /\ <<x>>[1] = x
    OBVIOUS
  <2>2. \A r \in In(requests[p]) : r.kind = "login"
    <3> DEFINE x == Request("login", None, 1)
    <3>1. x.kind = "login"
      BY <1>2
    <3>2. requests[p] = <<>> \/ requests[p] = <<x>>
      BY <1>1
    <3> HIDE DEF x
    <3>3. \A i \in 1 .. Len(requests[p]) : requests[p][i] = x
      BY <2>1, <3>2
    <3>4. QED
      BY <3>1, <3>3 DEF In
  <2>3. QED
    BY <2>2 DEF AsksNext
<1>11. QED
  BY <1>5, <1>6, <1>7, <1>8, <1>9, <1>10 DEF FollowOK

LEMMA NextFollows == TypeOK /\ QueuesOK /\ FollowsOK /\ [Next]_vars => FollowsOK'
<1> SUFFICES ASSUME TypeOK, QueuesOK, FollowsOK, [Next]_vars, NEW q \in Colors
             PROVE  LifeOK(q)' /\ (~astray'[q] => FollowOK(q)')
  BY DEF FollowsOK
<1>1. QueueOK(q) /\ CallOK(q) /\ JobsFit(q) /\ LifeOK(q)
  BY DEF QueuesOK, FollowsOK
<1>2. ~astray'[q] => FollowOK(q)
  BY StrayForGood DEF FollowsOK
<1>3. page'[q] = page[q] => LifeOK(q)'
  BY <1>1 DEF LifeOK, Staged, Alone
<1>4. CASE Passes
  <2>1. Rests(q)
    BY <1>4 DEF Passes, Rests
  <2>2. QED
    BY <1>2, <1>3, <2>1, RestsFollow DEF Rests
<1>5. ASSUME NEW p \in Colors, Serve(p)
      PROVE  LifeOK(q)' /\ (~astray'[q] => FollowOK(q)')
  BY <1>1, <1>2, <1>3, <1>5, ServeFacts, FollowServe
<1>6. ASSUME NEW p \in Colors, Own(p), q # p
      PROVE  LifeOK(q)' /\ (~astray'[q] => FollowOK(q)')
  <2>1. Rests(q)
    BY <1>6, OthersRest
  <2>2. QED
    BY <1>2, <1>3, <2>1, RestsFollow DEF Rests
<1>7. CASE Own(q)
  <2>1. log' = log /\ over' = over
    <3>1. PICK r \in Colors : r # q
      BY ColorFacts
    <3>2. QED
      BY <1>7, <3>1, OthersRest
  <2>2. QED
    BY <1>1, <1>2, <1>7, <2>1, LifeOwn, FollowOwn
<1>8. CASE Swept
  <2>1. page'[q] = page[q]
    BY <1>8 DEF Swept
  <2>2. QED
    BY <1>1, <1>2, <1>3, <1>8, <2>1, FollowSwept
<1>9. QED
  BY <1>4, <1>5, <1>6, <1>7, <1>8, NextFacts

\* A page that has not gone astray shows the first moves of the game, the others are on their
\* way to it in order, it asks for a move only when all are shown and the move is its own, and
\* it knows whose turn it is on the board that it shows.
THEOREM FollowsTheorem == Spec => []FollowsOK
<1>1. Init => FollowsOK
  BY InitFollows
<1>2. TypeOK /\ QueuesOK /\ FollowsOK /\ [Next]_vars => FollowsOK'
  BY NextFollows
<1>3. QED
  BY <1>1, <1>2, TypeTheorem, QueuesTheorem, PTL DEF Spec

\* A page that is not astray shows the server's game up to the moves that are on their way to
\* it, each once and in order: QueuesOK says of the messages and of the code that awaits them
\* that their moves are those of the game, later than the board and in order; FollowsOK that
\* none of the moves is missing.
THEOREM BoardsAgreeTheorem == Spec => []BoardsAgree
<1>1. TypeOK /\ QueuesOK /\ FollowsOK => BoardsAgree
  <2> SUFFICES ASSUME TypeOK, QueuesOK, FollowsOK, NEW p \in Colors, ~astray[p]
               PROVE  LET shown == Len(page[p].board) IN
                      /\ page[p].board = SubSeq(log, 1, shown)
                      /\ Coming(p) = shown + 1 .. Len(log)
                      /\ \A i \in OwedJobs(p) :
                           LET j == page[p].jobs[i] IN j.at = shown + 1 /\ j.call.move = log[j.at]
                      /\ \A i \in Carriers(p) :
                           /\ inbox[p][i].move = log[inbox[p][i].at]
                           /\ \A h \in Carriers(p) : h < i => inbox[p][h].at < inbox[p][i].at
                           /\ \A h \in OwedJobs(p) : page[p].jobs[h].at < inbox[p][i].at
    BY DEF BoardsAgree
  <2> DEFINE b == Shown(p)
             n == Len(log)
  <2>1. QueueOK(p) /\ JobsFit(p) /\ FollowOK(p)
    BY DEF QueuesOK, FollowsOK
  <2>2. b \in Nat /\ n \in Nat /\ Level(p) \in Nat /\ b =< Level(p) /\ Level(p) =< n
    <3>1. Level(p) = b + CountOwed(page[p].jobs)
      BY <2>1, LevelShown DEF Shown
    <3>2. b \in Nat /\ n \in Nat /\ Level(p) \in Nat /\ CountOwed(page[p].jobs) \in Nat
      BY LevelType DEF Shown
    <3>3. b =< Level(p)
      BY <3>1, <3>2
    <3>4. QED
      BY <2>1, <3>2, <3>3 DEF QueueOK, Room
  <2> HIDE DEF b, n
  <2>3. page[p].board = SubSeq(log, 1, b)
    BY <2>1, <2>2, BoardIsPrefix DEF FollowOK, b, n
  <2>4. ASSUME NEW i \in OwedJobs(p)
        PROVE  LET j == page[p].jobs[i] IN
               /\ i \in 1 .. Len(page[p].jobs) /\ Owed(j) /\ j.at \in Nat
               /\ j.at = b + 1 /\ j.at =< n /\ j.call.move = log[j.at]
    <3>1. i \in 1 .. Len(page[p].jobs) /\ Owed(page[p].jobs[i])
      BY DEF OwedJobs
    <3>2. page[p].jobs[i].at = b + 1
      BY <2>1, <3>1 DEF FollowOK, Due, b
    <3>3. page[p].jobs[i].at \in 1 .. n /\ page[p].jobs[i].call.move = log[page[p].jobs[i].at]
      BY <2>1, <3>1 DEF JobsFit, JobFit, n
    <3>4. QED
      BY <2>2, <3>1, <3>2, <3>3
  <2>5. ASSUME NEW i \in Carriers(p)
        PROVE  LET m == inbox[p][i] IN
               /\ i \in 1 .. Len(inbox[p]) /\ m.move # None /\ Timed(m) /\ m.at \in Nat
               /\ b < m.at /\ m.at =< n /\ m.move = log[m.at]
    <3>1. i \in 1 .. Len(inbox[p]) /\ inbox[p][i].move # None /\ inbox[p][i].at \in Nat
      BY LevelType DEF Carriers
    <3>2. /\ Level(p) < inbox[p][i].at /\ inbox[p][i].at =< n
          /\ log[inbox[p][i].at] = inbox[p][i].move
      BY <2>1, <3>1 DEF QueueOK, Timely, Dated, Timed, n
    <3>3. b < inbox[p][i].at
      BY <2>2, <3>1, <3>2
    <3>4. QED
      BY <3>1, <3>2, <3>3 DEF Timed
  <2>6. Coming(p) = b + 1 .. n
    <3>1. ASSUME NEW k \in Coming(p)
          PROVE  k \in b + 1 .. n
      <4>1. CASE \E i \in OwedJobs(p) : k = page[p].jobs[i].at
        <5>1. PICK i \in OwedJobs(p) : k = page[p].jobs[i].at
          BY <4>1
        <5>2. k \in Nat /\ k = b + 1 /\ k =< n
          BY <2>4, <5>1
        <5>3. QED
          BY <2>2, <5>2
      <4>2. CASE \E i \in Carriers(p) : k = inbox[p][i].at
        BY <2>2, <2>5, <4>2
      <4>3. QED
        BY <4>1, <4>2 DEF Coming
    <3>2. ASSUME NEW k \in b + 1 .. n
          PROVE  k \in Coming(p)
      <4>1. OwedAt(p, k) \/ SentAt(p, k)
        BY <2>1 DEF FollowOK, Covered, b, n
      <4>2. CASE OwedAt(p, k)
        BY <4>2 DEF OwedAt, Coming, OwedJobs
      <4>3. CASE SentAt(p, k)
        BY <4>3 DEF SentAt, In, Coming, Carriers
      <4>4. QED
        BY <4>1, <4>2, <4>3
    <3>3. QED
      BY <3>1, <3>2
  <2>7. ASSUME NEW i \in Carriers(p), NEW h \in Carriers(p), h < i
        PROVE  inbox[p][h].at < inbox[p][i].at
    <3>1. /\ h \in 1 .. Len(inbox[p]) /\ i \in 1 .. Len(inbox[p]) /\ inbox[p][i].move # None
          /\ Timed(inbox[p][h])
      BY <2>5
    <3>2. QED
      BY <2>1, <2>7, <3>1 DEF QueueOK, Ordered, Before
  <2>8. ASSUME NEW i \in Carriers(p), NEW h \in OwedJobs(p)
        PROVE  page[p].jobs[h].at < inbox[p][i].at
    BY <2>1, <2>4, <2>5 DEF QueueOK, Ahead
  <2>9. QED
    BY <2>3, <2>4, <2>5, <2>6, <2>7, <2>8 DEF b, n, Shown
<1>2. QED
  BY <1>1, TypeTheorem, QueuesTheorem, FollowsTheorem, PTL

(***************************************************************************)
(* The colours of the game: those who follow it move in turn.              *)
(***************************************************************************)
ColoursOK == (\A q \in Colors : ~astray[q]) => \A k \in 1 .. Len(log) : log[k].color = Mover(k - 1)

LEMMA MoverTurns == \A n \in Nat : Other(Mover(n)) = Mover(n + 1) /\ Mover(0) = "red"
<1>1. \A n \in Nat : n % 2 = 0 <=> (n + 1) % 2 # 0
  OBVIOUS
<1>2. 0 % 2 = 0
  OBVIOUS
<1>3. QED
  BY <1>1, <1>2 DEF Mover, Other

LEMMA ShownBounds ==
  ASSUME TypeOK, NEW p \in Colors, QueueOK(p), FollowOK(p)
  PROVE  Shown(p) \in Nat /\ Len(log) \in Nat /\ Shown(p) =< Len(log)
<1>1. Level(p) = Shown(p) + CountOwed(page[p].jobs) /\ Level(p) =< Len(log)
  BY LevelShown DEF Shown, QueueOK, Room
<1>2. Shown(p) \in Nat /\ Len(log) \in Nat /\ CountOwed(page[p].jobs) \in Nat
  BY LevelType DEF Shown
<1>3. QED
  BY <1>1, <1>2

\* The board that shows n moves lets the pieces be picked of the colour that moves after them.
LEMMA TurnShown ==
  ASSUME TypeOK, NEW p \in Colors, QueueOK(p), FollowOK(p), ColoursOK,
         \A q \in Colors : ~astray[q]
  PROVE  page[p].turn = Mover(Shown(p))
<1>1. Shown(p) \in Nat /\ Len(log) \in Nat /\ Shown(p) =< Len(log)
  BY ShownBounds
<1>2. CASE Shown(p) = 0
  BY <1>2, MoverTurns DEF FollowOK, Turned
<1>3. CASE Shown(p) # 0
  <2>1. Shown(p) \in 1 .. Shown(p) /\ Shown(p) \in 1 .. Len(log) /\ Shown(p) - 1 \in Nat
        /\ (Shown(p) - 1) + 1 = Shown(p)
    BY <1>1, <1>3
  <2>2. page[p].board[Shown(p)] = log[Shown(p)]
    BY <2>1 DEF FollowOK, Prefix
  <2>3. log[Shown(p)].color = Mover(Shown(p) - 1)
    BY <2>1 DEF ColoursOK
  <2>4. Other(Mover(Shown(p) - 1)) = Mover(Shown(p))
    BY <2>1, MoverTurns
  <2>5. QED
    BY <1>3, <2>2, <2>3, <2>4 DEF FollowOK, Turned
<1>4. QED
  BY <1>2, <1>3

\* A request whose move is taken comes from a page that shows the whole game.
LEMMA TakenMove ==
  ASSUME TypeOK, NEW p \in Colors, QueueOK(p), CallOK(p), FollowOK(p), Serve(p),
         Takes(p, Head(requests[p]))
  PROVE  LET m == Head(requests[p]).move IN
         /\ page[p].board = log /\ m \in Moves /\ log' = Append(log, m)
         /\ ColoursOK /\ (\A q \in Colors : ~astray[q]) => m.color = Mover(Len(log))
<1> DEFINE r == Head(requests[p])
<1>1. /\ r.kind = "move" /\ r.move \in Moves /\ log' = Append(log, r.move)
      /\ requests[p] # <<>> /\ r \in Requests
  BY ServeFacts DEF Takes
<1>2. 1 \in 1 .. Len(requests[p]) /\ r = requests[p][1]
  <2>1. requests[p] \in Seq(Requests)
    BY DEF TypeOK
  <2>2. QED
    BY <1>1, <2>1
<1> HIDE DEF r
<1>3. r \in In(requests[p])
  BY <1>2 DEF In
<1>4. Shown(p) = Len(log)
  BY <1>1, <1>3 DEF FollowOK, AsksNext
<1>5. PICK c \in page[p].calls : c.kind = "move" /\ c.seq = r.seq
  BY <1>1, <1>3 DEF FollowOK, AsksNext
<1>6. c.move = r.move
  BY <1>1, <1>2, <1>5 DEF CallOK, Asked
<1>7. c.move.color = page[p].turn
  BY <1>5 DEF FollowOK, Intends
<1>8. page[p].board = log
  <2>1. Shown(p) =< Len(log)
    BY ShownBounds
  <2>2. page[p].board = SubSeq(log, 1, Len(log))
    BY <1>4, <2>1, BoardIsPrefix DEF FollowOK
  <2>3. log \in Seq(Moves)
    BY DEF TypeOK
  <2>4. \A s \in Seq(Moves) : SubSeq(s, 1, Len(s)) = s
    OBVIOUS
  <2>5. QED
    BY <2>2, <2>3, <2>4
<1>9. ASSUME ColoursOK, \A q \in Colors : ~astray[q]
      PROVE  r.move.color = Mover(Len(log))
  BY <1>4, <1>6, <1>7, <1>9, TurnShown
<1>10. QED
  BY <1>1, <1>8, <1>9 DEF r

LEMMA NextColours == TypeOK /\ QueuesOK /\ FollowsOK /\ ColoursOK /\ [Next]_vars => ColoursOK'
<1> SUFFICES ASSUME TypeOK, QueuesOK, FollowsOK, ColoursOK, [Next]_vars,
                    \A q \in Colors : ~astray'[q]
             PROVE  \A k \in 1 .. Len(log') : log'[k].color = Mover(k - 1)
  BY DEF ColoursOK, Mover
<1>1. \A q \in Colors : ~astray[q]
  BY StrayForGood
<1>2. \A k \in 1 .. Len(log) : log[k].color = Mover(k - 1)
  BY <1>1 DEF ColoursOK
<1>3. log' = log \/ \E p \in Colors : Serve(p) /\ Takes(p, Head(requests[p]))
  <2>1. ASSUME NEW p \in Colors, Own(p)
        PROVE  log' = log
    <3>1. PICK r \in Colors : r # p
      BY ColorFacts
    <3>2. QED
      BY <2>1, <3>1, OthersRest
  <2>2. ASSUME NEW p \in Colors, Serve(p)
        PROVE  log' = log \/ Takes(p, Head(requests[p]))
    <3> DEFINE r == Head(requests[p])
    <3>1. Answers(p, r) \/ Takes(p, r) \/ Closes(p, r)
      BY <2>2, ServeFacts
    <3>2. Answers(p, r) \/ Closes(p, r) => log' = log
      BY DEF Answers, Closes
    <3>3. QED
      BY <3>1, <3>2
  <2>3. QED
    BY <2>1, <2>2, NextFacts DEF Passes, Swept
<1>4. ASSUME NEW p \in Colors, Serve(p), Takes(p, Head(requests[p])),
             NEW k \in 1 .. Len(log')
      PROVE  log'[k].color = Mover(k - 1)
  <2> DEFINE m == Head(requests[p]).move
             n == Len(log)
  <2>1. m \in Moves /\ log' = Append(log, m) /\ m.color = Mover(n)
    BY <1>1, <1>4, TakenMove DEF QueuesOK, FollowsOK
  <2>2. log \in Seq(Moves) /\ n \in Nat
    BY DEF TypeOK
  <2> HIDE DEF m
  <2>3. /\ Len(log') = n + 1 /\ log'[n + 1] = m
        /\ \A i \in 1 .. n : log'[i] = log[i]
    BY <2>1, <2>2
  <2>4. k \in 1 .. n \/ (k = n + 1 /\ k - 1 = n)
    BY <2>2, <2>3
  <2>5. QED
    BY <1>2, <2>1, <2>3, <2>4
<1>5. QED
  BY <1>2, <1>3, <1>4

\* As long as both pages follow the game the two colours move in turn, although the server
\* does not look at the colour of a piece.
THEOREM ColoursTheorem == Spec => []ColoursOK
<1>1. Init => ColoursOK
  BY DEF Init, ColoursOK
<1>2. TypeOK /\ QueuesOK /\ FollowsOK /\ ColoursOK /\ [Next]_vars => ColoursOK'
  BY NextColours
<1>3. QED
  BY <1>1, <1>2, TypeTheorem, QueuesTheorem, FollowsTheorem, PTL DEF Spec

\* The server takes a move only from somebody whose board shows all moves so far, and of his
\* own colour if nobody is astray.
THEOREM BlindTheorem == Spec => NobodyMovesBlind
<1> DEFINE Sees == \A p \in Colors : log' # log /\ Awaited = p /\ ~astray[p] =>
                     /\ page[p].board = log
                     /\ (\A q \in Colors : ~astray[q]) => log'[Len(log')].color = p
<1>1. TypeOK /\ QueuesOK /\ FollowsOK /\ ColoursOK /\ [Next]_vars => [Sees]_vars
  <2> SUFFICES ASSUME TypeOK, QueuesOK, FollowsOK, ColoursOK, [Next]_vars, NEW p \in Colors,
                      log' # log, Awaited = p, ~astray[p]
               PROVE  /\ page[p].board = log
                      /\ (\A q \in Colors : ~astray[q]) => log'[Len(log')].color = p
    OBVIOUS
  <2>1. PICK s \in Colors : Serve(s) /\ Takes(s, Head(requests[s]))
    <3>1. ASSUME NEW s \in Colors, Own(s)
          PROVE  FALSE
      <4>1. PICK r \in Colors : r # s
        BY ColorFacts
      <4>2. QED
        BY <3>1, <4>1, OthersRest
    <3>2. ASSUME NEW s \in Colors, Serve(s)
          PROVE  Takes(s, Head(requests[s]))
      <4> DEFINE r == Head(requests[s])
      <4>1. Answers(s, r) \/ Takes(s, r) \/ Closes(s, r)
        BY <3>2, ServeFacts
      <4>2. ~Answers(s, r) /\ ~Closes(s, r)
        BY DEF Answers, Closes
      <4>3. QED
        BY <4>1, <4>2
    <3>3. QED
      BY <3>1, <3>2, NextFacts DEF Passes, Swept
  <2>2. s = p
    BY <2>1 DEF Takes
  <2> DEFINE m == Head(requests[p]).move
  <2>3. /\ page[p].board = log /\ m \in Moves /\ log' = Append(log, m)
        /\ (\A q \in Colors : ~astray[q]) => m.color = Mover(Len(log))
    BY <2>1, <2>2, TakenMove DEF QueuesOK, FollowsOK
  <2> HIDE DEF m
  <2>4. log'[Len(log')] = m
    <3>1. log \in Seq(Moves)
      BY DEF TypeOK
    <3>2. QED
      BY <2>3, <3>1
  <2>5. QED
    BY <2>3, <2>4 DEF Awaited
<1>2. NobodyMovesBlind <=> [][Sees]_vars
  BY DEF NobodyMovesBlind
<1>3. QED
  BY <1>1, <1>2, TypeTheorem, QueuesTheorem, FollowsTheorem, ColoursTheorem, PTL DEF Spec

\* When things are quiet, a page that is not astray and whose game goes on knows that it does,
\* whose move the server awaits and of which colour.
THEOREM TurnsTheorem == Spec => []TurnsAreKnown
<1>1. TypeOK /\ QueuesOK /\ FollowsOK /\ ColoursOK => TurnsAreKnown
  <2> SUFFICES ASSUME TypeOK, QueuesOK, FollowsOK, ColoursOK, NEW p \in Colors, Quiet(p),
                      ~astray[p], page[p].online
               PROVE  /\ ~over
                      /\ page[p].myTurn = (Awaited = p)
                      /\ (\A q \in Colors : ~astray[q]) => page[p].turn = Awaited
    BY DEF TurnsAreKnown
  <2>1. QueueOK(p) /\ FollowOK(p)
    BY DEF QueuesOK, FollowsOK
  <2>2. inbox[p] = <<>> /\ page[p].jobs = <<>>
    BY DEF Quiet, Settled
  <2>3. In(inbox[p]) = {}
    BY <2>2 DEF In
  <2>4. ~over
    BY <2>1, <2>3 DEF FollowOK, Warned
  <2>5. Shown(p) = Len(log)
    <3>1. Shown(p) \in Nat /\ Len(log) \in Nat /\ Shown(p) =< Len(log)
      BY <2>1, ShownBounds
    <3>2. \A k \in Shown(p) + 1 .. Len(log) : FALSE
      <4>1. \A i \in 1 .. Len(page[p].jobs) : FALSE
        BY <2>2
      <4>2. QED
        BY <2>1, <2>3, <4>1 DEF FollowOK, Covered, OwedAt, SentAt
    <3>3. Len(log) \notin Shown(p) + 1 .. Len(log)
      BY <3>2
    <3>4. QED
      BY <3>1, <3>3
  <2>6. page[p].myTurn = (Awaited = p)
    BY <2>1, <2>5 DEF FollowOK, Knows, Awaited
  <2>7. (\A q \in Colors : ~astray[q]) => page[p].turn = Awaited
    BY <2>1, <2>5, TurnShown DEF Awaited
  <2>8. QED
    BY <2>4, <2>6, <2>7
<1>2. QED
  BY <1>1, TypeTheorem, QueuesTheorem, FollowsTheorem, ColoursTheorem, PTL

(***************************************************************************)
(* A mate is reported, as long as no connection is lost and no answer is   *)
(* late.                                                                   *)
(***************************************************************************)
Again == {"relogin", "repassword", "rejoin"}
Calm(p) ==
  /\ up[p] /\ page[p].connected /\ page[p].where # "left"
  /\ Without(p, Again) /\ WithoutJob(p, Again)
  /\ \A m \in In(inbox[p]) : m.kind \notin {"reconnecting", "reconnected"}
  /\ ~page[p].online => over \/ \E r \in In(requests[p]) : r.kind = "end"
Mated(p) == Shown(p) >= Mate => ~page[p].online
CalmOK(p) == (faults = 0 => Calm(p)) /\ Mated(p)

\* No call of the kinds in K comes from nothing.
LEMMA WithoutKept ==
  ASSUME TypeOK, NEW p \in Colors, NEW K, Without(p, K), WithoutJob(p, K),
         \/ SameWork(p)
         \/ \E c \in page[p].calls : Sent(p, c)
         \/ \E c \in page[p].calls : \E j : Settles(p, c, j)
         \/ page[p].jobs # <<>> /\ Runs(p)
         \/ \E c : c.kind \notin K /\ (Adds(p, c) \/ (page[p].jobs # <<>> /\ RunsOn(p, c)))
  PROVE  Without(p, K)' /\ WithoutJob(p, K)'
<1>1. page[p].jobs # <<>> /\ page'[p].jobs = Tail(page[p].jobs) => WithoutJob(p, K)'
  <2>1. SUFFICES ASSUME page[p].jobs # <<>>, page'[p].jobs = Tail(page[p].jobs),
                        NEW i \in 1 .. Len(page'[p].jobs)
                 PROVE  page'[p].jobs[i].call.kind \notin K
    BY DEF WithoutJob
  <2>2. i + 1 \in 2 .. Len(page[p].jobs) /\ page'[p].jobs[i] = page[p].jobs[i + 1]
    BY <2>1, JobShift
  <2>3. i + 1 \in 1 .. Len(page[p].jobs)
    BY <2>2, JobShift
  <2>4. QED
    BY <2>2, <2>3 DEF WithoutJob
<1>2. page'[p].jobs = page[p].jobs => WithoutJob(p, K)'
  BY DEF WithoutJob
<1>3. CASE SameWork(p)
  BY <1>2, <1>3 DEF SameWork, Without
<1>4. ASSUME NEW c \in page[p].calls, Sent(p, c)
      PROVE  Without(p, K)' /\ WithoutJob(p, K)'
  <2> DEFINE e == [c EXCEPT !.sent = TRUE]
  <2>1. e.kind = c.kind
    BY PageFields DEF TypeOK, PageCalls
  <2>2. page'[p].calls = (page[p].calls \ {c}) \cup {e} /\ page'[p].jobs = page[p].jobs
    BY <1>4 DEF Sent
  <2> HIDE DEF e
  <2>3. QED
    BY <1>2, <2>1, <2>2 DEF Without
<1>5. ASSUME NEW c \in page[p].calls, NEW j, Settles(p, c, j)
      PROVE  Without(p, K)' /\ WithoutJob(p, K)'
  <2> DEFINE n == Len(page[p].jobs)
  <2>1. /\ page'[p].calls = page[p].calls \ {c} /\ j.call = c /\ n \in Nat
        /\ Len(page'[p].jobs) = n + 1 /\ page'[p].jobs[n + 1] = j
        /\ \A i \in 1 .. n : page'[p].jobs[i] = page[p].jobs[i]
    BY <1>5, JobShift DEF Settles
  <2>2. \A i \in 1 .. n + 1 : i \in 1 .. n \/ i = n + 1
    BY <2>1
  <2>3. Without(p, K)'
    BY <2>1 DEF Without
  <2>4. j.call.kind \notin K
    BY <2>1 DEF Without
  <2>5. WithoutJob(p, K)'
    BY <2>1, <2>2, <2>4 DEF WithoutJob
  <2>6. QED
    BY <2>3, <2>5
<1>6. CASE page[p].jobs # <<>> /\ Runs(p)
  BY <1>1, <1>6 DEF Runs, Without
<1>7. ASSUME NEW c, c.kind \notin K, Adds(p, c) \/ (page[p].jobs # <<>> /\ RunsOn(p, c))
      PROVE  Without(p, K)' /\ WithoutJob(p, K)'
  BY <1>1, <1>2, <1>7 DEF Adds, RunsOn, Without
<1>8. QED
  BY <1>3, <1>4, <1>5, <1>6, <1>7

\* What a request that is added leaves in the queue.
LEMMA RequestsGrow ==
  ASSUME TypeOK, NEW p \in Colors
  PROVE  /\ \A r \in Requests : requests'[p] = Append(requests[p], r) =>
                In(requests'[p]) = In(requests[p]) \cup {r}
         /\ EndRequest \in Requests /\ EndRequest.kind = "end"
         /\ \A c, kind, move : Called(p, c, kind, move) =>
                \A r \in In(requests[p]) : r \in In(requests'[p])
<1>1. requests[p] \in Seq(Requests)
  BY DEF TypeOK
<1>2. EndRequest \in Requests /\ EndRequest.kind = "end"
  BY DEF EndRequest, Request, Requests
<1>3. ASSUME NEW c, NEW kind, NEW move, Called(p, c, kind, move)
      PROVE  \A r \in In(requests[p]) : r \in In(requests'[p])
  <2> DEFINE r == Request(kind, move, page[p].seq)
  <2>1. c \in PageCalls /\ c.seq = page[p].seq /\ c.kind = kind /\ c.move = move
        /\ requests'[p] = IF up[p] THEN Append(requests[p], r) ELSE requests[p]
    BY <1>3 DEF Called
  <2>2. r \in Requests
    BY <2>1 DEF PageCalls, Request, Requests
  <2> HIDE DEF r
  <2>3. In(Append(requests[p], r)) = In(requests[p]) \cup {r}
    BY <1>1, <2>2, InFacts
  <2>4. QED
    BY <2>1, <2>3
<1>4. \A r \in Requests : In(Append(requests[p], r)) = In(requests[p]) \cup {r}
  BY <1>1, InFacts
<1>5. QED
  BY <1>2, <1>3, <1>4

\* A step of the page that leaves it calm.
LEMMA CalmKept ==
  ASSUME TypeOK, NEW p \in Colors, Calm(p), up'[p] = up[p], over' = over,
         page'[p].connected = page[p].connected, page'[p].where # "left",
         Without(p, Again)', WithoutJob(p, Again)',
         \A m \in In(inbox'[p]) : m \in In(inbox[p]),
         \A r \in In(requests[p]) : r.kind = "end" => r \in In(requests'[p]),
         page[p].online /\ ~page'[p].online =>
            over \/ \E r \in In(requests'[p]) : r.kind = "end"
  PROVE  Calm(p)'
BY DEF Calm

\* A board that has moved: the mate is reported.
LEMMA CalmMoved ==
  ASSUME TypeOK, NEW p \in Colors, NEW m, NEW turn, NEW myTurn, Moved(p, m, turn, myTurn)
  PROVE  /\ Mated(p)'
         /\ Calm(p) =>
              /\ \A r \in In(requests[p]) : r.kind = "end" => r \in In(requests'[p])
              /\ page[p].online /\ ~page'[p].online =>
                    \E r \in In(requests'[p]) : r.kind = "end"
<1>1. /\ page'[p].online = (page[p].online /\ Len(page[p].board) + 1 < Mate)
      /\ requests'[p] = IF page[p].online /\ ~page'[p].online /\ page[p].connected /\ up[p]
                        THEN Append(requests[p], EndRequest) ELSE requests[p]
  BY DEF Moved
<1>2. Shown(p) \in Nat /\ Shown(p)' = Shown(p) + 1 /\ Mate \in Nat
  BY ShownMoved, PlayAssumption
<1>3. Shown(p) + 1 >= Mate => ~(Shown(p) + 1 < Mate)
  BY <1>2
<1>4. Mated(p)'
  BY <1>1, <1>2, <1>3 DEF Mated, Shown
<1>5. requests'[p] = Append(requests[p], EndRequest) =>
        In(requests'[p]) = In(requests[p]) \cup {EndRequest}
  BY RequestsGrow
<1>6. EndRequest.kind = "end"
  BY RequestsGrow
<1>7. QED
  BY <1>1, <1>4, <1>5, <1>6 DEF Calm

LEMMA CalmHandle ==
  ASSUME TypeOK, NEW p \in Colors, QueueOK(p), Mated(p), over' = over, Handle(p)
  PROVE  Mated(p)' /\ (Calm(p) => Calm(p)')
<1> DEFINE m == Head(inbox[p])
<1>1. /\ inbox[p] # <<>> /\ inbox'[p] = Tail(inbox[p]) /\ up'[p] = up[p] /\ m \in Messages
      /\ \/ Resolves(p, m) \/ Misses(p, m) \/ Gropes(p, m) \/ Follows(p, m) \/ Stops(p, m)
         \/ Waits(p, m) \/ Returns(p, m)
  BY HandleFacts
<1>2. /\ In(inbox[p]) = {m} \cup In(inbox'[p]) /\ 1 \in 1 .. Len(inbox[p]) /\ m = inbox[p][1]
  BY <1>1, FirstMessage
<1> HIDE DEF m
<1>3. CASE Follows(p, m)
  <2>1. PICK found \in Moves : Moved(p, found, Other(found.color), TRUE)
    BY <1>3 DEF Follows
  <2>2. SameWork(p) /\ page'[p].where = page[p].where /\ page'[p].connected = page[p].connected
    BY <1>3, <2>1 DEF Follows, SameCalls, SameWork, Moved
  <2>3. Calm(p) => Without(p, Again)' /\ WithoutJob(p, Again)'
    BY <2>2, WithoutKept DEF Calm
  <2>4. Mated(p)'
    BY <2>1, CalmMoved
  <2>5. Calm(p) => /\ \A r \in In(requests[p]) : r.kind = "end" => r \in In(requests'[p])
                   /\ page[p].online /\ ~page'[p].online =>
                         \E r \in In(requests'[p]) : r.kind = "end"
    BY <2>1, CalmMoved
  <2>6. Calm(p) => Calm(p)'
    <3>1. Calm(p) => page'[p].where # "left"
      BY <2>2 DEF Calm
    <3>2. \A a \in In(inbox'[p]) : a \in In(inbox[p])
      BY <1>2
    <3>3. QED
      BY <1>1, <2>2, <2>3, <2>5, <3>1, <3>2, CalmKept
  <2>7. QED
    BY <2>4, <2>6
<1>4. CASE Waits(p, m) \/ Returns(p, m)
  <2>1. page'[p].board = page[p].board /\ page'[p].online = page[p].online
        /\ m.kind \in {"reconnecting", "reconnected"}
    BY <1>4 DEF Waits, Returns, SameBoard
  <2>2. ~Calm(p)
    BY <1>2, <2>1 DEF Calm
  <2>3. Mated(p)'
    BY <2>1 DEF Mated, Shown
  <2>4. QED
    BY <2>2, <2>3
<1>5. CASE Resolves(p, m) \/ Misses(p, m) \/ Gropes(p, m) \/ Stops(p, m)
  <2>1. /\ page'[p].board = page[p].board /\ page'[p].where = page[p].where
        /\ page'[p].connected = page[p].connected /\ requests'[p] = requests[p]
        /\ page'[p].online = page[p].online \/ (page'[p].online = FALSE /\ m.kind = "game_end")
    BY <1>5 DEF Resolves, Misses, Gropes, Stops, SameView, SameBoard
  <2>2. Mated(p)'
    BY <2>1 DEF Mated, Shown
  <2>3. m.kind = "game_end" => over
    BY <1>2 DEF QueueOK, Timely, Dated
  <2>4. SameWork(p) \/ \E c \in page[p].calls : \E j : Settles(p, c, j)
    <3>1. CASE Resolves(p, m)
      <4>1. PICK c \in page[p].calls :
              /\ page'[p].calls = page[p].calls \ {c}
              /\ page'[p].jobs = Append(page[p].jobs, Resulting(c, m))
        BY <3>1 DEF Resolves
      <4>2. c \in PageCalls /\ m.ok \in BOOLEAN /\ m.mine \in BOOLEAN /\ m.at \in Nat
        BY <1>1, PageFields DEF TypeOK, Messages
      <4>3. Resulting(c, m) \in Jobs /\ Resulting(c, m).call = c
        BY <4>2 DEF Resulting, Jobs
      <4>4. QED
        BY <4>1, <4>3 DEF Settles
    <3>2. CASE Misses(p, m) \/ Gropes(p, m) \/ Stops(p, m)
      BY <3>2 DEF Misses, Gropes, Stops, SameCalls, SameWork
    <3>3. QED
      BY <1>5, <3>1, <3>2
  <2>5. Calm(p) => Without(p, Again)' /\ WithoutJob(p, Again)'
    BY <2>4, WithoutKept DEF Calm
  <2>6. Calm(p) => Calm(p)'
    <3>1. Calm(p) => page'[p].where # "left"
      BY <2>1 DEF Calm
    <3>2. /\ \A a \in In(inbox'[p]) : a \in In(inbox[p])
          /\ \A r \in In(requests[p]) : r.kind = "end" => r \in In(requests'[p])
          /\ page[p].online /\ ~page'[p].online => over
      BY <1>2, <2>1, <2>3
    <3>3. QED
      BY <1>1, <2>1, <2>5, <3>1, <3>2, CalmKept
  <2>7. QED
    BY <2>2, <2>6
<1>6. QED
  BY <1>1, <1>3, <1>4, <1>5

LEMMA CalmContinue ==
  ASSUME TypeOK, NEW p \in Colors, Mated(p), over' = over, Continue(p)
  PROVE  Mated(p)' /\ (Calm(p) => Calm(p)')
<1> DEFINE j == Head(page[p].jobs)
<1>1. /\ page[p].jobs # <<>>
      /\ \/ Quits(p, j)
         \/ /\ page'[p].jobs = Tail(page[p].jobs) /\ inbox'[p] = inbox[p] /\ up'[p] = up[p]
            /\ \/ Enters(p, j) \/ SetsUp(p, j) \/ Retries(p, j) \/ Rejoins(p, j) \/ Idles(p, j)
               \/ Learns(p, j) \/ Plays(p, j)
  BY ContinueFacts
<1>2. Calm(p) => j.call.kind \notin Again
  <2>1. 1 \in 1 .. Len(page[p].jobs) /\ j = page[p].jobs[1]
    BY <1>1, JobShift
  <2>2. QED
    BY <2>1 DEF Calm, WithoutJob
<1> HIDE DEF j
<1>3. CASE Quits(p, j)
  <2>1. j.call.kind \in Again /\ page'[p].online = FALSE
    BY <1>3 DEF Quits, Again, LeftPage
  <2>2. QED
    BY <1>2, <2>1 DEF Mated
<1>4. CASE Rejoins(p, j)
  <2>1. j.call.kind \in Again /\ page'[p].online = page[p].online
        /\ page'[p].board = page[p].board
    BY <1>4 DEF Rejoins, Again, SameView, SameBoard
  <2>2. QED
    BY <1>2, <2>1 DEF Mated, Shown
<1>5. ASSUME Calm(p), page'[p].jobs = Tail(page[p].jobs), inbox'[p] = inbox[p], up'[p] = up[p],
             Runs(p) \/ \E c : c.kind \notin Again /\ RunsOn(p, c),
             page'[p].where # "left", page'[p].connected = page[p].connected,
             \A r \in In(requests[p]) : r.kind = "end" => r \in In(requests'[p]),
             page[p].online /\ ~page'[p].online => \E r \in In(requests'[p]) : r.kind = "end"
      PROVE  Calm(p)'
  <2>1. Without(p, Again)' /\ WithoutJob(p, Again)'
    BY <1>1, <1>5, WithoutKept DEF Calm
  <2>2. \A a \in In(inbox'[p]) : a \in In(inbox[p])
    BY <1>5
  <2>3. QED
    BY <1>5, <2>1, <2>2, CalmKept
<1>6. ASSUME page'[p].jobs = Tail(page[p].jobs), inbox'[p] = inbox[p], up'[p] = up[p],
             Enters(p, j) \/ (Retries(p, j) /\ j.call.kind \notin Again)
      PROVE  Mated(p)' /\ (Calm(p) => Calm(p)')
  <2>1. PICK c, kind : kind \in {"join", "password"} /\ Called(p, c, kind, None)
    BY <1>6 DEF Enters, Retries, Again
  <2>2. /\ RunsOn(p, c) /\ c.kind \notin Again
        /\ page'[p].where \in {"joining", page[p].where}
        /\ page'[p].connected = page[p].connected /\ page'[p].online = page[p].online
        /\ page'[p].board = page[p].board
    BY <1>6, <2>1 DEF Enters, Retries, Called, RunsOn, Again, SameView, SameBoard
  <2>3. \A r \in In(requests[p]) : r \in In(requests'[p])
    BY <2>1, RequestsGrow
  <2>4. Mated(p)'
    BY <2>2 DEF Mated, Shown
  <2>5. Calm(p) => page'[p].where # "left"
    BY <2>2 DEF Calm
  <2>6. QED
    BY <1>5, <1>6, <2>2, <2>3, <2>4, <2>5
<1>7. CASE page'[p].jobs = Tail(page[p].jobs) /\ inbox'[p] = inbox[p] /\ up'[p] = up[p]
           /\ (SetsUp(p, j) \/ Idles(p, j) \/ Learns(p, j))
  <2>1. /\ Runs(p) /\ page'[p].connected = page[p].connected /\ requests'[p] = requests[p]
        /\ page'[p].online = page[p].online
        /\ page'[p].where = page[p].where \/ page'[p].where = "playing"
        /\ page'[p].board = page[p].board \/ page'[p].board = <<>>
    BY <1>7 DEF SetsUp, Idles, Learns, SameCalls, Runs, SameView, SameBoard
  <2>2. Mated(p)'
    <3>1. ~(0 >= Mate) /\ Len(<<>>) = 0
      BY PlayAssumption
    <3>2. QED
      BY <2>1, <3>1 DEF Mated, Shown
  <2>3. Calm(p) => page'[p].where # "left"
    BY <2>1 DEF Calm
  <2>4. QED
    BY <1>5, <1>7, <2>1, <2>2, <2>3
<1>8. CASE page'[p].jobs = Tail(page[p].jobs) /\ inbox'[p] = inbox[p] /\ up'[p] = up[p]
           /\ Plays(p, j)
  <2>1. Moved(p, page[p].held, Other(page[p].turn), FALSE) /\ SameCalls(p)
    BY <1>8 DEF Plays
  <2>2. Runs(p) /\ page'[p].where = page[p].where /\ page'[p].connected = page[p].connected
    BY <1>8, <2>1 DEF Runs, SameCalls, Moved
  <2>3. Mated(p)'
    BY <2>1, CalmMoved
  <2>4. Calm(p) => /\ page'[p].where # "left"
                   /\ \A r \in In(requests[p]) : r.kind = "end" => r \in In(requests'[p])
                   /\ page[p].online /\ ~page'[p].online =>
                         \E r \in In(requests'[p]) : r.kind = "end"
    BY <2>1, <2>2, CalmMoved DEF Calm
  <2>5. QED
    BY <1>5, <1>8, <2>2, <2>3, <2>4
<1>9. CASE Retries(p, j) /\ j.call.kind \in Again
  <2>1. page'[p].online = page[p].online /\ page'[p].board = page[p].board
    BY <1>9 DEF Retries, SameView, SameBoard
  <2>2. QED
    BY <1>2, <1>9, <2>1 DEF Mated, Shown
<1>10. QED
  BY <1>1, <1>3, <1>4, <1>6, <1>7, <1>8, <1>9

LEMMA FaultsGrow ==
  ASSUME TypeOK, NEW p \in Colors, Own(p)
  PROVE  faults \in Nat /\ faults' \in Nat /\ faults' >= faults /\ (Lose(p) => faults' # 0)
<1>1. faults \in Nat
  BY PlayAssumption DEF TypeOK
<1>2. CASE \/ Poll(p) \/ Repick(p) \/ Resign(p) \/ ResignCancelled(p) \/ ClickOffline(p)
           \/ Lose(p) \/ Reconnect(p)
  <2>1. faults' = faults \/ faults' = faults + 1
    BY <1>2, SmallFacts, ClickOfflineFacts DEF Dabbles
  <2>2. Lose(p) => faults' = faults + 1
    BY SmallFacts
  <2>3. QED
    BY <1>1, <2>1, <2>2
<1>3. CASE Handle(p) \/ Continue(p) \/ Click(p)
  <2>1. faults' \in Nat /\ faults' >= faults
    BY <1>3, HandleFacts, ContinueFacts, ClickFacts
  <2>2. Lose(p) => faults' = faults + 1
    BY SmallFacts
  <2>3. QED
    BY <1>1, <2>1, <2>2
<1>4. ASSUME NEW c \in page[p].calls, SendReturns(p, c) \/ TimeOut(p, c)
      PROVE  faults' \in Nat /\ faults' >= faults /\ (Lose(p) => faults' # 0)
  <2>1. faults' \in Nat /\ faults' >= faults
    <3>1. SendReturns(p, c) => faults' = faults
      BY SmallFacts
    <3>2. TimeOut(p, c) => faults' \in Nat /\ faults' >= faults
      BY TimeOutFacts
    <3>3. QED
      BY <1>1, <1>4, <3>1, <3>2
  <2>2. Lose(p) => faults' = faults + 1
    BY SmallFacts
  <2>3. QED
    BY <1>1, <2>1, <2>2
<1>5. QED
  BY <1>1, <1>2, <1>3, <1>4 DEF Own

LEMMA CalmOwn ==
  ASSUME TypeOK, NEW p \in Colors, QueueOK(p), CalmOK(p), over' = over, Own(p)
  PROVE  CalmOK(p)'
<1>1. Mated(p) /\ (faults' = 0 => Calm(p))
  BY FaultsGrow DEF CalmOK
<1>2. (Mated(p)' /\ (Calm(p) /\ faults' = 0 => Calm(p)')) => CalmOK(p)'
  BY <1>1 DEF CalmOK
<1>3. ASSUME Calm(p), up'[p] = up[p], inbox'[p] = inbox[p],
             SameWork(p) \/ (\E c \in page[p].calls : Sent(p, c))
               \/ (\E c \in page[p].calls : \E j : Settles(p, c, j))
               \/ \E c : c.kind \notin Again /\ Adds(p, c),
             SameView(p), \A r \in In(requests[p]) : r \in In(requests'[p])
      PROVE  Calm(p)'
  <2>1. Without(p, Again)' /\ WithoutJob(p, Again)'
    BY <1>3, WithoutKept DEF Calm
  <2>2. /\ \A a \in In(inbox'[p]) : a \in In(inbox[p])
        /\ page'[p].where # "left" /\ page'[p].connected = page[p].connected
        /\ page'[p].online = page[p].online
    BY <1>3 DEF Calm, SameView
  <2>3. QED
    BY <1>3, <2>1, <2>2, CalmKept
<1>4. SameView(p) /\ page'[p].board = page[p].board => Mated(p)'
  BY <1>1 DEF Mated, Shown, SameView
<1>5. CASE Poll(p) \/ Repick(p) \/ ResignCancelled(p)
  <2>1. /\ SameView(p) /\ page'[p].board = page[p].board /\ SameWork(p)
        /\ up'[p] = up[p] /\ inbox'[p] = inbox[p] /\ requests'[p] = requests[p]
    BY <1>5, SmallFacts DEF Still, SameCalls, SameBoard, SameWork
  <2>2. QED
    BY <1>2, <1>3, <1>4, <2>1
<1>6. ASSUME NEW c \in page[p].calls, SendReturns(p, c)
      PROVE  CalmOK(p)'
  <2>1. /\ SameView(p) /\ page'[p].board = page[p].board /\ Sent(p, c)
        /\ up'[p] = up[p] /\ inbox'[p] = inbox[p] /\ requests'[p] = requests[p]
    BY <1>6, SmallFacts DEF SameBoard, Sent
  <2>2. QED
    BY <1>2, <1>3, <1>4, <2>1
<1>7. ASSUME NEW c \in page[p].calls, TimeOut(p, c)
      PROVE  CalmOK(p)'
  <2> DEFINE j == [call |-> c, ok |-> FALSE, mine |-> TRUE, at |-> 0]
  <2>1. c \in PageCalls
    BY PageFields DEF TypeOK
  <2>2. j \in Jobs /\ j.call = c
    BY <2>1 DEF Jobs
  <2>3. /\ SameView(p) /\ page'[p].board = page[p].board
        /\ page'[p].calls = page[p].calls \ {c} /\ page'[p].jobs = <<j>> /\ page[p].jobs = <<>>
        /\ up'[p] = up[p] /\ inbox'[p] = inbox[p] /\ requests'[p] = requests[p]
    BY <1>7, TimeOutFacts DEF SameBoard
  <2> HIDE DEF j
  <2>4. page'[p].jobs = Append(page[p].jobs, j)
    BY <2>3
  <2>5. Settles(p, c, j)
    BY <2>2, <2>3, <2>4 DEF Settles
  <2>6. QED
    BY <1>2, <1>3, <1>4, <2>3, <2>5
<1>8. CASE Click(p)
  <2>1. PICK c, m :
          /\ Called(p, c, "move", m) /\ SameView(p) /\ page'[p].jobs = page[p].jobs
          /\ page'[p].board = page[p].board /\ inbox'[p] = inbox[p] /\ up'[p] = up[p]
    BY <1>8, ClickFacts
  <2>2. Adds(p, c) /\ c.kind \notin Again
    BY <2>1 DEF Called, Adds, Again
  <2>3. \A r \in In(requests[p]) : r \in In(requests'[p])
    BY <2>1, RequestsGrow
  <2>4. QED
    BY <1>2, <1>3, <1>4, <2>1, <2>2, <2>3
<1>9. CASE Resign(p)
  <2>1. /\ Still(p) /\ up'[p] = up[p] /\ inbox'[p] = inbox[p]
        /\ requests'[p] = requests[p] \/ requests'[p] = Append(requests[p], EndRequest)
    BY <1>9, SmallFacts
  <2>2. \A r \in In(requests[p]) : r \in In(requests'[p])
    BY <2>1, RequestsGrow
  <2>3. SameView(p) /\ SameWork(p) /\ page'[p].board = page[p].board
    BY <2>1 DEF Still, SameBoard, SameCalls, SameWork
  <2>4. QED
    BY <1>2, <1>3, <1>4, <2>1, <2>2, <2>3
<1>10. CASE Lose(p)
  <2>1. SameView(p) /\ page'[p].board = page[p].board /\ faults' # 0
    BY <1>10, SmallFacts, FaultsGrow DEF SameView
  <2>2. QED
    BY <1>2, <1>4, <2>1
<1>11. CASE Reconnect(p)
  <2>1. SameView(p) /\ page'[p].board = page[p].board /\ ~up[p]
    BY <1>11, SmallFacts DEF SameView
  <2>2. ~Calm(p)
    BY <2>1 DEF Calm
  <2>3. QED
    BY <1>2, <1>4, <2>1, <2>2
<1>12. CASE Handle(p)
  BY <1>1, <1>2, <1>12, CalmHandle
<1>13. CASE Continue(p)
  BY <1>1, <1>2, <1>13, CalmContinue
<1>14. CASE ClickOffline(p)
  <2>1. Dabbles(p) /\ ~page[p].online
    BY <1>14, ClickOfflineFacts
  <2>2. /\ SameView(p) /\ SameWork(p) /\ up'[p] = up[p] /\ inbox'[p] = inbox[p]
        /\ requests'[p] = requests[p] /\ ~page'[p].online
    BY <2>1 DEF Dabbles, SameView, SameCalls, SameWork
  <2>3. Mated(p)'
    BY <2>2 DEF Mated
  <2>4. QED
    BY <1>2, <1>3, <2>2, <2>3
<1>15. QED
  BY <1>5, <1>6, <1>7, <1>8, <1>9, <1>10, <1>11, <1>12, <1>13, <1>14 DEF Own

LEMMA CalmServe ==
  ASSUME TypeOK, NEW p \in Colors, NEW s \in Colors, CalmOK(p), Serve(s)
  PROVE  CalmOK(p)'
<1> DEFINE r == Head(requests[s])
           n == Len(log)
<1>1. /\ requests[s] # <<>> /\ r \in Requests /\ requests'[s] = Tail(requests[s])
      /\ page' = page /\ up' = up /\ faults' = faults /\ (s # p => requests'[p] = requests[p])
      /\ Answers(s, r) \/ Takes(s, r) \/ Closes(s, r)
  BY ServeFacts
<1>2. /\ n \in Nat /\ n + 1 \in Nat /\ r.seq \in Nat
      /\ inbox[p] \in Seq(Messages) /\ requests[s] \in Seq(Requests)
  <2>1. r.seq \in Nat
    BY <1>1 DEF Requests
  <2>2. QED
    BY <2>1, LevelType DEF TypeOK
<1>3. In(requests[s]) = {r} \cup In(requests'[s])
  BY <1>1, <1>2, InFacts
<1> HIDE DEF r, n
<1>4. r.kind # "end" => \A x \in In(requests[p]) : x.kind = "end" => x \in In(requests'[p])
  BY <1>1, <1>3
<1>5. over => over'
  BY ServeGrows DEF Grows
<1>6. r.kind = "end" => over'
  BY <1>1 DEF Answers, Takes, Closes
<1>7. \/ inbox'[p] = inbox[p]
      \/ \E m \in Messages : /\ m.kind \notin {"reconnecting", "reconnected"}
                             /\ inbox'[p] = Append(inbox[p], m)
  <2>1. CASE Answers(s, r)
    <3>1. PICK ok \in BOOLEAN, mine \in BOOLEAN :
            /\ inbox'[s] = Append(inbox[s], Answer(r.seq, ok, None, mine, n))
            /\ \A q \in Colors \ {s} : inbox'[q] = inbox[q]
      BY <2>1 DEF Answers, n
    <3> DEFINE m == Answer(r.seq, ok, None, mine, n)
    <3>2. m \in Messages
      BY <1>2, MessageTypes
    <3>3. m.kind = "answer"
      BY DEF Answer
    <3> HIDE DEF m
    <3>4. inbox'[p] = inbox[p] \/ inbox'[p] = Append(inbox[p], m)
      BY <3>1 DEF m
    <3>5. QED
      BY <3>2, <3>3, <3>4
  <2>2. CASE Takes(s, r)
    <3> DEFINE a == Answer(r.seq, TRUE, r.move, FALSE, n + 1)
               o == OpponentMove(r.move, n + 1)
    <3>1. r.move \in Moves
      BY <2>2 DEF Takes
    <3>2. a \in Messages /\ o \in Messages
      BY <1>2, <3>1, MessageTypes
    <3>3. a.kind = "answer" /\ o.kind = "opponent_move"
      BY DEF Answer, OpponentMove, Notice
    <3>4. inbox'[p] = inbox[p] \/ inbox'[p] = Append(inbox[p], a) \/ inbox'[p] = Append(inbox[p], o)
      BY <2>2 DEF Takes, n
    <3> HIDE DEF a, o
    <3>5. QED
      BY <3>2, <3>3, <3>4
  <2>3. CASE Closes(s, r)
    <3> DEFINE g == GameEnd
    <3>1. g \in Messages /\ g.kind = "game_end"
      BY MessageTypes DEF GameEnd, Notice
    <3>2. inbox'[p] = inbox[p] \/ inbox'[p] = Append(inbox[p], g)
      BY <2>3 DEF Closes
    <3> HIDE DEF g
    <3>3. QED
      BY <3>1, <3>2
  <2>4. QED
    BY <1>1, <2>1, <2>2, <2>3
<1>8. \A m \in In(inbox'[p]) : m \in In(inbox[p]) \/ m.kind \notin {"reconnecting", "reconnected"}
  <2>1. \A m \in Messages : In(Append(inbox[p], m)) = In(inbox[p]) \cup {m}
    BY <1>2, InFacts
  <2>2. QED
    BY <1>7, <2>1
<1>9. Mated(p)'
  BY <1>1 DEF CalmOK, Mated, Shown
<1>10. Calm(p) => Calm(p)'
  <2>1. Without(p, Again)' <=> Without(p, Again)
    BY <1>1 DEF Without
  <2>2. WithoutJob(p, Again)' <=> WithoutJob(p, Again)
    BY <1>1 DEF WithoutJob
  <2>3. Calm(p) => (~page'[p].online => over' \/ \E x \in In(requests'[p]) : x.kind = "end")
    BY <1>1, <1>4, <1>5, <1>6 DEF Calm
  <2>4. QED
    BY <1>1, <1>8, <2>1, <2>2, <2>3 DEF Calm
<1>11. QED
  BY <1>1, <1>9, <1>10 DEF CalmOK

\* The end of the match is told of, and with it the mate.
LEMMA CalmSwept ==
  ASSUME TypeOK, NEW p \in Colors, CalmOK(p), Swept
  PROVE  CalmOK(p)'
<1> DEFINE g == GameEnd
<1>1. g \in Messages /\ g.kind = "game_end"
  BY MessageTypes DEF GameEnd, Notice
<1>2. /\ over' = TRUE /\ UNCHANGED <<up, requests, page, faults>>
      /\ inbox'[p] = inbox[p] \/ inbox'[p] = Append(inbox[p], g)
  BY DEF Swept
<1> HIDE DEF g
<1>3. In(Append(inbox[p], g)) = In(inbox[p]) \cup {g}
  <2>1. inbox[p] \in Seq(Messages)
    BY DEF TypeOK
  <2>2. QED
    BY <1>1, <2>1, InFacts
<1>4. \A m \in In(inbox'[p]) : m \in In(inbox[p]) \/ m.kind = "game_end"
  BY <1>1, <1>2, <1>3
<1>5. (Without(p, Again)' <=> Without(p, Again)) /\ (WithoutJob(p, Again)' <=> WithoutJob(p, Again))
  BY <1>2 DEF Without, WithoutJob
<1>6. Calm(p) => Calm(p)'
  BY <1>2, <1>4, <1>5 DEF Calm
<1>7. Mated(p)'
  BY <1>2 DEF CalmOK, Mated, Shown
<1>8. QED
  BY <1>2, <1>6, <1>7 DEF CalmOK

CalmsOK == \A p \in Colors : CalmOK(p)

LEMMA InitCalms == Init => CalmsOK
<1> SUFFICES ASSUME Init, NEW p \in Colors
             PROVE  CalmOK(p)
  BY DEF CalmsOK
<1>1. /\ inbox[p] = <<>> /\ page[p].board = <<>> /\ page[p].jobs = <<>>
      /\ page[p].online /\ page[p].connected /\ up[p]
      /\ \/ /\ page[p].where = "loading"
            /\ page[p].calls = {PageCall(1, "login", None, TRUE)}
         \/ page[p].where = "playing" /\ page[p].calls = {}
  BY InitFacts
<1>2. PageCall(1, "login", None, TRUE).kind = "login"
  BY DEF PageCall
<1>3. \A c \in page[p].calls : c.kind = "login"
  BY <1>1, <1>2
<1>4. Len(page[p].jobs) = 0 /\ Len(inbox[p]) = 0 /\ Shown(p) = 0
  BY <1>1 DEF Shown
<1>5. Without(p, Again)
  BY <1>3 DEF Without, Again
<1>6. WithoutJob(p, Again) /\ In(inbox[p]) = {}
  BY <1>4 DEF WithoutJob, In
<1>7. page[p].where # "left"
  BY <1>1
<1>8. Calm(p)
  BY <1>1, <1>5, <1>6, <1>7 DEF Calm
<1>9. ~(0 >= Mate)
  BY PlayAssumption
<1>10. QED
  BY <1>4, <1>8, <1>9 DEF CalmOK, Mated

LEMMA NextCalms == TypeOK /\ QueuesOK /\ CalmsOK /\ [Next]_vars => CalmsOK'
<1> SUFFICES ASSUME TypeOK, QueuesOK, CalmsOK, [Next]_vars, NEW q \in Colors
             PROVE  CalmOK(q)'
  BY DEF CalmsOK
<1>1. QueueOK(q) /\ CalmOK(q)
  BY DEF QueuesOK, CalmsOK
<1>2. ASSUME Rests(q), faults' = 0 => faults = 0
      PROVE  CalmOK(q)'
  <2>1. /\ page'[q] = page[q] /\ requests'[q] = requests[q] /\ inbox'[q] = inbox[q]
        /\ over' = over /\ up'[q] = up[q]
    BY <1>2 DEF Rests
  <2>2. Mated(q)'
    BY <1>1, <2>1 DEF CalmOK, Mated, Shown
  <2>3. Calm(q) => Calm(q)'
    BY <2>1 DEF Calm, Without, WithoutJob
  <2>4. QED
    BY <1>1, <1>2, <2>2, <2>3 DEF CalmOK
<1>3. CASE Passes
  <2>1. faults \in Nat /\ (faults' = 0 => faults = 0)
    BY <1>3, PlayAssumption DEF TypeOK, Passes
  <2>2. Rests(q)
    BY <1>3 DEF Passes, Rests
  <2>3. QED
    BY <1>2, <2>1, <2>2
<1>4. ASSUME NEW p \in Colors, Serve(p)
      PROVE  CalmOK(q)'
  BY <1>1, <1>4, CalmServe
<1>5. ASSUME NEW p \in Colors, Own(p), q # p
      PROVE  CalmOK(q)'
  <2>1. faults' = 0 => faults = 0
    BY <1>5, FaultsGrow
  <2>2. QED
    BY <1>2, <1>5, <2>1, OthersRest
<1>6. CASE Own(q)
  <2>1. over' = over
    <3>1. PICK r \in Colors : r # q
      BY ColorFacts
    <3>2. QED
      BY <1>6, <3>1, OthersRest
  <2>2. QED
    BY <1>1, <1>6, <2>1, CalmOwn
<1>7. CASE Swept
  BY <1>1, <1>7, CalmSwept
<1>8. QED
  BY <1>3, <1>4, <1>5, <1>6, <1>7, NextFacts

\* Without lost connections and late answers a page stays connected and at its board, no relogin
\* is under way, and a board that has stopped because of a mate has its report in the queue
\* until the server has ended the match.
THEOREM CalmsTheorem == Spec => []CalmsOK
<1>1. Init => CalmsOK
  BY InitCalms
<1>2. TypeOK /\ QueuesOK /\ CalmsOK /\ [Next]_vars => CalmsOK'
  BY NextCalms
<1>3. QED
  BY <1>1, <1>2, TypeTheorem, QueuesTheorem, PTL DEF Spec

\* A mate that one of the boards shows has reached the server when things are quiet.
THEOREM MateTheorem == Spec => []MateIsTold
<1>1. TypeOK /\ CalmsOK => MateIsTold
  <2> SUFFICES ASSUME TypeOK, CalmsOK, \A p \in Colors : Quiet(p), NEW p \in Colors,
                      Len(page[p].board) >= Mate, ~(faults > 0)
               PROVE  over
    BY DEF MateIsTold
  <2>1. faults = 0
    BY PlayAssumption DEF TypeOK
  <2>2. ~page[p].online
    BY DEF CalmsOK, CalmOK, Mated, Shown
  <2>3. requests[p] = <<>>
    BY DEF Quiet
  <2>4. In(requests[p]) = {}
    BY <2>3 DEF In
  <2>5. QED
    BY <2>1, <2>2, <2>4 DEF CalmsOK, CalmOK, Calm
<1>2. QED
  BY <1>1, TypeTheorem, CalmsTheorem, PTL
=============================================================================
