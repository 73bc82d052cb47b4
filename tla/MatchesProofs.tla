---------------------------- MODULE MatchesProofs ----------------------------
EXTENDS Matches, RatingProofs

(***************************************************************************)
(* The ids in use: made by a start of the process up to this one, and in   *)
(* this one with a count up to match_count, so the id of the next match is *)
(* fresh in the table and in the database.                                 *)
(***************************************************************************)
CountedUpTo(id, start, count) ==
  /\ id.boot \in 1..start
  /\ id.n >= 1
  /\ id.boot = start => id.n <= count

IdsAreCounted ==
  /\ boot >= 1
  /\ \A i \in Slots : slots[i].id # NoId => CountedUpTo(slots[i].id, boot, matchCount)
  /\ \A row \in rows : CountedUpTo(row.id, boot, matchCount)

\* Nothing is left in a slot that is not in use.
FreeSlotsAreBlank == \A i \in Slots : slots[i].id = NoId => slots[i] = Blank

OngoingIffActive ==
  \A i \in Slots : slots[i].id # NoId => (slots[i].active <=> slots[i].reason = "none")

\* The half of CopiesFollowALapse that holds whichever statements fail.
CopiesAreUnreachable ==
  \A i, j \in Slots :
    Visible(i) /\ i < j /\ slots[i].id = slots[j].id => ~slots[i].active

(***************************************************************************)
(* The inductive invariant.  EndedByPlayerIsFinal alone is not inductive:  *)
(* that the end of a match deletes the last trace of it needs that no      *)
(* other slot holds it (CopiesAreUnreachable), that a new match does not   *)
(* take its id (IdsAreCounted) and that no free slot does (FreeSlots-      *)
(* AreBlank, UsedSlotsArePrefix).                                          *)
(***************************************************************************)
Bookkeeping ==
  /\ UsedSlotsArePrefix
  /\ IdsAreCounted
  /\ FreeSlotsAreBlank
  /\ OngoingIffActive
  /\ CopiesAreUnreachable
  /\ CopiesFollowALapse
  /\ RunningMatchesAreListed
  /\ EndedByPlayerIsFinal

IInv == TypeOK /\ TurnAgreesWithMoves /\ Bookkeeping
-----------------------------------------------------------------------------
(***************************************************************************)
(* The operators stay in their types.                                      *)
(***************************************************************************)
LEMMA BlankType == Blank \in Match
<1>1. (CHOOSE u \in Users : TRUE) \in Users
  BY UsersAssumption
<1>2. 0 \in 0..MoveTime
  BY BoundsAssumption
<1>3. NoId \in MatchId
  BY DEF NoId, MatchId
<1>4. QED
  BY <1>1, <1>2, <1>3 DEF Blank, Match, Reasons, Colours

\* match_create fills a slot with a match.
LEMMA NewMatchType ==
  ASSUME TypeOK, NEW red \in Users, NEW black \in Users, NEW rated \in BOOLEAN,
         NEW time \in 0..MoveTime
  PROVE  NewMatch(red, black, rated, time) \in Match
<1>1. boot \in Nat /\ matchCount + 1 \in Nat
  BY DEF TypeOK
<1>2. 0 \in 0..MoveTime
  BY BoundsAssumption
<1>3. QED
  BY <1>1, <1>2 DEF NewMatch, Match, MatchId, Reasons, Colours

\* What is left to the player to move lies between 0 and MoveTime.
LEMMA RemainingType ==
  ASSUME NEW m \in Match
  PROVE  Remaining(m) \in 0..MoveTime
<1>1. m.turn \in Colours /\ m.idle \in 0..MoveTime /\ m.clock \in [Colours -> 0..MoveTime]
  BY DEF Match
<1>2. m.clock[m.turn] \in 0..MoveTime
  BY <1>1
<1>3. 0 \in 0..MoveTime
  BY BoundsAssumption
<1>4. QED
  BY <1>1, <1>2, <1>3, BoundsAssumption DEF Remaining

\* match_update_timer leaves a match, its clocks not below 0.
LEMMA SpentType ==
  ASSUME NEW m \in Match
  PROVE  Spent(m) \in Match
<1>1. Remaining(m) \in 0..MoveTime /\ 0 \in 0..MoveTime
  BY RemainingType, BoundsAssumption
<1>2. QED
  BY <1>1 DEF Spent, Match

\* match_add_move leaves a match.
LEMMA MovedType ==
  ASSUME NEW m \in Match
  PROVE  Moved(m) \in Match
<1>1. MoveTime \in 0..MoveTime /\ 0 \in 0..MoveTime
  BY BoundsAssumption
<1>2. Other(m.turn) \in Colours
  BY DEF Other, Colours
<1>3. m.moveCount + 1 \in Nat
  BY DEF Match
<1>4. QED
  BY <1>1, <1>2, <1>3 DEF Moved, Match

\* match_end leaves a match.
LEMMA FinishType ==
  ASSUME NEW m \in Match, NEW result \in Results \cup {"ongoing", "aborted"},
         NEW reason \in Reasons
  PROVE  Finish(m, result, reason) \in Match
BY DEF Finish, Match

\* match_load_from_db makes a match of a row.
LEMMA LoadedType ==
  ASSUME NEW row \in Row
  PROVE  Loaded(row) \in Match
<1>1. 0 \in 0..MoveTime
  BY BoundsAssumption
<1>2. QED
  BY <1>1 DEF Loaded, Match, Row, Reasons

\* match_persist makes a row of a match.
LEMMA RowOfType ==
  ASSUME NEW m \in Match
  PROVE  RowOf(m) \in Row
BY DEF RowOf, Match, Row

\* match_persist adds no row but the match's own.
LEMMA PersistedRows ==
  ASSUME NEW m, NEW done
  PROVE  Persisted(m, done) \subseteq rows \cup {RowOf(m)}
BY DEF Persisted, WithoutRow

\* match_persist keeps the type of active_matches.
LEMMA PersistedType ==
  ASSUME TypeOK, NEW m \in Match, NEW done
  PROVE  Persisted(m, done) \subseteq Row
BY RowOfType, PersistedRows DEF TypeOK

\* A player's statistics stay numbers.
LEMMA TallyType ==
  ASSUME NEW stats \in Stats, NEW outcome \in {"win", "loss", "half"}
  PROVE  Tally(stats, outcome) \in Stats
BY DEF Tally, Stats

\* rating_calculate gives integers.
LEMMA RatingChangeType ==
  ASSUME NEW red \in Int, NEW black \in Int, NEW result
  PROVE  /\ RatingChange(red, black, result).red \in Int
         /\ RatingChange(red, black, result).black \in Int
BY RatingChangeZeroSum

\* Writing one account keeps the type of Users.
LEMMA BookedType ==
  ASSUME NEW f \in [Users -> Account], NEW u \in Users,
         NEW p, NEW rating \in Int, NEW q, NEW stats \in Stats
  PROVE  Booked(f, u, p, rating, q, stats) \in [Users -> Account]
<1>1. f[u].rating \in Int /\ f[u].stats \in Stats
  BY DEF Account
<1>2. [rating |-> IF p THEN rating ELSE f[u].rating,
       stats  |-> IF q THEN stats ELSE f[u].stats] \in Account
  BY <1>1 DEF Account
<1>3. QED
  BY <1>2 DEF Booked

\* The statements of a handler on Users keep the type of the table.
LEMMA CreditedType ==
  ASSUME TypeOK, NEW m \in Match, NEW result \in Results, NEW done
  PROVE  Credited(m, result, done) \in [Users -> Account]
<1> DEFINE red == users[m.player["red"]]
           black == users[m.player["black"]]
           change == RatingChange(red.rating, black.rating, result)
<1>1. m.player["red"] \in Users /\ m.player["black"] \in Users
  BY DEF Match, Colours
<1>2. users \in [Users -> Account]
  BY DEF TypeOK
<1>3. /\ red.rating \in Int /\ red.stats \in Stats
      /\ black.rating \in Int /\ black.stats \in Stats
  BY <1>1, <1>2 DEF Account
<1>4. change.red \in Int /\ change.black \in Int
  BY <1>3, RatingChangeType
<1>5. red.rating + change.red \in Int /\ black.rating + change.black \in Int
  BY <1>3, <1>4
<1>6. /\ OutcomeFor("red", result) \in {"win", "loss", "half"}
      /\ OutcomeFor("black", result) \in {"win", "loss", "half"}
  BY DEF OutcomeFor
<1>7. /\ Tally(red.stats, OutcomeFor("red", result)) \in Stats
      /\ Tally(black.stats, OutcomeFor("black", result)) \in Stats
  BY <1>3, <1>6, TallyType
<1> HIDE DEF red, black, change
<1>8. PICK r \in Int, b \in Int : r = red.rating + change.red /\ b = black.rating + change.black
  BY <1>5
<1>9. PICK rs \in Stats, bs \in Stats :
        rs = Tally(red.stats, OutcomeFor("red", result)) /\ bs = Tally(black.stats, OutcomeFor("black", result))
  BY <1>7
<1>10. Credited(m, result, done) =
         Booked(Booked(users, m.player["red"], "redRating" \in done, r, "redStats" \in done, rs),
                m.player["black"], "blackRating" \in done, b, "blackStats" \in done, bs)
  BY <1>8, <1>9 DEF Credited, red, black, change
<1>11. Booked(users, m.player["red"], "redRating" \in done, r, "redStats" \in done, rs)
         \in [Users -> Account]
  BY <1>1, <1>2, BookedType
<1>12. QED
  BY <1>1, <1>10, <1>11, BookedType

\* The updates of Users in server_run's loop keep the type of the table.
LEMMA PenalizedType ==
  ASSUME TypeOK, NEW m \in Match, NEW done
  PROVE  Penalized(m, done) \in [Users -> Account]
<1> DEFINE red == users[m.player["red"]].rating
           black == users[m.player["black"]].rating
           change == RatingChange(red, black, m.result)
<1>1. m.player["red"] \in Users /\ m.player["black"] \in Users
  BY DEF Match, Colours
<1>2. users \in [Users -> Account]
  BY DEF TypeOK
<1>3. red \in Int /\ black \in Int
  BY <1>1, <1>2 DEF Account
<1>4. change.red \in Int /\ change.black \in Int
  BY <1>3, RatingChangeType
<1>5. \A c \in Colours : Penalty(m, c) \in Int /\ Single(m, c) \in Stats
  BY DEF Penalty, TimeoutPenalty, Single, Stats
<1> HIDE DEF red, black, change
<1>6. /\ Floored(red + change.red - Penalty(m, "red")) \in Int
      /\ Floored(black + change.black - Penalty(m, "black")) \in Int
  BY <1>3, <1>4, <1>5 DEF Floored, RatingFloor, Colours
<1>7. PICK r \in Int, b \in Int :
        /\ r = Floored(red + change.red - Penalty(m, "red"))
        /\ b = Floored(black + change.black - Penalty(m, "black"))
  BY <1>6
<1>8. PICK rs \in Stats, bs \in Stats : rs = Single(m, "red") /\ bs = Single(m, "black")
  BY <1>5 DEF Colours
<1>9. Penalized(m, done) =
        Booked(Booked(users, m.player["red"], "redRating" \in done, r, "redStats" \in done, rs),
               m.player["black"], "blackRating" \in done, b, "blackStats" \in done, bs)
  BY <1>7, <1>8 DEF Penalized, red, black, change
<1>10. Booked(users, m.player["red"], "redRating" \in done, r, "redStats" \in done, rs)
         \in [Users -> Account]
  BY <1>1, <1>2, BookedType
<1>11. QED
  BY <1>1, <1>9, <1>10, BookedType

DatabaseOK ==
  /\ rows \subseteq Row
  /\ archive \subseteq [id : MatchId, result : Results, lost : Nat]
  /\ users \in [Users -> Account]

\* The statements of a settlement keep the types of the three tables.
LEMMA SettledType ==
  ASSUME TypeOK, NEW m \in Match, NEW result \in Results, NEW done,
         Settled(m, result, done)
  PROVE  DatabaseOK'
<1>1. users' \in [Users -> Account]
  BY CreditedType DEF Settled, TypeOK
<1>2. rows' \subseteq Row
  BY DEF Settled, Unlisted, WithoutRow, TypeOK
<1>3. [id |-> m.id, result |-> result, lost |-> m.lost]
        \in [id : MatchId, result : Results, lost : Nat]
  BY DEF Match
<1>4. archive' \subseteq [id : MatchId, result : Results, lost : Nat]
  BY <1>3 DEF Settled, Archived, TypeOK
<1>5. QED
  BY <1>1, <1>2, <1>4 DEF DatabaseOK
-----------------------------------------------------------------------------
(***************************************************************************)
(* Type correctness.                                                       *)
(***************************************************************************)
MemoryOK ==
  /\ slots \in [Slots -> Match]
  /\ matchCount \in Nat
  /\ batch \subseteq Slots
  /\ sinceSweep \in 0..SweepPeriod
  /\ boot \in Nat

\* The type invariant is that of memory and that of the database.
LEMMA TypeOKSplit == /\ TypeOK <=> MemoryOK /\ DatabaseOK
                     /\ TypeOK' <=> MemoryOK' /\ DatabaseOK'
BY DEF TypeOK, MemoryOK, DatabaseOK

\* A restart leaves an empty, well-typed memory.
LEMMA RebootType ==
  ASSUME TypeOK, Reboot
  PROVE  MemoryOK'
BY BlankType, BoundsAssumption DEF Reboot, TypeOK, MemoryOK

\* Filling a free slot keeps the type of memory.
LEMMA PlaceType ==
  ASSUME TypeOK, NEW i \in Slots, NEW m \in Match, Place(i, m)
  PROVE  MemoryOK'
BY DEF Place, TypeOK, MemoryOK

\* A handler that rewrites one slot.
LEMMA RewriteType ==
  ASSUME TypeOK, NEW i \in Slots, NEW m \in Match,
         slots' = [slots EXCEPT ![i] = m],
         UNCHANGED <<matchCount, batch, sinceSweep, boot>>
  PROVE  MemoryOK'
BY DEF TypeOK, MemoryOK

\* match_create with match_persist keeps the types.
LEMMA CreateType ==
  ASSUME TypeOK, NEW i \in Slots, NEW m \in Match, CreateAndPersist(i, m)
  PROVE  TypeOK'
<1>1. MemoryOK'
  BY PlaceType DEF CreateAndPersist
<1>2. DatabaseOK'
  BY PersistedType DEF CreateAndPersist, TypeOK, DatabaseOK
<1>3. QED
  BY <1>1, <1>2, TypeOKSplit

\* What the lobby offers are users.
LEMMA OfferType ==
  ASSUME NEW offer \in Offers
  PROVE  offer[1] \in Users /\ offer[2] \in Users /\ offer[3] \in BOOLEAN
BY OffersAssumption

\* The requests that end a match keep the types.
LEMMA EndRequestType ==
  ASSUME NEW i, NEW result, NEW reason, EndRequest(i, result, reason)
  PROVE  result \in Results /\ reason \in ClientReasons /\ reason \in Reasons
BY DEF EndRequest, Results, ClientReasons, Reasons

\* Every step keeps the types.
LEMMA TypeInvariant == TypeOK /\ [Next]_vars => TypeOK'
<1> SUFFICES ASSUME TypeOK, [Next]_vars
             PROVE  TypeOK'
  OBVIOUS
<1>0. \A i \in Slots : slots[i] \in Match
  BY DEF TypeOK
<1>1. ASSUME NEW i \in Slots, NEW offer \in Offers, Create(i, offer)
      PROVE  TypeOK'
  <2>1. MoveTime \in 0..MoveTime
    BY BoundsAssumption
  <2>2. NewMatch(offer[1], offer[2], offer[3], MoveTime) \in Match
    BY <2>1, OfferType, NewMatchType
  <2>3. QED
    BY <1>1, <2>2, CreateType DEF Create
<1>2. ASSUME NEW i \in Slots, NEW offer \in Offers, CreateRolledBack(i, offer)
      PROVE  TypeOK'
  <2> DEFINE m == NewMatch(offer[1], offer[2], offer[3], MoveTime)
  <2>1. MoveTime \in 0..MoveTime
    BY BoundsAssumption
  <2>2. m \in Match
    BY <2>1, OfferType, NewMatchType
  <2>3. Finish(m, "aborted", "notify_failed") \in Match
    BY <2>2, FinishType DEF Reasons
  <2>4. Place(i, Finish(m, "aborted", "notify_failed"))
    BY <1>2 DEF CreateRolledBack
  <2>5. MemoryOK'
    BY <2>3, <2>4, PlaceType
  <2>6. DatabaseOK'
    BY <1>2, <2>2, PersistedType DEF CreateRolledBack, TypeOK, DatabaseOK
  <2>7. QED
    BY <2>5, <2>6, TypeOKSplit
<1>3. ASSUME NEW i \in Slots, NEW old \in Slots, Rematch(i, old)
      PROVE  TypeOK'
  <2> DEFINE time == IF slots[old].clock["red"] > 0 THEN slots[old].clock["red"] ELSE MoveTime
  <2>1. /\ slots[old].player["red"] \in Users /\ slots[old].player["black"] \in Users
        /\ slots[old].rated \in BOOLEAN /\ slots[old].clock["red"] \in 0..MoveTime
    BY <1>0 DEF Match, Colours
  <2>2. time \in 0..MoveTime
    BY <2>1, BoundsAssumption
  <2> HIDE DEF time
  <2>3. NewMatch(slots[old].player["black"], slots[old].player["red"], slots[old].rated, time)
          \in Match
    BY <2>1, <2>2, NewMatchType
  <2>4. QED
    BY <1>3, <2>3, CreateType DEF Rematch, time
<1>4. ASSUME NEW i \in Slots, NEW u \in Users, MoveRefused(u, i)
      PROVE  TypeOK'
  <2>1. Spent(slots[i]) \in Match
    BY <1>0, SpentType
  <2>2. MemoryOK'
    BY <1>4, <2>1, RewriteType DEF MoveRefused
  <2>3. DatabaseOK'
    BY <1>4 DEF MoveRefused, database, TypeOK, DatabaseOK
  <2>4. QED
    BY <2>2, <2>3, TypeOKSplit
<1>5. ASSUME NEW i \in Slots, NEW u \in Users, MoveAccepted(u, i)
      PROVE  TypeOK'
  <2>1. Moved(slots[i]) \in Match
    BY <1>0, MovedType
  <2>2. MemoryOK'
    BY <1>5, <2>1, RewriteType DEF MoveAccepted
  <2>3. DatabaseOK'
    BY <1>5, <2>1, PersistedType DEF MoveAccepted, TypeOK, DatabaseOK
  <2>4. QED
    BY <2>2, <2>3, TypeOKSplit
<1>6. ASSUME NEW i \in Slots, NEW result \in Results, NEW reason \in ClientReasons,
             End(i, result, reason)
      PROVE  TypeOK'
  <2>1. reason \in Reasons
    BY DEF ClientReasons, Reasons
  <2>2. Finish(slots[i], result, reason) \in Match
    BY <1>0, <2>1, FinishType
  <2>3. MemoryOK'
    BY <1>6, <2>2, RewriteType DEF End
  <2>4. DatabaseOK'
    BY <1>0, <1>6, SettledType DEF End
  <2>5. QED
    BY <2>3, <2>4, TypeOKSplit
<1>7. ASSUME NEW i \in Slots, NEW row \in rows, Join(i, row)
      PROVE  TypeOK'
  <2>1. Loaded(row) \in Match
    BY LoadedType DEF TypeOK
  <2>2. MemoryOK'
    BY <1>7, <2>1, PlaceType DEF Join, LoadFromDb
  <2>3. DatabaseOK'
    BY <1>7 DEF Join, LoadFromDb, database, TypeOK, DatabaseOK
  <2>4. QED
    BY <2>2, <2>3, TypeOKSplit
<1>8. CASE Crash
  <2>1. DatabaseOK'
    BY <1>8 DEF Crash, database, TypeOK, DatabaseOK
  <2>2. QED
    BY <1>8, <2>1, RebootType, TypeOKSplit DEF Crash
<1>9. ASSUME NEW i \in Slots, NEW u \in Users, CrashInPersist(u, i)
      PROVE  TypeOK'
  <2>1. Moved(slots[i]) \in Match
    BY <1>0, MovedType
  <2>2. DatabaseOK'
    BY <1>9, <2>1, PersistedType DEF CrashInPersist, TypeOK, DatabaseOK
  <2>3. QED
    BY <1>9, <2>2, RebootType, TypeOKSplit DEF CrashInPersist
<1>10. ASSUME NEW i \in Slots, NEW result \in Results, NEW reason \in ClientReasons,
              CrashInEnd(i, result, reason)
       PROVE  TypeOK'
  <2>1. DatabaseOK'
    BY <1>0, <1>10, SettledType DEF CrashInEnd
  <2>2. QED
    BY <1>10, <2>1, RebootType, TypeOKSplit DEF CrashInEnd
<1>11. ASSUME NEW i \in Slots, CrashInTimeout(i)
       PROVE  TypeOK'
  <2>1. DatabaseOK'
    BY <1>0, <1>11, PenalizedType DEF CrashInTimeout, TypeOK, DatabaseOK
  <2>2. QED
    BY <1>11, <2>1, RebootType, TypeOKSplit DEF CrashInTimeout
<1>12. CASE Tick
  <2>1. \A i \in Slots : slots[i].idle < MoveTime => [slots[i] EXCEPT !.idle = @ + 1] \in Match
    BY <1>0, BoundsAssumption DEF Match
  <2>2. slots' \in [Slots -> Match]
    BY <1>0, <1>12, <2>1 DEF Tick
  <2>3. sinceSweep' \in 0..SweepPeriod
    BY <1>12, BoundsAssumption DEF Tick, TypeOK
  <2>4. QED
    BY <1>12, <2>2, <2>3 DEF Tick, TypeOK, database
<1>13. CASE Sweep
  <2>1. \A i \in Slots : Finish(slots[i], WinOf(Other(slots[i].turn)), "timeout") \in Match
    BY <1>0, FinishType DEF WinOf, Results, Reasons
  <2>2. slots' \in [Slots -> Match]
    BY <1>0, <1>13, <2>1 DEF Sweep
  <2>3. batch' \subseteq Slots
    BY <1>13 DEF Sweep, FirstOf, Lapsed
  <2>4. QED
    BY <1>13, <2>2, <2>3, BoundsAssumption DEF Sweep, TypeOK, database
<1>14. ASSUME NEW i \in Slots, SettleTimeout(i)
       PROVE  TypeOK'
  <2>1. users' \in [Users -> Account]
    BY <1>0, <1>14, PenalizedType DEF SettleTimeout
  <2>2. QED
    BY <1>14, <2>1 DEF SettleTimeout, TypeOK
<1>15. CASE UNCHANGED vars
  BY <1>15 DEF vars, memory, database, TypeOK
<1>16. QED
  BY <1>1, <1>2, <1>3, <1>4, <1>5, <1>6, <1>7, <1>8, <1>9, <1>10, <1>11, <1>12, <1>13,
     <1>14, <1>15 DEF Next, Request, Failure, Settle

\* The types hold at the start.
LEMMA InitType == Init => TypeOK
<1>1. [rating |-> InitRating, stats |-> [wins |-> 0, losses |-> 0, draws |-> 0]] \in Account
  BY BoundsAssumption DEF Account, Stats
<1>2. QED
  BY <1>1, BlankType, BoundsAssumption DEF Init, TypeOK

(***************************************************************************)
(* Every field of the table and of the rows stays in its range: in         *)
(* particular the clocks between 0 and MoveTime, although match_update_    *)
(* timer subtracts whatever time has passed.                               *)
(***************************************************************************)
THEOREM TypeCorrect == Spec => []TypeOK
BY InitType, TypeInvariant, PTL DEF Spec
-----------------------------------------------------------------------------
(***************************************************************************)
(* The turn.                                                               *)
(***************************************************************************)
LEMMA ParityOfMoved ==
  ASSUME NEW m \in Match, ParityTellsTurn(m)
  PROVE  ParityTellsTurn(Moved(m))
<1>1. m.moveCount \in Nat
  BY DEF Match
<1>2. Moved(m).moveCount = m.moveCount + 1 /\ Moved(m).turn = Other(m.turn)
  BY DEF Moved, Match
<1>3. (m.moveCount + 1) % 2 = 0 <=> m.moveCount % 2 # 0
  BY <1>1
<1>4. QED
  BY <1>2, <1>3 DEF ParityTellsTurn, Other

\* A new match has made no move and red is to move.
LEMMA ParityOfNewMatch ==
  ASSUME NEW red, NEW black, NEW rated, NEW time
  PROVE  ParityTellsTurn(NewMatch(red, black, rated, time))
BY DEF ParityTellsTurn, NewMatch

\* The rows of a step that persists one match at most.
LEMMA ParityOfRows ==
  ASSUME TurnAgreesWithMoves, NEW m \in Match, ParityTellsTurn(m),
         rows' \subseteq rows \cup {RowOf(m)}
  PROVE  \A row \in rows' : ParityTellsTurn(row)
<1>1. ParityTellsTurn(RowOf(m))
  BY DEF ParityTellsTurn, RowOf
<1>2. QED
  BY <1>1 DEF TurnAgreesWithMoves

\* Rewriting one slot with a match whose parity is right keeps the others right.
LEMMA ParityOfSlots ==
  ASSUME TypeOK, TurnAgreesWithMoves, NEW i \in Slots, NEW m, ParityTellsTurn(m),
         slots' = [slots EXCEPT ![i] = m]
  PROVE  \A j \in Slots : ParityTellsTurn(slots'[j])
BY DEF TypeOK, TurnAgreesWithMoves

\* Blank slots have the parity right.
LEMMA ParityOfReboot ==
  ASSUME Reboot
  PROVE  \A j \in Slots : ParityTellsTurn(slots'[j])
BY DEF Reboot, Blank, ParityTellsTurn

\* Every step keeps turn and parity together.
LEMMA TurnInvariant == TypeOK /\ TurnAgreesWithMoves /\ [Next]_vars => TurnAgreesWithMoves'
<1> SUFFICES ASSUME TypeOK, TurnAgreesWithMoves, [Next]_vars
             PROVE  TurnAgreesWithMoves'
  OBVIOUS
<1> USE DEF TurnAgreesWithMoves
<1>0. /\ \A i \in Slots : slots[i] \in Match /\ Moved(slots[i]) \in Match
      /\ \A i \in Slots : ParityTellsTurn(slots[i]) /\ ParityTellsTurn(Moved(slots[i]))
  BY ParityOfMoved, MovedType DEF TypeOK
<1>1. ASSUME NEW m, NEW i \in Slots, m \in Match, ParityTellsTurn(m), CreateAndPersist(i, m)
      PROVE  TurnAgreesWithMoves'
  <2>1. \A j \in Slots : ParityTellsTurn(slots'[j])
    BY <1>1, ParityOfSlots DEF CreateAndPersist, Place
  <2>2. rows' \subseteq rows \cup {RowOf(m)}
    BY <1>1, PersistedRows DEF CreateAndPersist
  <2>3. QED
    BY <1>1, <2>1, <2>2, ParityOfRows DEF ParityTellsTurn
<1>2. ASSUME NEW i \in Slots, NEW offer \in Offers, Create(i, offer)
      PROVE  TurnAgreesWithMoves'
  <2>1. MoveTime \in 0..MoveTime
    BY BoundsAssumption
  <2>2. NewMatch(offer[1], offer[2], offer[3], MoveTime) \in Match
    BY <2>1, OfferType, NewMatchType
  <2>3. QED
    BY <1>1, <1>2, <2>2, ParityOfNewMatch DEF Create
<1>3. ASSUME NEW i \in Slots, NEW offer \in Offers, CreateRolledBack(i, offer)
      PROVE  TurnAgreesWithMoves'
  <2> DEFINE m == NewMatch(offer[1], offer[2], offer[3], MoveTime)
  <2>1. MoveTime \in 0..MoveTime
    BY BoundsAssumption
  <2>2. m \in Match /\ ParityTellsTurn(m)
    BY <2>1, OfferType, NewMatchType, ParityOfNewMatch
  <2> HIDE DEF m
  <2>3. ParityTellsTurn(Finish(m, "aborted", "notify_failed"))
    BY <2>2 DEF ParityTellsTurn, Finish, Match
  <2>4. Place(i, Finish(m, "aborted", "notify_failed"))
    BY <1>3 DEF CreateRolledBack, m
  <2>5. \A j \in Slots : ParityTellsTurn(slots'[j])
    BY <2>3, <2>4, ParityOfSlots DEF Place
  <2>6. rows' \subseteq rows \cup {RowOf(m)}
    BY <1>3, PersistedRows DEF CreateRolledBack, m
  <2>7. QED
    BY <2>2, <2>5, <2>6, ParityOfRows DEF ParityTellsTurn
<1>4. ASSUME NEW i \in Slots, NEW old \in Slots, Rematch(i, old)
      PROVE  TurnAgreesWithMoves'
  <2> DEFINE time == IF slots[old].clock["red"] > 0 THEN slots[old].clock["red"] ELSE MoveTime
             m == NewMatch(slots[old].player["black"], slots[old].player["red"],
                           slots[old].rated, time)
  <2>1. /\ slots[old].player["red"] \in Users /\ slots[old].player["black"] \in Users
        /\ slots[old].rated \in BOOLEAN /\ slots[old].clock["red"] \in 0..MoveTime
    BY <1>0 DEF Match, Colours
  <2>2. time \in 0..MoveTime
    BY <2>1, BoundsAssumption
  <2>3. CreateAndPersist(i, m)
    BY <1>4 DEF Rematch
  <2> HIDE DEF time
  <2>4. m \in Match /\ ParityTellsTurn(m)
    BY <2>1, <2>2, NewMatchType, ParityOfNewMatch
  <2>5. QED
    BY <1>1, <2>3, <2>4
<1>5. ASSUME NEW i \in Slots, NEW u \in Users, MoveRefused(u, i)
      PROVE  TurnAgreesWithMoves'
  <2>1. ParityTellsTurn(Spent(slots[i]))
    BY <1>0 DEF ParityTellsTurn, Spent, Match
  <2>2. QED
    BY <1>5, <2>1, ParityOfSlots DEF MoveRefused, database, ParityTellsTurn
<1>6. ASSUME NEW i \in Slots, NEW u \in Users, MoveAccepted(u, i)
      PROVE  TurnAgreesWithMoves'
  <2>1. \A j \in Slots : ParityTellsTurn(slots'[j])
    BY <1>0, <1>6, ParityOfSlots DEF MoveAccepted
  <2>2. rows' \subseteq rows \cup {RowOf(Moved(slots[i]))}
    BY <1>6, PersistedRows DEF MoveAccepted
  <2>3. QED
    BY <1>0, <2>1, <2>2, ParityOfRows DEF ParityTellsTurn
<1>7. ASSUME NEW i \in Slots, NEW result \in Results, NEW reason \in ClientReasons,
             End(i, result, reason)
      PROVE  TurnAgreesWithMoves'
  <2>1. ParityTellsTurn(Finish(slots[i], result, reason))
    BY <1>0 DEF ParityTellsTurn, Finish, Match
  <2>2. \A j \in Slots : ParityTellsTurn(slots'[j])
    BY <1>7, <2>1, ParityOfSlots DEF End
  <2>3. rows' \subseteq rows
    BY <1>7 DEF End, Settled, Unlisted, WithoutRow
  <2>4. QED
    BY <2>2, <2>3 DEF ParityTellsTurn
<1>8. ASSUME NEW i \in Slots, NEW row \in rows, Join(i, row)
      PROVE  TurnAgreesWithMoves'
  <2>1. ParityTellsTurn(Loaded(row))
    BY DEF ParityTellsTurn, Loaded
  <2>2. QED
    BY <1>8, <2>1, ParityOfSlots DEF Join, LoadFromDb, Place, database, ParityTellsTurn
<1>9. CASE Crash
  BY <1>9, ParityOfReboot DEF Crash, database, ParityTellsTurn
<1>10. ASSUME NEW i \in Slots, NEW u \in Users, CrashInPersist(u, i)
       PROVE  TurnAgreesWithMoves'
  <2>1. rows' \subseteq rows \cup {RowOf(Moved(slots[i]))}
    BY <1>10, PersistedRows DEF CrashInPersist
  <2>2. \A row \in rows' : ParityTellsTurn(row)
    BY <1>0, <2>1, ParityOfRows
  <2>3. QED
    BY <1>10, <2>2, ParityOfReboot DEF CrashInPersist, ParityTellsTurn
<1>11. ASSUME NEW i \in Slots, NEW result \in Results, NEW reason \in ClientReasons,
              CrashInEnd(i, result, reason)
       PROVE  TurnAgreesWithMoves'
  <2>1. rows' \subseteq rows
    BY <1>11 DEF CrashInEnd, Settled, Unlisted, WithoutRow
  <2>2. QED
    BY <1>11, <2>1, ParityOfReboot DEF CrashInEnd, ParityTellsTurn
<1>12. ASSUME NEW i \in Slots, CrashInTimeout(i)
       PROVE  TurnAgreesWithMoves'
  BY <1>12, ParityOfReboot DEF CrashInTimeout, ParityTellsTurn
<1>13. CASE Tick
  <2>1. \A i \in Slots : slots'[i].turn = slots[i].turn /\ slots'[i].moveCount = slots[i].moveCount
    BY <1>0, <1>13 DEF Tick, Match
  <2>2. QED
    BY <1>13, <2>1 DEF Tick, database, ParityTellsTurn
<1>14. CASE Sweep
  <2>1. \A i \in Slots : slots'[i].turn = slots[i].turn /\ slots'[i].moveCount = slots[i].moveCount
    BY <1>0, <1>14 DEF Sweep, Finish, Match
  <2>2. QED
    BY <1>14, <2>1 DEF Sweep, database, ParityTellsTurn
<1>15. ASSUME NEW i \in Slots, SettleTimeout(i)
       PROVE  TurnAgreesWithMoves'
  BY <1>15 DEF SettleTimeout, ParityTellsTurn
<1>16. CASE UNCHANGED vars
  BY <1>16 DEF vars, memory, database, ParityTellsTurn
<1>17. QED
  BY <1>2, <1>3, <1>4, <1>5, <1>6, <1>7, <1>8, <1>9, <1>10, <1>11, <1>12, <1>13,
     <1>14, <1>15, <1>16 DEF Next, Request, Failure, Settle

(***************************************************************************)
(* The player who may move is the one whose clock runs, in memory and in   *)
(* every row a match may be restored from - whatever statements fail and   *)
(* wherever the process dies.                                              *)
(***************************************************************************)
THEOREM TurnsAgree == Spec => []TurnAgreesWithMoves
<1>1. Init => TurnAgreesWithMoves
  BY DEF Init, TurnAgreesWithMoves, Blank, ParityTellsTurn
<1>2. QED
  BY <1>1, InitType, TypeInvariant, TurnInvariant, PTL DEF Spec
-----------------------------------------------------------------------------
(***************************************************************************)
(* The table of matches.                                                   *)
(***************************************************************************)
LEMMA BlankFields == Blank.id = NoId /\ ~Blank.active /\ Blank.reason = "none"
BY DEF Blank

\* Two slots are ordered or the same.
LEMMA SlotsAreInts == \A i, j \in Slots : i < j \/ j < i \/ i = j
BY BoundsAssumption DEF Slots

\* The first empty slot is the one after the slots in use.
LEMMA FirstFreeIsNext ==
  ASSUME TypeOK, UsedSlotsArePrefix, FreeSlotsAreBlank, NEW i \in Slots, FirstFree(i)
  PROVE  i = matchCount + 1 /\ slots[i] = Blank
<1>1. \A j \in Slots : Free(j) <=> slots[j].id = NoId
  BY BlankFields DEF Free, FreeSlotsAreBlank
<1>2. \A j \in Slots : Free(j) <=> ~(j <= matchCount)
  BY <1>1 DEF UsedSlotsArePrefix
<1>3. ~(i <= matchCount) /\ \A j \in Slots : j < i => j <= matchCount
  BY <1>2 DEF FirstFree
<1>4. i = matchCount + 1
  <2>1. i \in Int /\ 1 <= i /\ i <= MaxMatches /\ matchCount \in Nat /\ matchCount <= MaxMatches
    BY BoundsAssumption DEF Slots, TypeOK, UsedSlotsArePrefix
  <2>2. ASSUME i > matchCount + 1 PROVE FALSE
    <3>1. matchCount + 1 \in Slots
      BY <2>1, <2>2, BoundsAssumption DEF Slots
    <3>2. QED
      BY <1>3, <2>1, <2>2, <3>1
  <2>3. QED
    BY <1>3, <2>1, <2>2
<1>5. QED
  BY <1>1, <1>2, <1>3, <1>4 DEF FreeSlotsAreBlank

\* An active match that can be found is in one slot only.
LEMMA FoundIsAlone ==
  ASSUME CopiesAreUnreachable, NEW i \in Slots, Visible(i), slots[i].active
  PROVE  \A j \in Slots \ {i} : slots[j].id # slots[i].id
BY SlotsAreInts DEF CopiesAreUnreachable, Visible

\* The id of the next match is in no slot and in no row.
NextId == [boot |-> boot, n |-> matchCount + 1]

\* match_create makes an id that was never used.
LEMMA NextIdIsFresh ==
  ASSUME TypeOK, IdsAreCounted
  PROVE  /\ \A j \in Slots : slots[j].id # NextId
         /\ \A row \in rows : row.id # NextId
         /\ NextId # NoId
<1>1. boot \in Nat /\ boot >= 1 /\ matchCount \in Nat
  BY DEF TypeOK, IdsAreCounted
<1>2. ~CountedUpTo(NextId, boot, matchCount)
  BY <1>1 DEF CountedUpTo, NextId
<1>3. NextId # NoId
  BY <1>1 DEF NextId, NoId
<1>4. QED
  BY <1>2, <1>3 DEF IdsAreCounted

(***************************************************************************)
(* A step that keeps every id in its slot and leaves the inactive slots    *)
(* alone: the requests to a running match, the sweep and the clock.        *)
(***************************************************************************)
SlotsKept ==
  /\ matchCount' = matchCount
  /\ boot' = boot
  /\ \A j \in Slots :
       /\ slots'[j].id = slots[j].id
       /\ ~slots[j].active => slots'[j] = slots[j]
       /\ slots[j].active => (slots'[j].active <=> slots'[j].reason = "none")

\* Rows are added for matches that are found and go on.
RowsKept ==
  \A row \in rows' :
    \/ row \in rows
    \/ \E i \in Slots : /\ Visible(i) /\ slots[i].active /\ slots'[i].active
                        /\ row.id = slots[i].id

Listed(m) == \E row \in rows :
               /\ row.id = m.id
               /\ row.player = m.player
               /\ row.rated = m.rated
               /\ row.turn = m.turn
               /\ row.moveCount = m.moveCount

RunningListed ==
  DbFaults \cap {"delete", "insert"} = {} =>
    \A i \in Slots : slots[i].active => Listed(slots[i])

\* RunningMatchesAreListed in terms of RunningListed, now and next.
LEMMA ListedSplit == /\ RunningMatchesAreListed <=> RunningListed
                     /\ RunningMatchesAreListed' <=> RunningListed'
BY DEF RunningMatchesAreListed, RunningListed, Listed

Traceless(i) == /\ \A row \in rows : row.id # slots[i].id
                /\ \A j \in Slots \ {i} : slots[j].id # slots[i].id

\* EndedByPlayerIsFinal in terms of Traceless, now and next.
LEMMA FinalSplit ==
  /\ EndedByPlayerIsFinal
       <=> ("unlist" \notin DbFaults =>
              \A i \in Slots : slots[i].reason \in ClientReasons => Traceless(i))
  /\ EndedByPlayerIsFinal'
       <=> ("unlist" \notin DbFaults =>
              \A i \in Slots : slots'[i].reason \in ClientReasons => Traceless(i)')
BY DEF EndedByPlayerIsFinal, Traceless

\* A step that keeps the ids keeps what match_get finds.
LEMMA KeptVisible ==
  ASSUME SlotsKept, NEW i \in Slots
  PROVE  Visible(i)' <=> Visible(i)
BY DEF SlotsKept, Visible

\* A step that keeps slots and rows in the sense of SlotsKept and RowsKept keeps the bookkeeping.
LEMMA KeptBookkeeping ==
  ASSUME TypeOK, Bookkeeping, SlotsKept, RowsKept, RunningListed',
         "unlist" \notin DbFaults =>
           \A i \in Slots : slots[i].active /\ slots'[i].reason \in ClientReasons
                              => Traceless(i)'
  PROVE  Bookkeeping'
<1> USE DEF Bookkeeping
<1>1. UsedSlotsArePrefix'
  BY DEF SlotsKept, UsedSlotsArePrefix
<1>2. IdsAreCounted'
  <2>1. \A i \in Slots : slots'[i].id # NoId => CountedUpTo(slots'[i].id, boot, matchCount)
    BY DEF SlotsKept, IdsAreCounted
  <2>2. \A row \in rows' : CountedUpTo(row.id, boot, matchCount)
    BY DEF RowsKept, IdsAreCounted, Visible
  <2>3. QED
    BY <2>1, <2>2 DEF IdsAreCounted, SlotsKept
<1>3. FreeSlotsAreBlank'
  BY DEF SlotsKept, FreeSlotsAreBlank, Blank
<1>4. OngoingIffActive'
  BY DEF SlotsKept, OngoingIffActive
<1>5. CopiesAreUnreachable'
  BY KeptVisible DEF SlotsKept, CopiesAreUnreachable
<1>6. CopiesFollowALapse'
  BY KeptVisible DEF SlotsKept, CopiesFollowALapse
<1>7. EndedByPlayerIsFinal'
  <2> SUFFICES ASSUME "unlist" \notin DbFaults,
                      NEW i \in Slots, slots'[i].reason \in ClientReasons
               PROVE  Traceless(i)'
    BY FinalSplit
  <2>1. CASE slots[i].active
    BY <2>1
  <2>2. CASE ~slots[i].active
    <3>1. Traceless(i)
      BY <2>2, FinalSplit DEF SlotsKept
    <3>2. \A row \in rows' : row.id # slots[i].id
      BY <2>2, <3>1 DEF RowsKept, Traceless
    <3>3. \A j \in Slots \ {i} : slots'[j].id # slots'[i].id
      BY <3>1 DEF Traceless, SlotsKept
    <3>4. QED
      BY <3>2, <3>3 DEF Traceless, SlotsKept
  <2>3. QED
    BY <2>1, <2>2
<1>8. QED
  BY <1>1, <1>2, <1>3, <1>4, <1>5, <1>6, <1>7, ListedSplit

(***************************************************************************)
(* A step that fills the first empty slot: the creation of a match, which  *)
(* takes the next id, and the revival of one from its row.                 *)
(***************************************************************************)
RowsGrow(id) == \A row \in rows' : row \in rows \/ row.id = id

\* A step that fills the first free slot with a new or a revived match keeps the bookkeeping.
LEMMA PlacedBookkeeping ==
  ASSUME TypeOK, TypeOK', Bookkeeping, NEW i \in Slots, NEW m \in Match, Place(i, m),
         CountedUpTo(m.id, boot', matchCount'), m.id # NoId, m.active <=> m.reason = "none",
         m.reason \notin ClientReasons,
         RowsGrow(m.id), RunningListed',
         \A j \in Slots : Visible(j) /\ slots[j].id = m.id => ~slots[j].active,
         "unlist" \notin DbFaults =>
           \A j \in Slots : slots[j].id = m.id => slots[j].reason \notin ClientReasons
  PROVE  Bookkeeping'
<1> USE DEF Bookkeeping
<1>1. i = matchCount + 1 /\ slots[i] = Blank
  BY FirstFreeIsNext DEF Place
<1>2. /\ slots' = [slots EXCEPT ![i] = m]
      /\ matchCount' = matchCount + 1 /\ boot' = boot
      /\ slots \in [Slots -> Match] /\ matchCount \in Nat
  BY DEF Place, TypeOK
<1>3. slots'[i] = m /\ \A j \in Slots \ {i} : slots'[j] = slots[j]
  BY <1>2
<1>4. \A j \in Slots : j > i => slots[j].id = NoId
  BY <1>1, <1>2, BoundsAssumption DEF UsedSlotsArePrefix, Slots
<1>5. UsedSlotsArePrefix'
  <2>1. i <= MaxMatches
    BY BoundsAssumption DEF Slots
  <2>2. \A j \in Slots : j <= matchCount + 1 <=> j <= matchCount \/ j = i
    BY <1>1, <1>2, BoundsAssumption DEF Slots
  <2>3. \A j \in Slots : slots'[j].id # NoId <=> j <= matchCount \/ j = i
    BY <1>1, <1>2, <1>3 DEF UsedSlotsArePrefix
  <2>4. QED
    BY <1>1, <1>2, <2>1, <2>2, <2>3 DEF UsedSlotsArePrefix
<1>6. IdsAreCounted'
  <2>1. \A id \in MatchId :
          CountedUpTo(id, boot, matchCount) => CountedUpTo(id, boot', matchCount')
    BY <1>2 DEF CountedUpTo, MatchId
  <2>2. /\ \A j \in Slots : slots[j].id \in MatchId
        /\ \A row \in rows : row.id \in MatchId
    BY DEF TypeOK, Match, Row
  <2>3. \A j \in Slots : slots'[j].id # NoId => CountedUpTo(slots'[j].id, boot', matchCount')
    BY <1>3, <2>1, <2>2 DEF IdsAreCounted
  <2>4. \A row \in rows' : CountedUpTo(row.id, boot', matchCount')
    BY <2>1, <2>2 DEF RowsGrow, IdsAreCounted
  <2>5. boot' >= 1
    BY <1>2 DEF IdsAreCounted
  <2>6. QED
    BY <2>3, <2>4, <2>5 DEF IdsAreCounted
<1>7. FreeSlotsAreBlank'
  BY <1>3 DEF FreeSlotsAreBlank, Blank
<1>8. OngoingIffActive'
  BY <1>3 DEF OngoingIffActive
<1>9. \A a, b \in Slots : Visible(a)' /\ a < b /\ slots'[a].id = slots'[b].id =>
         /\ a # i /\ Visible(a) /\ slots'[a] = slots[a]
         /\ b = i => slots[a].id = m.id
         /\ b # i => slots'[b] = slots[b]
  <2> SUFFICES ASSUME NEW a \in Slots, NEW b \in Slots,
                      Visible(a)', a < b, slots'[a].id = slots'[b].id
               PROVE  /\ a # i /\ Visible(a) /\ slots'[a] = slots[a]
                      /\ b = i => slots[a].id = m.id
                      /\ b # i => slots'[b] = slots[b]
    OBVIOUS
  <2>1. a # i
    BY <1>3, <1>4, BoundsAssumption DEF Slots
  <2>2. ~(i < a)
    BY <1>3, <1>4, <2>1, BoundsAssumption DEF Slots, Visible
  <2>3. \A j \in Slots : j < a => j # i
    BY <2>2
  <2>4. Visible(a)
    BY <1>3, <2>1, <2>3 DEF Visible
  <2>5. QED
    BY <1>3, <2>1, <2>4
<1>10. CopiesAreUnreachable'
  BY <1>3, <1>9 DEF CopiesAreUnreachable
<1>11. CopiesFollowALapse'
  <2> SUFFICES ASSUME "unlist" \notin DbFaults, NEW a \in Slots, NEW b \in Slots,
                      Visible(a)', a < b, slots'[a].id = slots'[b].id
               PROVE  ~slots'[a].active /\ slots'[a].reason \in {"timeout", "notify_failed"}
    BY DEF CopiesFollowALapse
  <2>1. CASE b # i
    BY <1>3, <1>9, <2>1 DEF CopiesFollowALapse
  <2>2. CASE b = i
    <3>1. /\ Visible(a) /\ slots'[a] = slots[a] /\ slots[a].id = m.id
          /\ ~slots[a].active /\ slots[a].reason \notin ClientReasons
      BY <1>9, <2>2
    <3>2. slots[a].reason # "none" /\ slots[a].reason \in Reasons
      BY <1>2, <3>1 DEF OngoingIffActive, Visible, Match
    <3>3. QED
      BY <3>1, <3>2 DEF Reasons, ClientReasons
  <2>3. QED
    BY <2>1, <2>2
<1>12. EndedByPlayerIsFinal'
  <2> SUFFICES ASSUME "unlist" \notin DbFaults,
                      NEW j \in Slots, slots'[j].reason \in ClientReasons
               PROVE  Traceless(j)'
    BY FinalSplit
  <2>1. j # i /\ slots'[j] = slots[j]
    BY <1>3
  <2>2. Traceless(j) /\ slots[j].id # m.id
    BY <2>1, FinalSplit
  <2>3. \A row \in rows' : row.id # slots'[j].id
    BY <2>1, <2>2 DEF RowsGrow, Traceless
  <2>4. \A k \in Slots \ {j} : slots'[k].id # slots'[j].id
    BY <1>3, <2>1, <2>2 DEF Traceless
  <2>5. QED
    BY <2>3, <2>4 DEF Traceless
<1>13. QED
  BY <1>5, <1>6, <1>7, <1>8, <1>10, <1>11, <1>12, ListedSplit

(***************************************************************************)
(* A restart leaves the table empty; only the rows remain.                 *)
(***************************************************************************)
LEMMA RebootBookkeeping ==
  ASSUME TypeOK, Bookkeeping, Reboot,
         rows' \subseteq Row,
         \A row \in rows' : row \in rows \/ CountedUpTo(row.id, boot, matchCount)
  PROVE  Bookkeeping'
<1>1. /\ \A i \in Slots : slots'[i] = Blank
      /\ matchCount' = 0 /\ boot' = boot + 1 /\ boot \in Nat /\ boot >= 1
  BY DEF Reboot, TypeOK, Bookkeeping, IdsAreCounted
<1>2. UsedSlotsArePrefix'
  BY <1>1, BlankFields, BoundsAssumption DEF UsedSlotsArePrefix, Slots
<1>3. IdsAreCounted'
  <2>1. \A id \in MatchId :
          CountedUpTo(id, boot, matchCount) => CountedUpTo(id, boot + 1, 0)
    BY <1>1 DEF CountedUpTo, MatchId
  <2>2. \A row \in rows' : CountedUpTo(row.id, boot + 1, 0)
    BY <2>1 DEF IdsAreCounted, Bookkeeping, Row
  <2>3. QED
    BY <1>1, <2>2, BlankFields DEF IdsAreCounted
<1>4. FreeSlotsAreBlank' /\ OngoingIffActive'
  BY <1>1, BlankFields DEF FreeSlotsAreBlank, OngoingIffActive
<1>5. CopiesAreUnreachable' /\ CopiesFollowALapse'
  BY <1>1, BlankFields DEF CopiesAreUnreachable, CopiesFollowALapse, Visible
<1>6. RunningMatchesAreListed'
  BY <1>1, BlankFields DEF RunningMatchesAreListed
<1>7. EndedByPlayerIsFinal'
  BY <1>1, BlankFields DEF EndedByPlayerIsFinal, ClientReasons
<1>8. QED
  BY <1>2, <1>3, <1>4, <1>5, <1>6, <1>7 DEF Bookkeeping
-----------------------------------------------------------------------------
(***************************************************************************)
(* The statements a handler is sure of.                                    *)
(***************************************************************************)
LEMMA StatementsOfHandlers ==
  /\ "delete" \in Elements(PersistStatements) /\ "insert" \in Elements(PersistStatements)
  /\ "unlist" \in Elements(HandlerStatements)
<1>1. /\ Len(PersistStatements) = 2 /\ PersistStatements[1] = "delete"
      /\ PersistStatements[2] = "insert"
  BY DEF PersistStatements
<1>2. Len(HandlerStatements) = 6 /\ HandlerStatements[6] = "unlist"
  BY DEF HandlerStatements
<1>3. QED
  BY <1>1, <1>2 DEF Elements

\* A statement that cannot fail takes effect.
LEMMA SureStatements ==
  ASSUME NEW stmts, NEW done \in Outcomes(stmts), NEW s \in Elements(stmts), s \notin DbFaults
  PROVE  s \in done
BY DEF Outcomes

\* match_persist leaves the rows of other matches.
LEMMA PersistedKeepsOthers ==
  ASSUME NEW m, NEW done, NEW row \in rows, row.id # m.id
  PROVE  row \in Persisted(m, done)
BY DEF Persisted, WithoutRow

\* match_persist leaves the match's row, unless a statement fails.
LEMMA PersistedLists ==
  ASSUME NEW m, NEW done, "delete" \in done, "insert" \in done
  PROVE  RowOf(m) \in Persisted(m, done)
<1>1. \A row \in WithoutRow(m.id) : row.id # m.id
  BY DEF WithoutRow
<1>2. QED
  BY <1>1 DEF Persisted

\* A step that persists the match m lists it and keeps the other rows.
LEMMA PersistStep ==
  ASSUME NEW m, \E done \in Outcomes(PersistStatements) : rows' = Persisted(m, done)
  PROVE  /\ RowsGrow(m.id)
         /\ \A row \in rows : row.id # m.id => row \in rows'
         /\ DbFaults \cap {"delete", "insert"} = {} => RowOf(m) \in rows'
<1>1. PICK done \in Outcomes(PersistStatements) : rows' = Persisted(m, done)
  OBVIOUS
<1>2. RowsGrow(m.id)
  BY <1>1, PersistedRows DEF RowsGrow, RowOf
<1>3. \A row \in rows : row.id # m.id => row \in rows'
  BY <1>1, PersistedKeepsOthers
<1>4. ASSUME DbFaults \cap {"delete", "insert"} = {}
      PROVE  RowOf(m) \in rows'
  <2>1. "delete" \in done /\ "insert" \in done
    BY <1>4, StatementsOfHandlers, SureStatements
  <2>2. QED
    BY <1>1, <2>1, PersistedLists
<1>5. QED
  BY <1>2, <1>3, <1>4

\* match_create and match_persist with a match that is active.
LEMMA CreateBookkeeping ==
  ASSUME TypeOK, TypeOK', Bookkeeping, NEW i \in Slots, NEW m \in Match, NEW n \in Match,
         Place(i, n), n.id = NextId, m.id = NextId,
         n.active <=> n.reason = "none", n.reason \notin ClientReasons, n.active => n = m,
         \E done \in Outcomes(PersistStatements) : rows' = Persisted(m, done)
  PROVE  Bookkeeping'
<1>1. /\ \A j \in Slots : slots[j].id # NextId
      /\ \A row \in rows : row.id # NextId
      /\ NextId # NoId
  BY NextIdIsFresh DEF Bookkeeping
<1>2. CountedUpTo(NextId, boot', matchCount')
  BY DEF CountedUpTo, NextId, Place, TypeOK, Bookkeeping, IdsAreCounted
<1>3. /\ RowsGrow(NextId)
      /\ \A row \in rows : row \in rows'
      /\ DbFaults \cap {"delete", "insert"} = {} => RowOf(m) \in rows'
  BY <1>1, PersistStep
<1>4. slots'[i] = n /\ \A j \in Slots \ {i} : slots'[j] = slots[j]
  BY DEF Place, TypeOK
<1>5. RunningListed'
  <2> SUFFICES ASSUME DbFaults \cap {"delete", "insert"} = {}, NEW j \in Slots, slots'[j].active
               PROVE  Listed(slots[j])'
    BY DEF RunningListed
  <2>1. CASE j = i
    BY <1>3, <1>4, <2>1 DEF Listed, RowOf
  <2>2. CASE j # i
    BY <1>3, <1>4, <2>2, ListedSplit DEF Listed, RunningListed, Bookkeeping
  <2>3. QED
    BY <2>1, <2>2
<1>6. QED
  BY <1>1, <1>2, <1>3, <1>5, PlacedBookkeeping

\* A new match has the next id and runs.
LEMMA NewMatchFields ==
  ASSUME NEW red, NEW black, NEW rated, NEW time
  PROVE  /\ NewMatch(red, black, rated, time).id = NextId
         /\ NewMatch(red, black, rated, time).active
         /\ NewMatch(red, black, rated, time).reason = "none"
BY DEF NewMatch, NextId

\* match_create with match_persist keeps the bookkeeping.
LEMMA NewMatchBookkeeping ==
  ASSUME TypeOK, TypeOK', Bookkeeping, NEW i \in Slots,
         NEW red \in Users, NEW black \in Users, NEW rated \in BOOLEAN, NEW time \in 0..MoveTime,
         CreateAndPersist(i, NewMatch(red, black, rated, time))
  PROVE  Bookkeeping'
<1> DEFINE m == NewMatch(red, black, rated, time)
<1>1. m \in Match
  BY NewMatchType
<1>2. m.id = NextId /\ m.active /\ m.reason = "none"
  BY NewMatchFields
<1>3. Place(i, m) /\ \E done \in Outcomes(PersistStatements) : rows' = Persisted(m, done)
  BY DEF CreateAndPersist
<1> HIDE DEF m
<1>4. QED
  BY <1>1, <1>2, <1>3, CreateBookkeeping DEF ClientReasons
-----------------------------------------------------------------------------
(***************************************************************************)
(* The requests to a running match, action by action.                      *)
(***************************************************************************)
LEMMA ActiveFacts ==
  ASSUME Bookkeeping, NEW i \in Slots, slots[i].active
  PROVE  slots[i].id # NoId /\ slots[i].reason = "none"
BY BlankFields DEF Bookkeeping, OngoingIffActive, FreeSlotsAreBlank

\* The slot of a running match is rewritten and keeps its id.
LEMMA RewriteKept ==
  ASSUME Bookkeeping, NEW i \in Slots, slots[i].active,
         slots'[i].id = slots[i].id, slots'[i].active <=> slots'[i].reason = "none",
         \A j \in Slots \ {i} : slots'[j] = slots[j],
         matchCount' = matchCount, boot' = boot
  PROVE  SlotsKept
<1>1. \A j \in Slots : slots[j].active => slots[j].reason = "none"
  BY ActiveFacts
<1>2. QED
  BY <1>1 DEF SlotsKept

\* A match that a handler finds and that runs has no copy.
LEMMA FoundFacts ==
  ASSUME Bookkeeping, NEW i \in Slots, Found(i)
  PROVE  /\ Visible(i) /\ slots[i].active /\ slots[i].id # NoId
         /\ \A j \in Slots \ {i} : slots[j].id # slots[i].id
BY FoundIsAlone DEF Found, Visible, Bookkeeping

\* A move refused for lack of time keeps the bookkeeping.
LEMMA MoveRefusedBookkeeping ==
  ASSUME TypeOK, TypeOK', Bookkeeping, NEW i \in Slots, NEW u \in Users, MoveRefused(u, i)
  PROVE  Bookkeeping'
<1>1. Found(i) /\ slots[i].active
  BY DEF MoveRefused, MayMove, Found
<1>2. /\ slots'[i] = Spent(slots[i]) /\ \A j \in Slots \ {i} : slots'[j] = slots[j]
      /\ rows' = rows /\ matchCount' = matchCount /\ boot' = boot
  BY DEF MoveRefused, TypeOK, database
<1>3. /\ Spent(slots[i]).id = slots[i].id /\ Spent(slots[i]).player = slots[i].player
      /\ Spent(slots[i]).rated = slots[i].rated /\ Spent(slots[i]).turn = slots[i].turn
      /\ Spent(slots[i]).moveCount = slots[i].moveCount
      /\ Spent(slots[i]).active = slots[i].active /\ Spent(slots[i]).reason = slots[i].reason
  BY DEF Spent, TypeOK, Match
<1>4. slots[i].id # NoId /\ slots[i].reason = "none"
  BY <1>1, FoundFacts DEF Bookkeeping, OngoingIffActive
<1>5. SlotsKept
  BY <1>1, <1>2, <1>3, <1>4, RewriteKept
<1>6. RunningListed'
  BY <1>2, <1>3, ListedSplit DEF RunningListed, Listed, Bookkeeping
<1>7. \A j \in Slots : slots[j].active => slots'[j].reason \notin ClientReasons
  BY <1>2, <1>3, <1>4, ActiveFacts DEF ClientReasons
<1>8. QED
  BY <1>2, <1>5, <1>6, <1>7, KeptBookkeeping DEF RowsKept

\* An accepted move keeps the bookkeeping.
LEMMA MoveAcceptedBookkeeping ==
  ASSUME TypeOK, TypeOK', Bookkeeping, NEW i \in Slots, NEW u \in Users, MoveAccepted(u, i)
  PROVE  Bookkeeping'
<1> DEFINE m == Moved(slots[i])
<1>1. Found(i) /\ slots[i].active
  BY DEF MoveAccepted, MoveAllowed, MayMove, Found
<1>2. /\ slots'[i] = m /\ \A j \in Slots \ {i} : slots'[j] = slots[j]
      /\ matchCount' = matchCount /\ boot' = boot
      /\ \E done \in Outcomes(PersistStatements) : rows' = Persisted(m, done)
  BY DEF MoveAccepted, TypeOK
<1>3. /\ m.id = slots[i].id /\ m.player = slots[i].player /\ m.rated = slots[i].rated
      /\ m.active = slots[i].active /\ m.reason = slots[i].reason
  BY DEF Moved, TypeOK, Match
<1> HIDE DEF m
<1>4. /\ Visible(i) /\ slots[i].id # NoId /\ slots[i].reason = "none"
      /\ \A j \in Slots \ {i} : slots[j].id # slots[i].id
  BY <1>1, FoundFacts DEF Bookkeeping, OngoingIffActive
<1>5. /\ RowsGrow(slots[i].id)
      /\ \A row \in rows : row.id # slots[i].id => row \in rows'
      /\ DbFaults \cap {"delete", "insert"} = {} => RowOf(m) \in rows'
  BY <1>2, <1>3, PersistStep
<1>6. SlotsKept
  BY <1>1, <1>2, <1>3, <1>4, RewriteKept
<1>7. RowsKept
  BY <1>1, <1>2, <1>3, <1>4, <1>5 DEF RowsKept, RowsGrow
<1>8. RunningListed'
  <2> SUFFICES ASSUME DbFaults \cap {"delete", "insert"} = {}, NEW j \in Slots, slots'[j].active
               PROVE  Listed(slots[j])'
    BY DEF RunningListed
  <2>1. CASE j = i
    BY <1>2, <1>5, <2>1 DEF Listed, RowOf
  <2>2. CASE j # i
    BY <1>2, <1>4, <1>5, <2>2, ListedSplit DEF Listed, RunningListed, Bookkeeping
  <2>3. QED
    BY <2>1, <2>2
<1>9. \A j \in Slots : slots[j].active => slots'[j].reason \notin ClientReasons
  BY <1>2, <1>3, <1>4, ActiveFacts DEF ClientReasons
<1>10. QED
  BY <1>6, <1>7, <1>8, <1>9, KeptBookkeeping

\* A request that ends a match keeps the bookkeeping.
LEMMA EndBookkeeping ==
  ASSUME TypeOK, TypeOK', Bookkeeping, NEW i \in Slots, NEW result \in Results,
         NEW reason \in ClientReasons, End(i, result, reason)
  PROVE  Bookkeeping'
<1> DEFINE m == Finish(slots[i], result, reason)
<1>1. Found(i) /\ slots[i].active
  BY DEF End, EndRequest, Found
<1>2. /\ slots'[i] = m /\ \A j \in Slots \ {i} : slots'[j] = slots[j]
      /\ matchCount' = matchCount /\ boot' = boot
  BY DEF End, TypeOK
<1>3. /\ m.id = slots[i].id /\ ~m.active /\ m.reason = reason
  BY DEF Finish, TypeOK, Match
<1> HIDE DEF m
<1>4. reason # "none"
  BY DEF ClientReasons
<1>5. \A j \in Slots \ {i} : slots[j].id # slots[i].id
  BY <1>1, FoundFacts
<1>6. /\ rows' \subseteq rows
      /\ \A row \in rows : row.id # slots[i].id => row \in rows'
      /\ "unlist" \notin DbFaults => \A row \in rows' : row.id # slots[i].id
  <2>1. PICK done \in Outcomes(HandlerStatements) : rows' = Unlisted(slots[i], done)
    BY DEF End, Settled
  <2>2. "unlist" \notin DbFaults => "unlist" \in done
    BY StatementsOfHandlers, SureStatements
  <2>3. QED
    BY <2>1, <2>2 DEF Unlisted, WithoutRow
<1>7. SlotsKept
  BY <1>1, <1>2, <1>3, <1>4, RewriteKept
<1>8. RunningListed'
  BY <1>2, <1>3, <1>5, <1>6, ListedSplit DEF RunningListed, Listed, Bookkeeping
<1>9. ASSUME "unlist" \notin DbFaults, NEW j \in Slots,
             slots[j].active, slots'[j].reason \in ClientReasons
      PROVE  Traceless(j)'
  <2>1. j = i
    BY <1>2, <1>9, ActiveFacts DEF ClientReasons
  <2>2. QED
    BY <1>2, <1>3, <1>5, <1>6, <1>9, <2>1 DEF Traceless
<1>10. QED
  BY <1>6, <1>7, <1>8, <1>9, KeptBookkeeping DEF RowsKept

\* Loading a match from its row keeps the bookkeeping.
LEMMA JoinBookkeeping ==
  ASSUME TypeOK, TypeOK', Bookkeeping, NEW i \in Slots, NEW row \in rows, Join(i, row)
  PROVE  Bookkeeping'
<1> DEFINE m == Loaded(row)
<1>1. m \in Match
  BY LoadedType DEF TypeOK
<1>2. /\ m.id = row.id /\ m.player = row.player /\ m.rated = row.rated /\ m.turn = row.turn
      /\ m.moveCount = row.moveCount /\ m.active /\ m.reason = "none"
  BY DEF Loaded
<1>3. /\ Place(i, m) /\ rows' = rows
      /\ \A j \in Slots : Visible(j) /\ slots[j].id = row.id => ~slots[j].active
  BY DEF Join, LoadFromDb, database
<1> HIDE DEF m
<1>4. row.id # NoId /\ CountedUpTo(row.id, boot', matchCount')
  <2>1. CountedUpTo(row.id, boot, matchCount) /\ row.id \in MatchId
    BY DEF Bookkeeping, IdsAreCounted, TypeOK, Row
  <2>2. boot' = boot /\ matchCount' = matchCount + 1 /\ matchCount \in Nat /\ boot \in Nat
    BY <1>3 DEF Place, TypeOK
  <2>3. QED
    BY <2>1, <2>2 DEF CountedUpTo, NoId, MatchId
<1>5. slots'[i] = m /\ \A j \in Slots \ {i} : slots'[j] = slots[j]
  BY <1>3 DEF Place, TypeOK
<1>6. RunningListed'
  <2> SUFFICES ASSUME DbFaults \cap {"delete", "insert"} = {}, NEW j \in Slots, slots'[j].active
               PROVE  Listed(slots[j])'
    BY DEF RunningListed
  <2>1. CASE j = i
    BY <1>2, <1>3, <1>5, <2>1 DEF Listed
  <2>2. CASE j # i
    BY <1>3, <1>5, <2>2, ListedSplit DEF Listed, RunningListed, Bookkeeping
  <2>3. QED
    BY <2>1, <2>2
<1>7. "unlist" \notin DbFaults =>
        \A j \in Slots : slots[j].id = row.id => slots[j].reason \notin ClientReasons
  BY DEF Bookkeeping, EndedByPlayerIsFinal
<1>8. m.reason \notin ClientReasons /\ RowsGrow(m.id)
  BY <1>2, <1>3 DEF ClientReasons, RowsGrow
<1>9. QED
  BY <1>1, <1>2, <1>3, <1>4, <1>6, <1>7, <1>8, PlacedBookkeeping
-----------------------------------------------------------------------------
(***************************************************************************)
(* Time, the sweep, and the crashes.                                       *)
(***************************************************************************)

\* A step of the loop that leaves the rows alone and touches no slot but to
\* age it or to let it lapse.
LEMMA LoopBookkeeping ==
  ASSUME TypeOK, TypeOK', Bookkeeping,
         matchCount' = matchCount, boot' = boot, rows' = rows,
         \A j \in Slots :
           \/ slots'[j] = slots[j]
           \/ /\ slots[j].active
              /\ slots'[j].id = slots[j].id /\ slots'[j].player = slots[j].player
              /\ slots'[j].rated = slots[j].rated /\ slots'[j].turn = slots[j].turn
              /\ slots'[j].moveCount = slots[j].moveCount
              /\ \/ slots'[j].active /\ slots'[j].reason = "none"
                 \/ ~slots'[j].active /\ slots'[j].reason = "timeout"
  PROVE  Bookkeeping'
<1>1. SlotsKept
  BY ActiveFacts DEF SlotsKept
<1>2. RunningListed'
  BY ListedSplit DEF RunningListed, Listed, Bookkeeping
<1>3. \A j \in Slots : slots[j].active => slots'[j].reason \notin ClientReasons
  BY ActiveFacts DEF ClientReasons
<1>4. QED
  BY <1>1, <1>2, <1>3, KeptBookkeeping DEF RowsKept

\* The passing of time keeps the bookkeeping.
LEMMA TickBookkeeping == TypeOK /\ TypeOK' /\ Bookkeeping /\ Tick => Bookkeeping'
<1> SUFFICES ASSUME TypeOK, TypeOK', Bookkeeping, Tick
             PROVE  Bookkeeping'
  OBVIOUS
<1> DEFINE Aged(m) == [m EXCEPT !.idle = @ + 1]
<1>1. ASSUME NEW m \in Match
      PROVE  /\ Aged(m).id = m.id /\ Aged(m).player = m.player /\ Aged(m).rated = m.rated
             /\ Aged(m).turn = m.turn /\ Aged(m).moveCount = m.moveCount
             /\ Aged(m).active = m.active /\ Aged(m).reason = m.reason
  BY DEF Match
<1>2. /\ \A j \in Slots : slots'[j] = slots[j] \/ (slots[j].active /\ slots'[j] = Aged(slots[j]))
      /\ matchCount' = matchCount /\ boot' = boot /\ rows' = rows
  <2>1. slots' = [j \in Slots |-> IF slots[j].active /\ slots[j].idle < MoveTime THEN Aged(slots[j]) ELSE slots[j]]
    BY DEF Tick
  <2>2. \A j \in Slots : slots[j].active /\ slots[j].idle < MoveTime => slots[j].active
    OBVIOUS
  <2> HIDE DEF Aged
  <2>3. \A j \in Slots : slots'[j] = slots[j] \/ (slots[j].active /\ slots'[j] = Aged(slots[j]))
    BY <2>1, <2>2
  <2>4. QED
    BY <2>3 DEF Tick, database
<1>3. \A j \in Slots : slots[j] \in Match
  BY DEF TypeOK
<1> HIDE DEF Aged
<1>4. QED
  BY <1>1, <1>2, <1>3, ActiveFacts, LoopBookkeeping

\* The sweep keeps the bookkeeping.
LEMMA SweepBookkeeping == TypeOK /\ TypeOK' /\ Bookkeeping /\ Sweep => Bookkeeping'
<1> SUFFICES ASSUME TypeOK, TypeOK', Bookkeeping, Sweep
             PROVE  Bookkeeping'
  OBVIOUS
<1> DEFINE Ended(m) == Finish(m, WinOf(Other(m.turn)), "timeout")
<1>1. ASSUME NEW m \in Match
      PROVE  /\ Ended(m).id = m.id /\ Ended(m).player = m.player /\ Ended(m).rated = m.rated
             /\ Ended(m).turn = m.turn /\ Ended(m).moveCount = m.moveCount
             /\ ~Ended(m).active /\ Ended(m).reason = "timeout"
  BY DEF Match, Finish
<1>2. /\ \A j \in Slots : slots'[j] = slots[j] \/ (slots[j].active /\ slots'[j] = Ended(slots[j]))
      /\ matchCount' = matchCount /\ boot' = boot /\ rows' = rows
  <2>1. slots' = [j \in Slots |-> IF j \in Lapsed THEN Ended(slots[j]) ELSE slots[j]]
    BY DEF Sweep
  <2>2. \A j \in Slots : j \in Lapsed => slots[j].active
    BY DEF Lapsed
  <2> HIDE DEF Ended
  <2>3. \A j \in Slots : slots'[j] = slots[j] \/ (slots[j].active /\ slots'[j] = Ended(slots[j]))
    BY <2>1, <2>2
  <2>4. QED
    BY <2>3 DEF Sweep, database
<1>3. \A j \in Slots : slots[j] \in Match
  BY DEF TypeOK
<1> HIDE DEF Ended
<1>4. QED
  BY <1>1, <1>2, <1>3, LoopBookkeeping

\* A crash, amid statements or not, keeps the bookkeeping.
LEMMA FailureBookkeeping == TypeOK /\ TypeOK' /\ Bookkeeping /\ Failure => Bookkeeping'
<1> SUFFICES ASSUME TypeOK, TypeOK', Bookkeeping, Failure
             PROVE  Bookkeeping'
  OBVIOUS
<1>1. rows' \subseteq Row
  BY DEF TypeOK
<1>2. CASE Crash
  BY <1>1, <1>2, RebootBookkeeping DEF Crash, database
<1>3. ASSUME NEW i \in Slots, NEW u \in Users, CrashInPersist(u, i)
      PROVE  Bookkeeping'
  <2>1. Moved(slots[i]).id = slots[i].id
    BY DEF Moved, TypeOK, Match
  <2>2. \A row \in rows' : row \in rows \/ row.id = slots[i].id
    BY <1>3, <2>1, PersistedRows DEF CrashInPersist, RowOf
  <2>3. CountedUpTo(slots[i].id, boot, matchCount)
    BY <1>3 DEF CrashInPersist, MoveAllowed, MayMove, Found, Visible, Bookkeeping, IdsAreCounted
  <2>4. QED
    BY <1>1, <1>3, <2>2, <2>3, RebootBookkeeping DEF CrashInPersist
<1>4. ASSUME NEW i \in Slots, NEW result \in Results, NEW reason \in ClientReasons,
             CrashInEnd(i, result, reason)
      PROVE  Bookkeeping'
  <2>1. rows' \subseteq rows
    BY <1>4 DEF CrashInEnd, Settled, Unlisted, WithoutRow
  <2>2. QED
    BY <1>1, <1>4, <2>1, RebootBookkeeping DEF CrashInEnd
<1>5. ASSUME NEW i \in Slots, CrashInTimeout(i)
      PROVE  Bookkeeping'
  BY <1>1, <1>5, RebootBookkeeping DEF CrashInTimeout
<1>6. QED
  BY <1>2, <1>3, <1>4, <1>5 DEF Failure
-----------------------------------------------------------------------------
(***************************************************************************)
(* The invariant.                                                          *)
(***************************************************************************)
LEMMA BookkeepingInvariant == TypeOK /\ Bookkeeping /\ [Next]_vars => Bookkeeping'
<1> SUFFICES ASSUME TypeOK, Bookkeeping, [Next]_vars
             PROVE  Bookkeeping'
  OBVIOUS
<1>0. /\ TypeOK'
      /\ \A i \in Slots : slots[i] \in Match
  BY TypeInvariant DEF TypeOK
<1>1. ASSUME NEW i \in Slots, NEW offer \in Offers, Create(i, offer)
      PROVE  Bookkeeping'
  <2>1. MoveTime \in 0..MoveTime
    BY BoundsAssumption
  <2>2. QED
    BY <1>0, <1>1, <2>1, OfferType, NewMatchBookkeeping DEF Create
<1>2. ASSUME NEW i \in Slots, NEW offer \in Offers, CreateRolledBack(i, offer)
      PROVE  Bookkeeping'
  <2> DEFINE m == NewMatch(offer[1], offer[2], offer[3], MoveTime)
             n == Finish(m, "aborted", "notify_failed")
  <2>1. MoveTime \in 0..MoveTime
    BY BoundsAssumption
  <2>2. m \in Match
    BY <2>1, OfferType, NewMatchType
  <2>3. m.id = NextId
    BY NewMatchFields
  <2>4. Place(i, n) /\ \E done \in Outcomes(PersistStatements) : rows' = Persisted(m, done)
    BY <1>2 DEF CreateRolledBack
  <2> HIDE DEF m
  <2>5. n \in Match
    BY <2>2, FinishType DEF Reasons
  <2>6. n.id = NextId /\ ~n.active /\ n.reason = "notify_failed"
    BY <2>2, <2>3 DEF Finish, Match
  <2> HIDE DEF n
  <2>7. QED
    BY <1>0, <2>2, <2>3, <2>4, <2>5, <2>6, CreateBookkeeping DEF ClientReasons
<1>3. ASSUME NEW i \in Slots, NEW old \in Slots, Rematch(i, old)
      PROVE  Bookkeeping'
  <2> DEFINE time == IF slots[old].clock["red"] > 0 THEN slots[old].clock["red"] ELSE MoveTime
  <2>1. /\ slots[old].player["red"] \in Users /\ slots[old].player["black"] \in Users
        /\ slots[old].rated \in BOOLEAN /\ slots[old].clock["red"] \in 0..MoveTime
    BY <1>0 DEF Match, Colours
  <2>2. time \in 0..MoveTime
    BY <2>1, BoundsAssumption
  <2>3. CreateAndPersist(i, NewMatch(slots[old].player["black"], slots[old].player["red"],
                                     slots[old].rated, time))
    BY <1>3 DEF Rematch
  <2> HIDE DEF time
  <2>4. QED
    BY <1>0, <2>1, <2>2, <2>3, NewMatchBookkeeping
<1>4. ASSUME NEW i \in Slots, NEW u \in Users, MoveRefused(u, i)
      PROVE  Bookkeeping'
  BY <1>0, <1>4, MoveRefusedBookkeeping
<1>5. ASSUME NEW i \in Slots, NEW u \in Users, MoveAccepted(u, i)
      PROVE  Bookkeeping'
  BY <1>0, <1>5, MoveAcceptedBookkeeping
<1>6. ASSUME NEW i \in Slots, NEW result \in Results, NEW reason \in ClientReasons,
             End(i, result, reason)
      PROVE  Bookkeeping'
  BY <1>0, <1>6, EndBookkeeping
<1>7. ASSUME NEW i \in Slots, NEW row \in rows, Join(i, row)
      PROVE  Bookkeeping'
  BY <1>0, <1>7, JoinBookkeeping
<1>8. CASE Failure
  BY <1>0, <1>8, FailureBookkeeping
<1>9. CASE Tick
  BY <1>0, <1>9, TickBookkeeping
<1>10. CASE Sweep
  BY <1>0, <1>10, SweepBookkeeping
<1>11. ASSUME NEW i \in Slots, SettleTimeout(i)
       PROVE  Bookkeeping'
  BY <1>0, <1>11, LoopBookkeeping DEF SettleTimeout
<1>12. CASE UNCHANGED vars
  BY <1>0, <1>12, LoopBookkeeping DEF vars, memory, database
<1>13. QED
  BY <1>1, <1>2, <1>3, <1>4, <1>5, <1>6, <1>7, <1>8, <1>9, <1>10, <1>11, <1>12
     DEF Next, Request, Settle

\* The bookkeeping is right at the start.
LEMMA InitBookkeeping == Init => Bookkeeping
<1> SUFFICES ASSUME Init
             PROVE  Bookkeeping
  OBVIOUS
<1>1. /\ \A i \in Slots : slots[i] = Blank
      /\ matchCount = 0 /\ boot = 1 /\ rows = {}
  BY DEF Init
<1>2. UsedSlotsArePrefix
  BY <1>1, BlankFields, BoundsAssumption DEF UsedSlotsArePrefix, Slots
<1>3. IdsAreCounted /\ FreeSlotsAreBlank /\ OngoingIffActive
  BY <1>1, BlankFields DEF IdsAreCounted, FreeSlotsAreBlank, OngoingIffActive
<1>4. CopiesAreUnreachable /\ CopiesFollowALapse
  BY <1>1, BlankFields DEF CopiesAreUnreachable, CopiesFollowALapse, Visible
<1>5. RunningMatchesAreListed /\ EndedByPlayerIsFinal
  BY <1>1, BlankFields DEF RunningMatchesAreListed, EndedByPlayerIsFinal, ClientReasons
<1>6. QED
  BY <1>2, <1>3, <1>4, <1>5 DEF Bookkeeping

(***************************************************************************)
(* The inductive invariant holds: the fields have their types, turn and    *)
(* parity agree, and the bookkeeping of match_create, match_load_from_db   *)
(* and match_persist (ids, free slots, copies of a revived match, rows)    *)
(* is consistent, for every size of the table and every set of failing     *)
(* statements.                                                             *)
(***************************************************************************)
THEOREM Invariance == Spec => []IInv
<1>1. Init => TurnAgreesWithMoves
  BY DEF Init, TurnAgreesWithMoves, Blank, ParityTellsTurn
<1>2. Init => IInv
  BY <1>1, InitType, InitBookkeeping DEF IInv
<1>3. IInv /\ [Next]_vars => IInv'
  BY TypeInvariant, TurnInvariant, BookkeepingInvariant DEF IInv
<1>4. QED
  BY <1>2, <1>3, PTL DEF Spec

(***************************************************************************)
(* match_count and the search for an empty slot never part, so creating a  *)
(* match fails only when MAX_MATCHES of them were made, and no id is made  *)
(* twice.                                                                  *)
(***************************************************************************)
THEOREM PrefixTheorem == Spec => []UsedSlotsArePrefix
<1>1. IInv => UsedSlotsArePrefix
  BY DEF IInv, Bookkeeping
<1>2. QED
  BY <1>1, Invariance, PTL

(***************************************************************************)
(* A match that a player ended cannot be revived, whatever crashes, lapses *)
(* and requests to join come before or after, provided the DELETE of its   *)
(* row took effect.                                                        *)
(***************************************************************************)
THEOREM FinalTheorem == Spec => []EndedByPlayerIsFinal
<1>1. IInv => EndedByPlayerIsFinal
  BY DEF IInv, Bookkeeping
<1>2. QED
  BY <1>1, Invariance, PTL

(***************************************************************************)
(* Several slots hold a match only after it lapsed or was rolled back.     *)
(***************************************************************************)
THEOREM CopiesTheorem == Spec => []CopiesFollowALapse
<1>1. IInv => CopiesFollowALapse
  BY DEF IInv, Bookkeeping
<1>2. QED
  BY <1>1, Invariance, PTL

(***************************************************************************)
(* A running match can be restored from its row as it stands.              *)
(***************************************************************************)
THEOREM ListedTheorem == Spec => []RunningMatchesAreListed
<1>1. IInv => RunningMatchesAreListed
  BY DEF IInv, Bookkeeping
<1>2. QED
  BY <1>1, Invariance, PTL
-----------------------------------------------------------------------------
(***************************************************************************)
(* What a step may do to a slot in use while the process lives: nothing,   *)
(* or age it, or let it lapse, or rewrite it for a request to the match    *)
(* that is running in it.                                                  *)
(***************************************************************************)
SlotStep(i) ==
  \/ slots'[i] = slots[i]
  \/ /\ slots[i].active
     /\ \/ slots[i].idle < MoveTime /\ slots'[i] = [slots[i] EXCEPT !.idle = @ + 1]
        \/ slots'[i] = Finish(slots[i], WinOf(Other(slots[i].turn)), "timeout")
        \/ slots'[i] = Spent(slots[i])
        \/ Remaining(slots[i]) > 0 /\ slots'[i] = Moved(slots[i])
        \/ \E result, reason : slots'[i] = Finish(slots[i], result, reason)

\* Filling a free slot leaves the others alone.
LEMMA PlaceSpares ==
  ASSUME TypeOK, NEW i \in Slots, NEW k \in Slots, NEW m, Place(k, m), slots[i].id # NoId
  PROVE  SlotStep(i)
BY DEF Place, FirstFree, Free, SlotStep, TypeOK

\* Every step but a restart changes a used slot in one of the ways of SlotStep.
LEMMA UsedSlotStep ==
  ASSUME TypeOK, [Next]_vars, SameBoot, NEW i \in Slots, slots[i].id # NoId
  PROVE  SlotStep(i)
<1>1. ~Reboot
  BY DEF Reboot, SameBoot, TypeOK
<1>2. ~Failure
  BY <1>1 DEF Failure, Crash, CrashInPersist, CrashInEnd, CrashInTimeout
<1>3. ASSUME NEW k \in Slots, NEW offer \in Offers,
             Create(k, offer) \/ CreateRolledBack(k, offer)
      PROVE  SlotStep(i)
  BY <1>3, PlaceSpares DEF Create, CreateRolledBack, CreateAndPersist
<1>4. ASSUME NEW k \in Slots, NEW old \in Slots, Rematch(k, old)
      PROVE  SlotStep(i)
  BY <1>4, PlaceSpares DEF Rematch, CreateAndPersist
<1>5. ASSUME NEW k \in Slots, NEW row \in rows, Join(k, row)
      PROVE  SlotStep(i)
  BY <1>5, PlaceSpares DEF Join, LoadFromDb
<1>6. ASSUME NEW k \in Slots, NEW u \in Users, MoveRefused(u, k)
      PROVE  SlotStep(i)
  <2>1. slots[k].active /\ slots' = [slots EXCEPT ![k] = Spent(slots[k])]
    BY <1>6 DEF MoveRefused, MayMove, Found
  <2>2. QED
    BY <2>1 DEF SlotStep, TypeOK
<1>7. ASSUME NEW k \in Slots, NEW u \in Users, MoveAccepted(u, k)
      PROVE  SlotStep(i)
  <2>1. /\ slots[k].active /\ Remaining(slots[k]) > 0
        /\ slots' = [slots EXCEPT ![k] = Moved(slots[k])]
    BY <1>7 DEF MoveAccepted, MoveAllowed, MayMove, Found
  <2>2. QED
    BY <2>1 DEF SlotStep, TypeOK
<1>8. ASSUME NEW k \in Slots, NEW result \in Results, NEW reason \in ClientReasons,
             End(k, result, reason)
      PROVE  SlotStep(i)
  <2>1. slots[k].active /\ slots' = [slots EXCEPT ![k] = Finish(slots[k], result, reason)]
    BY <1>8 DEF End, EndRequest, Found
  <2>2. QED
    BY <2>1 DEF SlotStep, TypeOK
<1>9. CASE Tick
  BY <1>9 DEF Tick, SlotStep
<1>10. CASE Sweep
  BY <1>10 DEF Sweep, Lapsed, SlotStep
<1>11. ASSUME NEW k \in Slots, SettleTimeout(k)
       PROVE  SlotStep(i)
  BY <1>11 DEF SettleTimeout, SlotStep
<1>12. CASE UNCHANGED vars
  BY <1>12 DEF vars, memory, SlotStep
<1>13. QED
  BY <1>2, <1>3, <1>4, <1>5, <1>6, <1>7, <1>8, <1>9, <1>10, <1>11, <1>12
     DEF Next, Request, Settle

(***************************************************************************)
(* The first end of a match wins: no late move, second report of the end,  *)
(* resignation or sweep changes a match that is over.                      *)
(***************************************************************************)
THEOREM FrozenTheorem == Spec => EndedIsFrozen
<1>1. TypeOK /\ [Next]_vars =>
        \A i \in Slots : SameBoot /\ slots[i].id # NoId /\ ~slots[i].active
          => slots'[i] = slots[i]
  BY UsedSlotStep DEF SlotStep
<1>2. QED
  BY <1>1, TypeCorrect, PTL DEF Spec, EndedIsFrozen

\* match_end changes neither the clocks nor the moves.
LEMMA FinishKeepsClock ==
  ASSUME NEW m \in Match, NEW result, NEW reason
  PROVE  /\ Remaining(Finish(m, result, reason)) = Remaining(m)
         /\ Finish(m, result, reason).moveCount = m.moveCount
<1>1. /\ Finish(m, result, reason).idle = m.idle /\ Finish(m, result, reason).turn = m.turn
      /\ Finish(m, result, reason).clock = m.clock
      /\ Finish(m, result, reason).moveCount = m.moveCount
  BY DEF Finish, Match
<1>2. QED
  BY <1>1 DEF Remaining

\* The passing of time, counted or not, gives nobody time.
LEMMA RemainingShrinks ==
  ASSUME NEW m \in Match
  PROVE  /\ m.idle < MoveTime => Remaining([m EXCEPT !.idle = @ + 1]) <= Remaining(m)
         /\ Remaining(Spent(m)) <= Remaining(m)
         /\ Spent(m).moveCount = m.moveCount
<1>1. /\ m.idle \in Int /\ m.clock[m.turn] \in Int /\ m.idle >= 0 /\ m.clock[m.turn] >= 0
      /\ m.turn \in Colours /\ m.clock \in [Colours -> 0..MoveTime]
  BY BoundsAssumption DEF Match
<1>2. /\ [m EXCEPT !.idle = @ + 1].idle = m.idle + 1
      /\ [m EXCEPT !.idle = @ + 1].turn = m.turn
      /\ [m EXCEPT !.idle = @ + 1].clock = m.clock
  BY DEF Match
<1>3. Remaining([m EXCEPT !.idle = @ + 1]) <= Remaining(m)
  BY <1>1, <1>2 DEF Remaining
<1>4. /\ Spent(m).idle = 0 /\ Spent(m).turn = m.turn /\ Spent(m).moveCount = m.moveCount
      /\ Spent(m).clock = [m.clock EXCEPT ![m.turn] = Remaining(m)]
  BY DEF Spent, Match
<1>5. Spent(m).clock[m.turn] = Remaining(m)
  BY <1>1, <1>4
<1>6. Remaining(m) \in Int /\ Remaining(m) >= 0
  BY RemainingType, BoundsAssumption
<1>7. Remaining(Spent(m)) <= Remaining(m)
  <2>1. Remaining(Spent(m)) = IF Spent(m).clock[m.turn] > 0 THEN Spent(m).clock[m.turn] - 0 ELSE 0
    BY <1>4 DEF Remaining
  <2>2. QED
    BY <1>5, <1>6, <2>1
<1>8. QED
  BY <1>3, <1>4, <1>7

(***************************************************************************)
(* A move is accepted only while its player has time, and nothing but a    *)
(* move gives a player time, however late the sweep and however often a    *)
(* refused move charges the clock.                                         *)
(***************************************************************************)
THEOREM ClockTheorem == Spec => ClockIsHonest
<1>1. IInv /\ [Next]_vars =>
        \A i \in Slots : SameBoot /\ slots[i].active =>
          IF slots'[i].moveCount # slots[i].moveCount
          THEN Remaining(slots[i]) > 0
          ELSE Remaining(slots'[i]) <= Remaining(slots[i])
  <2> SUFFICES ASSUME IInv, [Next]_vars, NEW i \in Slots, SameBoot, slots[i].active
               PROVE  IF slots'[i].moveCount # slots[i].moveCount
                      THEN Remaining(slots[i]) > 0
                      ELSE Remaining(slots'[i]) <= Remaining(slots[i])
    OBVIOUS
  <2>1. slots[i] \in Match /\ slots[i].id # NoId
    BY ActiveFacts DEF IInv, TypeOK
  <2>2. SlotStep(i)
    BY <2>1, UsedSlotStep DEF IInv
  <2>3. Remaining(slots[i]) \in Int
    BY <2>1, RemainingType, BoundsAssumption
  <2>4. /\ [slots[i] EXCEPT !.idle = @ + 1].moveCount = slots[i].moveCount
        /\ Moved(slots[i]).moveCount = slots[i].moveCount + 1 /\ slots[i].moveCount \in Nat
    BY <2>1 DEF Moved, Match
  <2>5. CASE slots'[i] = slots[i]
    BY <2>3, <2>5
  <2>6. CASE slots[i].idle < MoveTime /\ slots'[i] = [slots[i] EXCEPT !.idle = @ + 1]
    BY <2>1, <2>4, <2>6, RemainingShrinks
  <2>7. CASE slots'[i] = Spent(slots[i])
    BY <2>1, <2>7, RemainingShrinks
  <2>8. CASE Remaining(slots[i]) > 0 /\ slots'[i] = Moved(slots[i])
    BY <2>4, <2>8
  <2>9. ASSUME NEW result, NEW reason, slots'[i] = Finish(slots[i], result, reason)
        PROVE  /\ slots'[i].moveCount = slots[i].moveCount
               /\ Remaining(slots'[i]) <= Remaining(slots[i])
    <3>1. /\ Remaining(Finish(slots[i], result, reason)) = Remaining(slots[i])
          /\ Finish(slots[i], result, reason).moveCount = slots[i].moveCount
      BY <2>1, FinishKeepsClock
    <3>2. /\ Remaining(slots'[i]) = Remaining(slots[i])
          /\ slots'[i].moveCount = slots[i].moveCount
      BY <2>9, <3>1
    <3>3. QED
      BY <2>3, <3>2
  <2>10. \/ slots'[i] = slots[i]
         \/ slots[i].idle < MoveTime /\ slots'[i] = [slots[i] EXCEPT !.idle = @ + 1]
         \/ slots'[i] = Spent(slots[i])
         \/ Remaining(slots[i]) > 0 /\ slots'[i] = Moved(slots[i])
         \/ \E result, reason : slots'[i] = Finish(slots[i], result, reason)
    BY <2>2, Zenon DEF SlotStep
  <2>11. QED
    BY <2>5, <2>6, <2>7, <2>8, <2>9, <2>10
<1>2. QED
  BY <1>1, Invariance, PTL DEF Spec, ClockIsHonest
-----------------------------------------------------------------------------
(***************************************************************************)
(* Payments.                                                               *)
(***************************************************************************)

\* A handler ends the match in slot i only by End, the loop settles it only
\* by SettleTimeout.
LEMMA WhoSettles ==
  ASSUME TypeOK, [Next]_vars, NEW i \in Slots
  PROVE  /\ SettledByHandler(i) =>
              \E result \in Results, reason \in ClientReasons : End(i, result, reason)
         /\ SettledByLoop(i) => SettleTimeout(i)
<1> DEFINE Goal == /\ SettledByHandler(i) =>
                        \E result \in Results, reason \in ClientReasons : End(i, result, reason)
                   /\ SettledByLoop(i) => SettleTimeout(i)
<1> USE DEF SettledByHandler, SettledByLoop, SameBoot
<1>1. ASSUME NEW k \in Slots, NEW m, Place(k, m)
      PROVE  Goal
  BY <1>1 DEF Place, FirstFree, Free, TypeOK
<1>2. ASSUME NEW k \in Slots, NEW offer \in Offers,
             Create(k, offer) \/ CreateRolledBack(k, offer)
      PROVE  Goal
  BY <1>1, <1>2 DEF Create, CreateRolledBack, CreateAndPersist
<1>3. ASSUME NEW k \in Slots, NEW old \in Slots, Rematch(k, old)
      PROVE  Goal
  BY <1>1, <1>3 DEF Rematch, CreateAndPersist
<1>4. ASSUME NEW k \in Slots, NEW row \in rows, Join(k, row)
      PROVE  Goal
  BY <1>1, <1>4 DEF Join, LoadFromDb
<1>5. ASSUME NEW k \in Slots, NEW m \in Match, m.active,
             slots' = [slots EXCEPT ![k] = m], batch' = batch
      PROVE  Goal
  BY <1>5 DEF TypeOK
<1>6. ASSUME NEW k \in Slots, NEW u \in Users, MoveRefused(u, k)
      PROVE  Goal
  <2>1. Spent(slots[k]) \in Match /\ Spent(slots[k]).active
    BY <1>6, SpentType DEF Spent, MoveRefused, MayMove, Found, TypeOK, Match
  <2>2. QED
    BY <1>5, <1>6, <2>1 DEF MoveRefused
<1>7. ASSUME NEW k \in Slots, NEW u \in Users, MoveAccepted(u, k)
      PROVE  Goal
  <2>1. slots[k] \in Match /\ slots[k].active
    BY <1>7 DEF MoveAccepted, MoveAllowed, MayMove, Found, TypeOK
  <2> HIDE DEF SettledByHandler, SettledByLoop, SameBoot
  <2>3. Moved(slots[k]) \in Match
    BY <2>1, MovedType
  <2>4. Moved(slots[k]).active
    BY <2>1 DEF Moved, Match
  <2>2. QED
    BY <1>5, <1>7, <2>3, <2>4 DEF MoveAccepted
<1>8. ASSUME NEW k \in Slots, NEW result \in Results, NEW reason \in ClientReasons,
             End(k, result, reason)
      PROVE  Goal
  <2>1. CASE k = i
    BY <1>8, <2>1 DEF End
  <2>2. CASE k # i
    BY <1>8, <2>2 DEF End, TypeOK
  <2>3. QED
    BY <2>1, <2>2
<1>9. CASE Failure
  BY <1>9 DEF Failure, Crash, CrashInPersist, CrashInEnd, CrashInTimeout, Reboot, TypeOK
<1>10. CASE Tick
  <2>1. slots[i].active => slots'[i].active
    BY <1>10 DEF Tick, TypeOK, Match
  <2>2. QED
    BY <1>10, <2>1 DEF Tick
<1>11. CASE Sweep
  <2>1. i \in Lapsed => slots'[i].reason = "timeout"
    BY <1>11 DEF Sweep, Finish, TypeOK, Match
  <2>2. i \notin Lapsed => slots'[i] = slots[i]
    BY <1>11 DEF Sweep
  <2>3. batch = {}
    BY <1>11 DEF Sweep, AtEventLoop
  <2>4. QED
    BY <2>1, <2>2, <2>3 DEF ClientReasons
<1>12. ASSUME NEW k \in Slots, SettleTimeout(k)
       PROVE  Goal
  BY <1>12 DEF SettleTimeout
<1>13. CASE UNCHANGED vars
  BY <1>13 DEF vars, memory
<1>14. QED
  BY <1>2, <1>3, <1>4, <1>6, <1>7, <1>8, <1>9, <1>10, <1>11, <1>12, <1>13
     DEF Next, Request, Settle

\* Only the settlement of a match writes accounts.
LEMMA WhoPays ==
  ASSUME TypeOK, [Next]_vars, SameBoot, users' # users
  PROVE  \E i \in Slots : \/ \E result \in Results, reason \in ClientReasons : End(i, result, reason)
                          \/ SettleTimeout(i)
<1>1. ~Failure
  BY DEF Failure, Crash, CrashInPersist, CrashInEnd, CrashInTimeout, Reboot, SameBoot, TypeOK
<1>2. ~Tick /\ ~Sweep /\ ~UNCHANGED vars
  BY DEF Tick, Sweep, vars, database
<1>3. \A i \in Slots, offer \in Offers : ~Create(i, offer) /\ ~CreateRolledBack(i, offer)
  BY DEF Create, CreateRolledBack, CreateAndPersist
<1>4. \A i \in Slots, old \in Slots : ~Rematch(i, old)
  BY DEF Rematch, CreateAndPersist
<1>5. \A i \in Slots, u \in Users : ~MoveRefused(u, i) /\ ~MoveAccepted(u, i)
  BY DEF MoveRefused, MoveAccepted, database
<1>6. \A i \in Slots, row \in rows : ~Join(i, row)
  BY DEF Join, LoadFromDb, database
<1>7. QED
  BY <1>1, <1>2, <1>3, <1>4, <1>5, <1>6 DEF Next, Request, Settle

\* What two written accounts hold afterwards.
LEMMA TwoBooked ==
  ASSUME NEW f \in [Users -> Account], NEW u \in Users, NEW v \in Users, NEW done,
         NEW ur \in Int, NEW us \in Stats, NEW vr \in Int, NEW vs \in Stats
  PROVE  LET g == Booked(Booked(f, u, "redRating" \in done, ur, "redStats" \in done, us),
                         v, "blackRating" \in done, vr, "blackStats" \in done, vs)
         IN  /\ \A w \in Users \ {u, v} : g[w] = f[w]
             /\ u # v => /\ g[u].rating = IF "redRating" \in done THEN ur ELSE f[u].rating
                         /\ g[v].rating = IF "blackRating" \in done THEN vr ELSE f[v].rating
<1> DEFINE h == Booked(f, u, "redRating" \in done, ur, "redStats" \in done, us)
           g == Booked(h, v, "blackRating" \in done, vr, "blackStats" \in done, vs)
<1>1. h \in [Users -> Account]
  BY BookedType
<1>2. /\ \A w \in Users \ {u} : h[w] = f[w]
      /\ h[u].rating = IF "redRating" \in done THEN ur ELSE f[u].rating
  BY DEF Booked, Account
<1> HIDE DEF h
<1>3. /\ \A w \in Users \ {v} : g[w] = h[w]
      /\ g[v].rating = IF "blackRating" \in done THEN vr ELSE h[v].rating
  BY <1>1 DEF Booked, Account
<1> HIDE DEF g
<1>4. /\ \A w \in Users \ {u, v} : g[w] = f[w]
      /\ u # v => /\ g[u].rating = IF "redRating" \in done THEN ur ELSE f[u].rating
                  /\ g[v].rating = IF "blackRating" \in done THEN vr ELSE f[v].rating
  BY <1>2, <1>3
<1>5. QED
  BY <1>4 DEF g, h

\* What a handler's settlement does to the accounts.
LEMMA CreditedFacts ==
  ASSUME TypeOK, NEW m \in Match, NEW result \in Results, NEW done
  PROVE  LET red    == m.player["red"]
             black  == m.player["black"]
             change == RatingChange(users[red].rating, users[black].rating, result)
             after  == Credited(m, result, done)
         IN  /\ \A w \in Users \ {red, black} : after[w] = users[w]
             /\ red # black =>
                  /\ after[red].rating = IF "redRating" \in done
                                         THEN users[red].rating + change.red
                                         ELSE users[red].rating
                  /\ after[black].rating = IF "blackRating" \in done
                                           THEN users[black].rating + change.black
                                           ELSE users[black].rating
<1> DEFINE red == m.player["red"]
           black == m.player["black"]
           change == RatingChange(users[red].rating, users[black].rating, result)
<1>1. red \in Users /\ black \in Users
  BY DEF Match, Colours
<1>2. users \in [Users -> Account]
  BY DEF TypeOK
<1>3. /\ users[red].rating \in Int /\ users[red].stats \in Stats
      /\ users[black].rating \in Int /\ users[black].stats \in Stats
  BY <1>1, <1>2 DEF Account
<1>4. change.red \in Int /\ change.black \in Int
  BY <1>3, RatingChangeType
<1>5. /\ OutcomeFor("red", result) \in {"win", "loss", "half"}
      /\ OutcomeFor("black", result) \in {"win", "loss", "half"}
  BY DEF OutcomeFor
<1>6. /\ Tally(users[red].stats, OutcomeFor("red", result)) \in Stats
      /\ Tally(users[black].stats, OutcomeFor("black", result)) \in Stats
  BY <1>3, <1>5, TallyType
<1> HIDE DEF red, black, change
<1>7. PICK r \in Int, b \in Int :
        r = users[red].rating + change.red /\ b = users[black].rating + change.black
  BY <1>3, <1>4
<1>8. PICK rs \in Stats, bs \in Stats :
        /\ rs = Tally(users[red].stats, OutcomeFor("red", result))
        /\ bs = Tally(users[black].stats, OutcomeFor("black", result))
  BY <1>6
<1>9. Credited(m, result, done) =
        Booked(Booked(users, red, "redRating" \in done, r, "redStats" \in done, rs),
               black, "blackRating" \in done, b, "blackStats" \in done, bs)
  BY <1>7, <1>8 DEF Credited, red, black, change
<1> DEFINE after == Booked(Booked(users, red, "redRating" \in done, r, "redStats" \in done, rs),
                           black, "blackRating" \in done, b, "blackStats" \in done, bs)
<1>10. /\ \A w \in Users \ {red, black} : after[w] = users[w]
       /\ red # black => /\ after[red].rating = IF "redRating" \in done THEN r ELSE users[red].rating
                         /\ after[black].rating = IF "blackRating" \in done THEN b
                                                  ELSE users[black].rating
  BY <1>1, <1>2, TwoBooked
<1>11. Credited(m, result, done) = after
  BY <1>9
<1> HIDE DEF after
<1>12. QED
  BY <1>7, <1>10, <1>11 DEF red, black, change

\* What the loop's settlement of a timeout does to the accounts.
LEMMA PenalizedFacts ==
  ASSUME TypeOK, NEW m \in Match, NEW done
  PROVE  LET red    == m.player["red"]
             black  == m.player["black"]
             change == RatingChange(users[red].rating, users[black].rating, m.result)
             after  == Penalized(m, done)
         IN  /\ \A w \in Users \ {red, black} : after[w] = users[w]
             /\ red # black =>
                  /\ after[red].rating =
                       IF "redRating" \in done
                       THEN Floored(users[red].rating + change.red - Penalty(m, "red"))
                       ELSE users[red].rating
                  /\ after[black].rating =
                       IF "blackRating" \in done
                       THEN Floored(users[black].rating + change.black - Penalty(m, "black"))
                       ELSE users[black].rating
<1> DEFINE red == m.player["red"]
           black == m.player["black"]
           change == RatingChange(users[red].rating, users[black].rating, m.result)
<1>1. red \in Users /\ black \in Users
  BY DEF Match, Colours
<1>2. users \in [Users -> Account]
  BY DEF TypeOK
<1>3. users[red].rating \in Int /\ users[black].rating \in Int
  BY <1>1, <1>2 DEF Account
<1>4. change.red \in Int /\ change.black \in Int
  BY <1>3, RatingChangeType
<1>5. \A c \in Colours : Penalty(m, c) \in Int /\ Single(m, c) \in Stats
  BY DEF Penalty, TimeoutPenalty, Single, Stats
<1> HIDE DEF red, black, change
<1>6. /\ Floored(users[red].rating + change.red - Penalty(m, "red")) \in Int
      /\ Floored(users[black].rating + change.black - Penalty(m, "black")) \in Int
  BY <1>3, <1>4, <1>5 DEF Floored, RatingFloor, Colours
<1>7. PICK r \in Int, b \in Int :
        /\ r = Floored(users[red].rating + change.red - Penalty(m, "red"))
        /\ b = Floored(users[black].rating + change.black - Penalty(m, "black"))
  BY <1>6
<1>8. PICK rs \in Stats, bs \in Stats : rs = Single(m, "red") /\ bs = Single(m, "black")
  BY <1>5 DEF Colours
<1>9. Penalized(m, done) =
        Booked(Booked(users, red, "redRating" \in done, r, "redStats" \in done, rs),
               black, "blackRating" \in done, b, "blackStats" \in done, bs)
  BY <1>7, <1>8 DEF Penalized, red, black, change
<1> DEFINE after == Booked(Booked(users, red, "redRating" \in done, r, "redStats" \in done, rs),
                           black, "blackRating" \in done, b, "blackStats" \in done, bs)
<1>10. /\ \A w \in Users \ {red, black} : after[w] = users[w]
       /\ red # black => /\ after[red].rating = IF "redRating" \in done THEN r ELSE users[red].rating
                         /\ after[black].rating = IF "blackRating" \in done THEN b
                                                  ELSE users[black].rating
  BY <1>1, <1>2, TwoBooked
<1>11. Penalized(m, done) = after
  BY <1>9
<1> HIDE DEF after
<1>12. QED
  BY <1>7, <1>10, <1>11 DEF red, black, change

(***************************************************************************)
(* Accounts change only by the settlement of a match of theirs that ends   *)
(* now, or whose lapse is settled now: no late or repeated request pays    *)
(* anybody again, whatever statements fail.                                *)
(***************************************************************************)
THEOREM PaidTheorem == Spec => PaidWithTheEnd
<1> DEFINE Paid == SameBoot =>
                     \A u \in Users : users'[u] # users[u] =>
                       \E i \in Slots :
                         /\ SettledByHandler(i) \/ SettledByLoop(i)
                         /\ \E c \in Colours : slots[i].player[c] = u
<1>1. ASSUME TypeOK, [Next]_vars
      PROVE  Paid
  <2> SUFFICES ASSUME SameBoot, NEW u \in Users, users'[u] # users[u]
               PROVE  \E i \in Slots :
                        /\ SettledByHandler(i) \/ SettledByLoop(i)
                        /\ \E c \in Colours : slots[i].player[c] = u
    OBVIOUS
  <2>1. ASSUME NEW i \in Slots, NEW result \in Results, NEW reason \in ClientReasons,
               End(i, result, reason)
        PROVE  /\ SettledByHandler(i)
               /\ \E c \in Colours : slots[i].player[c] = u
    <3>1. slots[i] \in Match
      BY <1>1 DEF TypeOK
    <3>2. slots[i].active /\ slots'[i] = Finish(slots[i], result, reason)
      BY <1>1, <2>1 DEF End, EndRequest, Found, TypeOK
    <3>3. SettledByHandler(i)
      BY <3>1, <3>2 DEF SettledByHandler, Finish, Match
    <3>4. PICK done : users' = IF slots[i].rated THEN Credited(slots[i], result, done) ELSE users
      BY <2>1 DEF End, Settled
    <3>5. u \in {slots[i].player["red"], slots[i].player["black"]}
      BY <1>1, <3>1, <3>4, CreditedFacts
    <3>6. QED
      BY <3>3, <3>5 DEF Colours
  <2>2. ASSUME NEW i \in Slots, SettleTimeout(i)
        PROVE  /\ SettledByLoop(i)
               /\ \E c \in Colours : slots[i].player[c] = u
    <3>1. slots[i] \in Match
      BY <1>1 DEF TypeOK
    <3>2. SettledByLoop(i)
      BY <2>2 DEF SettleTimeout, NextInBatch, SettledByLoop
    <3>3. PICK done : users' = Penalized(slots[i], done)
      BY <2>2 DEF SettleTimeout
    <3>4. u \in {slots[i].player["red"], slots[i].player["black"]}
      BY <1>1, <3>1, <3>3, PenalizedFacts
    <3>5. QED
      BY <3>2, <3>4 DEF Colours
  <2>3. QED
    BY <1>1, <2>1, <2>2, WhoPays
<1>2. TypeOK /\ [Next]_vars => [Paid]_vars
  BY <1>1
<1>3. QED
  BY <1>2, TypeCorrect, PTL DEF Spec, PaidWithTheEnd

(***************************************************************************)
(* As long as the updates of the ratings do not fail, a handler's          *)
(* settlement takes from one player what it gives the other, although the  *)
(* changes are rounded separately and the accounts written one by one.     *)
(***************************************************************************)
THEOREM ConserveTheorem == Spec => HandlersConservePoints
<1> DEFINE Zero == DbFaults \cap {"redRating", "blackRating"} = {} =>
                     \A i \in Slots :
                       SettledByHandler(i) /\ slots[i].player["red"] # slots[i].player["black"] =>
                         Gained(slots[i].player["red"]) + Gained(slots[i].player["black"]) = 0
<1>1. ASSUME TypeOK, [Next]_vars
      PROVE  Zero
  <2> SUFFICES ASSUME DbFaults \cap {"redRating", "blackRating"} = {},
                      NEW i \in Slots, SettledByHandler(i),
                      slots[i].player["red"] # slots[i].player["black"]
               PROVE  Gained(slots[i].player["red"]) + Gained(slots[i].player["black"]) = 0
    OBVIOUS
  <2> DEFINE red == slots[i].player["red"]
             black == slots[i].player["black"]
  <2>1. PICK result \in Results, reason \in ClientReasons : End(i, result, reason)
    BY <1>1, WhoSettles
  <2>2. PICK done \in Outcomes(HandlerStatements) :
          users' = IF slots[i].rated THEN Credited(slots[i], result, done) ELSE users
    BY <2>1 DEF End, Settled
  <2>3. "redRating" \in done /\ "blackRating" \in done
    <3>1. /\ Len(HandlerStatements) = 6 /\ HandlerStatements[1] = "redRating"
          /\ HandlerStatements[3] = "blackRating"
      BY DEF HandlerStatements
    <3>2. QED
      BY <3>1, SureStatements DEF Elements
  <2>4. slots[i] \in Match /\ red \in Users /\ black \in Users
    BY <1>1 DEF TypeOK, Match, Colours
  <2>5. users[red].rating \in Int /\ users[black].rating \in Int
    BY <1>1, <2>4 DEF TypeOK, Account
  <2> DEFINE change == RatingChange(users[red].rating, users[black].rating, result)
  <2>6. change.red \in Int /\ change.black = -change.red
    BY <2>5, RatingChangeZeroSum
  <2>7. CASE slots[i].rated
    <3>1. /\ users'[red].rating = users[red].rating + change.red
          /\ users'[black].rating = users[black].rating + change.black
      BY <1>1, <2>2, <2>3, <2>4, <2>7, CreditedFacts
    <3> HIDE DEF change, red, black
    <3>2. (users'[red].rating - users[red].rating)
            + (users'[black].rating - users[black].rating) = 0
      BY <2>5, <2>6, <3>1
    <3>3. QED
      BY <3>2 DEF Gained, red, black
  <2>8. CASE ~slots[i].rated
    BY <2>2, <2>5, <2>8 DEF Gained
  <2>9. QED
    BY <2>7, <2>8
<1>2. TypeOK /\ [Next]_vars => [Zero]_vars
  BY <1>1
<1>3. QED
  BY <1>2, TypeCorrect, PTL DEF Spec, HandlersConservePoints

\* What the winner of a rated match gains and the loser pays.
LEMMA WinnersChange ==
  ASSUME NEW r \in Int, NEW b \in Int
  PROVE  /\ LET change == RatingChange(r, b, "red_win")
            IN  change.red >= 0 /\ change.black <= 0
         /\ LET change == RatingChange(r, b, "black_win")
            IN  change.red <= 0 /\ change.black >= 0
<1>1. /\ RatingChange(r, b, "red_win").red \in Int
      /\ RatingChange(r, b, "red_win").black = -RatingChange(r, b, "red_win").red
  BY RatingChangeZeroSum
<1>2. /\ RatingChange(r, b, "black_win").red \in Int
      /\ RatingChange(r, b, "black_win").black = -RatingChange(r, b, "black_win").red
  BY RatingChangeZeroSum
<1>3. QED
  BY <1>1, <1>2, WinnerDoesNotPay

(***************************************************************************)
(* Whoever wins, by a handler or by a timeout, does not lose points, and   *)
(* the loser gains none unless the floor of the loop lifts him; for every  *)
(* pair of ratings and whichever of the statements fail.                   *)
(***************************************************************************)
THEOREM WinnersTheorem == Spec => WinnersGainLosersPay
<1> DEFINE Fair == \A i \in Slots, c \in Colours :
                     /\ SettledByHandler(i) \/ SettledByLoop(i)
                     /\ slots'[i].result = WinOf(c)
                     /\ slots[i].player[c] # slots[i].player[Other(c)]
                     => /\ Gained(slots[i].player[c]) >= 0
                        /\ \/ Gained(slots[i].player[Other(c)]) <= 0
                           \/ /\ SettledByLoop(i)
                              /\ users'[slots[i].player[Other(c)]].rating = RatingFloor
<1>1. ASSUME TypeOK, [Next]_vars
      PROVE  Fair
  <2> SUFFICES ASSUME NEW i \in Slots, NEW c \in Colours,
                      SettledByHandler(i) \/ SettledByLoop(i),
                      slots'[i].result = WinOf(c),
                      slots[i].player[c] # slots[i].player[Other(c)]
               PROVE  /\ Gained(slots[i].player[c]) >= 0
                      /\ \/ Gained(slots[i].player[Other(c)]) <= 0
                         \/ /\ SettledByLoop(i)
                            /\ users'[slots[i].player[Other(c)]].rating = RatingFloor
    OBVIOUS
  <2> DEFINE red == slots[i].player["red"]
             black == slots[i].player["black"]
             result == slots'[i].result
             change == RatingChange(users[red].rating, users[black].rating, result)
  <2>1. slots[i] \in Match /\ red \in Users /\ black \in Users
    BY <1>1 DEF TypeOK, Match, Colours
  <2>2. users[red].rating \in Int /\ users[black].rating \in Int
    BY <1>1, <2>1 DEF TypeOK, Account
  <2>3. \/ c = "red" /\ Other(c) = "black" /\ result = "red_win"
        \/ c = "black" /\ Other(c) = "red" /\ result = "black_win"
    <3>1. result = WinOf(c)
      OBVIOUS
    <3> HIDE DEF result
    <3>2. QED
      BY <3>1 DEF Colours, Other, WinOf
  <2>4. red # black
    BY <2>3
  <2>5. change.red \in Int /\ change.black \in Int
    BY <2>2, RatingChangeType
  <2>6. /\ c = "red" => change.red >= 0 /\ change.black <= 0
        /\ c = "black" => change.red <= 0 /\ change.black >= 0
    BY <2>2, <2>3, WinnersChange
  <2>7. CASE SettledByHandler(i)
    <3>1. PICK r \in Results, reason \in ClientReasons : End(i, r, reason)
      BY <1>1, <2>7, WhoSettles
    <3>2. result = r
      BY <1>1, <2>1, <3>1 DEF End, Finish, TypeOK, Match
    <3>3. PICK done : users' = IF slots[i].rated THEN Credited(slots[i], r, done) ELSE users
      BY <3>1 DEF End, Settled
    <3>4. /\ users'[red].rating \in {users[red].rating, users[red].rating + change.red}
          /\ users'[black].rating \in {users[black].rating, users[black].rating + change.black}
      <4>1. CASE ~slots[i].rated
        BY <3>3, <4>1
      <4>2. CASE slots[i].rated
        <5> DEFINE paid == RatingChange(users[red].rating, users[black].rating, r)
        <5>1. users' = Credited(slots[i], r, done)
          BY <3>3, <4>2
        <5>2. /\ users'[red].rating = IF "redRating" \in done THEN users[red].rating + paid.red
                                      ELSE users[red].rating
              /\ users'[black].rating = IF "blackRating" \in done
                                        THEN users[black].rating + paid.black
                                        ELSE users[black].rating
          BY <1>1, <2>1, <2>4, <5>1, CreditedFacts
        <5>3. paid = change
          BY <3>2
        <5> HIDE DEF paid, change
        <5>4. QED
          BY <5>2, <5>3
      <4>3. QED
        BY <4>1, <4>2
    <3> HIDE DEF change, result
    <3>5. /\ c = "red" => Gained(red) >= 0 /\ Gained(black) <= 0
          /\ c = "black" => Gained(red) <= 0 /\ Gained(black) >= 0
      <4> HIDE DEF red, black
      <4>1. QED
        BY <2>2, <2>5, <2>6, <3>4 DEF Gained
    <3>6. QED
      BY <2>3, <3>5
  <2>8. CASE SettledByLoop(i)
    <3>1. SettleTimeout(i)
      BY <1>1, <2>8, WhoSettles
    <3>2. slots[i].result = result
      BY <3>1 DEF SettleTimeout
    <3>3. PICK done : users' = Penalized(slots[i], done)
      BY <3>1 DEF SettleTimeout
    <3>4. /\ users'[red].rating \in
               {users[red].rating, Floored(users[red].rating + change.red - Penalty(slots[i], "red"))}
          /\ users'[black].rating \in
               {users[black].rating, Floored(users[black].rating + change.black - Penalty(slots[i], "black"))}
      <4> DEFINE paid == RatingChange(users[red].rating, users[black].rating, slots[i].result)
      <4>1. /\ users'[red].rating =
                 IF "redRating" \in done
                 THEN Floored(users[red].rating + paid.red - Penalty(slots[i], "red"))
                 ELSE users[red].rating
            /\ users'[black].rating =
                 IF "blackRating" \in done
                 THEN Floored(users[black].rating + paid.black - Penalty(slots[i], "black"))
                 ELSE users[black].rating
        BY <1>1, <2>1, <2>4, <3>3, PenalizedFacts
      <4>2. paid = change
        BY <3>2
      <4> HIDE DEF paid, change
      <4>3. QED
        BY <4>1, <4>2
    <3>5. /\ c = "red" => Penalty(slots[i], "red") = 0 /\ Penalty(slots[i], "black") = 25
          /\ c = "black" => Penalty(slots[i], "red") = 25 /\ Penalty(slots[i], "black") = 0
      BY <2>3, <3>2 DEF Penalty, WinOf, TimeoutPenalty
    <3> HIDE DEF change, result
    <3>6. /\ c = "red" => /\ Gained(red) >= 0
                          /\ Gained(black) <= 0 \/ users'[black].rating = RatingFloor
          /\ c = "black" => /\ Gained(black) >= 0
                            /\ Gained(red) <= 0 \/ users'[red].rating = RatingFloor
      <4> HIDE DEF red, black
      <4>1. CASE c = "red"
        BY <2>2, <2>5, <2>6, <3>4, <3>5, <4>1 DEF Gained, Floored, RatingFloor
      <4>2. CASE c = "black"
        BY <2>2, <2>5, <2>6, <3>4, <3>5, <4>2 DEF Gained, Floored, RatingFloor
      <4>3. QED
        BY <2>3, <4>1, <4>2
    <3>7. QED
      BY <2>3, <2>8, <3>6
  <2>9. QED
    BY <2>7, <2>8
<1>2. TypeOK /\ [Next]_vars => [Fair]_vars
  BY <1>1
<1>3. QED
  BY <1>2, TypeCorrect, PTL DEF Spec, WinnersGainLosersPay

-----------------------------------------------------------------------------
(***************************************************************************)
(* RowsOnlyAdvance is not inductive by itself: that match_persist writes   *)
(* no fewer moves than the row has needs that the match that match_get     *)
(* finds is never behind its row.  A revived match stands where its row    *)
(* stands, and counts every move of the row as lost.                       *)
(***************************************************************************)
Behind(row, m) == row.moveCount <= m.moveCount /\ row.lost <= m.lost

RowsAreBehind ==
  /\ \A one, two \in rows : one.id = two.id => one = two
  /\ \A row \in rows : row.lost <= row.moveCount
  /\ \A i \in Slots : slots[i].lost <= slots[i].moveCount
  /\ \A i \in Slots, row \in rows :
       Visible(i) /\ slots[i].active /\ row.id = slots[i].id => Behind(row, slots[i])

\* match_persist leaves one row at most for a match.
LEMMA PersistedUnique ==
  ASSUME NEW m, NEW done, \A one, two \in rows : one.id = two.id => one = two
  PROVE  \A one, two \in Persisted(m, done) : one.id = two.id => one = two
<1>1. RowOf(m).id = m.id
  BY DEF RowOf
<1>2. QED
  BY <1>1 DEF Persisted, WithoutRow

\* A step that adds no row and no match, and changes no count, keeps the rows behind.
LEMMA KeptBehind ==
  ASSUME RowsAreBehind, rows' \subseteq rows,
         \A i \in Slots : /\ slots'[i].id = slots[i].id
                          /\ slots'[i].active => slots[i].active
                          /\ slots'[i].moveCount = slots[i].moveCount
                          /\ slots'[i].lost = slots[i].lost
  PROVE  RowsAreBehind'
<1>1. \A i \in Slots : Visible(i)' => Visible(i)
  BY DEF Visible
<1>2. QED
  BY <1>1 DEF RowsAreBehind, Behind

\* A match in a fresh slot hides nothing that was found before.
LEMMA PlacedVisible ==
  ASSUME TypeOK, NEW k \in Slots, NEW m, Place(k, m)
  PROVE  /\ slots'[k] = m
         /\ \A i \in Slots \ {k} : slots'[i] = slots[i] /\ (Visible(i)' => Visible(i))
<1>1. slots'[k] = m /\ \A i \in Slots \ {k} : slots'[i] = slots[i]
  BY DEF Place, TypeOK
<1>2. slots[k].id = NoId
  BY DEF Place, FirstFree, Free
<1>3. QED
  BY <1>1, <1>2 DEF Visible

\* A new match starts level with the row that match_persist writes.
LEMMA FreshBehind ==
  ASSUME TypeOK, IdsAreCounted, RowsAreBehind, NEW k \in Slots, NEW m, NEW n, Place(k, n),
         m.id = NextId, m.moveCount = 0, m.lost = 0,
         n.id = NextId, n.moveCount = 0, n.lost = 0,
         \E done \in Outcomes(PersistStatements) : rows' = Persisted(m, done)
  PROVE  RowsAreBehind'
<1>1. PICK done : rows' = Persisted(m, done)
  OBVIOUS
<1>2. /\ rows' \subseteq rows \cup {RowOf(m)}
      /\ RowOf(m).id = NextId /\ RowOf(m).moveCount = 0 /\ RowOf(m).lost = 0
  BY <1>1, PersistedRows DEF RowOf
<1>3. /\ \A j \in Slots : slots[j].id # NextId
      /\ \A row \in rows : row.id # NextId
  BY NextIdIsFresh
<1>4. /\ slots'[k] = n
      /\ \A i \in Slots \ {k} : slots'[i] = slots[i] /\ (Visible(i)' => Visible(i))
  BY PlacedVisible
<1>5. \A one, two \in rows' : one.id = two.id => one = two
  BY <1>1, PersistedUnique DEF RowsAreBehind
<1>6. /\ \A row \in rows' : row.lost <= row.moveCount
      /\ \A i \in Slots : slots'[i].lost <= slots'[i].moveCount
  BY <1>2, <1>4 DEF RowsAreBehind
<1>7. ASSUME NEW i \in Slots, NEW row \in rows', Visible(i)', slots'[i].active,
             row.id = slots'[i].id
      PROVE  Behind(row, slots'[i])
  <2>1. CASE i = k
    BY <1>2, <1>3, <1>4, <1>7, <2>1 DEF Behind
  <2>2. CASE i # k
    BY <1>2, <1>3, <1>4, <1>7, <2>2 DEF RowsAreBehind
  <2>3. QED
    BY <2>1, <2>2
<1>8. QED
  BY <1>5, <1>6, <1>7 DEF RowsAreBehind

\* A new match has no moves.
LEMMA NewMatchMoves ==
  ASSUME NEW red, NEW black, NEW rated, NEW time
  PROVE  /\ NewMatch(red, black, rated, time).id = NextId
         /\ NewMatch(red, black, rated, time).moveCount = 0
         /\ NewMatch(red, black, rated, time).lost = 0
BY DEF NewMatch, NextId

\* A restart leaves no match, and so none that is behind its row.
LEMMA RebootBehind ==
  ASSUME Reboot, \A one, two \in rows' : one.id = two.id => one = two,
         \A row \in rows' : row.lost <= row.moveCount
  PROVE  RowsAreBehind'
<1>1. \A i \in Slots : /\ slots'[i].lost = 0 /\ slots'[i].moveCount = 0
                       /\ ~slots'[i].active
  BY DEF Reboot, Blank
<1>2. QED
  BY <1>1 DEF RowsAreBehind

\* The rows match_persist leaves after a move.
LEMMA MovedRows ==
  ASSUME TypeOK, RowsAreBehind, NEW i \in Slots, Found(i), NEW done,
         rows' = Persisted(Moved(slots[i]), done)
  PROVE  /\ \A one, two \in rows' : one.id = two.id => one = two
         /\ \A row \in rows' : row.lost <= row.moveCount
         /\ \A row \in rows' : row \in rows \/ row = RowOf(Moved(slots[i]))
         /\ RowOf(Moved(slots[i])).id = slots[i].id
         /\ RowOf(Moved(slots[i])).moveCount = slots[i].moveCount + 1
         /\ RowOf(Moved(slots[i])).lost = slots[i].lost
<1>1. /\ slots[i] \in Match /\ slots[i].moveCount \in Nat /\ slots[i].lost \in Nat
      /\ slots[i].lost <= slots[i].moveCount
  BY DEF TypeOK, Match, RowsAreBehind
<1>2. /\ RowOf(Moved(slots[i])).id = slots[i].id
      /\ RowOf(Moved(slots[i])).moveCount = slots[i].moveCount + 1
      /\ RowOf(Moved(slots[i])).lost = slots[i].lost
  BY <1>1 DEF RowOf, Moved, Match
<1>3. \A row \in rows' : row \in rows \/ row = RowOf(Moved(slots[i]))
  BY PersistedRows
<1>4. \A row \in rows' : row.lost <= row.moveCount
  BY <1>1, <1>2, <1>3 DEF RowsAreBehind
<1>5. \A one, two \in rows' : one.id = two.id => one = two
  BY PersistedUnique DEF RowsAreBehind
<1>6. QED
  BY <1>2, <1>3, <1>4, <1>5

\* A move brings the match in memory ahead of its row, and then the row level with it.
LEMMA MoveBehind ==
  ASSUME TypeOK, Bookkeeping, RowsAreBehind, NEW i \in Slots, NEW u \in Users, MoveAccepted(u, i)
  PROVE  RowsAreBehind'
<1>1. PICK done : rows' = Persisted(Moved(slots[i]), done)
  BY DEF MoveAccepted
<1>2. Found(i) /\ \A j \in Slots \ {i} : slots[j].id # slots[i].id
  BY FoundFacts DEF MoveAccepted, MoveAllowed, MayMove
<1>3. /\ \A one, two \in rows' : one.id = two.id => one = two
      /\ \A row \in rows' : row.lost <= row.moveCount
      /\ \A row \in rows' : row \in rows \/ row = RowOf(Moved(slots[i]))
      /\ RowOf(Moved(slots[i])).id = slots[i].id
      /\ RowOf(Moved(slots[i])).moveCount = slots[i].moveCount + 1
      /\ RowOf(Moved(slots[i])).lost = slots[i].lost
  BY <1>1, <1>2, MovedRows
<1>4. /\ slots'[i] = Moved(slots[i]) /\ \A j \in Slots \ {i} : slots'[j] = slots[j]
      /\ slots[i] \in Match
  BY DEF MoveAccepted, TypeOK
<1>5. /\ slots'[i].id = slots[i].id /\ slots'[i].moveCount = slots[i].moveCount + 1
      /\ slots'[i].lost = slots[i].lost /\ slots[i].moveCount \in Nat /\ slots[i].lost \in Nat
  BY <1>4 DEF Moved, Match
<1>6. \A j \in Slots : Visible(j)' => Visible(j)
  BY <1>4, <1>5 DEF Visible
<1>7. \A j \in Slots : slots'[j].lost <= slots'[j].moveCount
  BY <1>4, <1>5 DEF RowsAreBehind
<1>8. \A row \in rows : row.moveCount \in Nat /\ row.lost \in Nat
  BY DEF TypeOK, Row
<1>9. ASSUME NEW j \in Slots, NEW row \in rows', Visible(j)', slots'[j].active,
             row.id = slots'[j].id
      PROVE  Behind(row, slots'[j])
  <2>1. CASE j = i
    <3>1. Visible(i) /\ slots[i].active
      BY <1>2 DEF Found
    <3>2. CASE row \in rows
      BY <1>5, <1>8, <1>9, <2>1, <3>1, <3>2 DEF RowsAreBehind, Behind
    <3>3. CASE row = RowOf(Moved(slots[i]))
      BY <1>3, <1>5, <2>1, <3>3 DEF Behind
    <3>4. QED
      BY <1>3, <3>2, <3>3
  <2>2. CASE j # i
    BY <1>2, <1>3, <1>4, <1>6, <1>9, <2>2 DEF RowsAreBehind
  <2>3. QED
    BY <2>1, <2>2
<1>10. QED
  BY <1>3, <1>7, <1>9 DEF RowsAreBehind

\* A revived match stands where its row stands.
LEMMA JoinBehind ==
  ASSUME TypeOK, RowsAreBehind, NEW k \in Slots, NEW row \in rows, Join(k, row)
  PROVE  RowsAreBehind'
<1>1. /\ slots'[k] = Loaded(row)
      /\ \A i \in Slots \ {k} : slots'[i] = slots[i] /\ (Visible(i)' => Visible(i))
  BY PlacedVisible DEF Join, LoadFromDb
<1>2. rows' = rows
  BY DEF Join, LoadFromDb, database
<1>3. /\ Loaded(row).id = row.id /\ Loaded(row).moveCount = row.moveCount
      /\ Loaded(row).lost = row.moveCount /\ row.moveCount \in Nat /\ row.lost \in Nat
  BY DEF Loaded, TypeOK, Row
<1>4. Behind(row, Loaded(row))
  BY <1>3 DEF Behind, RowsAreBehind
<1>5. \A i \in Slots : slots'[i].lost <= slots'[i].moveCount
  BY <1>1, <1>3 DEF RowsAreBehind
<1>6. ASSUME NEW i \in Slots, NEW other \in rows', Visible(i)', slots'[i].active,
             other.id = slots'[i].id
      PROVE  Behind(other, slots'[i])
  <2>1. CASE i = k
    BY <1>1, <1>2, <1>3, <1>4, <1>6, <2>1 DEF RowsAreBehind
  <2>2. CASE i # k
    BY <1>1, <1>2, <1>6, <2>2 DEF RowsAreBehind
  <2>3. QED
    BY <2>1, <2>2
<1>7. QED
  BY <1>2, <1>5, <1>6 DEF RowsAreBehind

\* Every step keeps the rows behind the matches.
LEMMA BehindInvariant == TypeOK /\ Bookkeeping /\ RowsAreBehind /\ [Next]_vars => RowsAreBehind'
<1> SUFFICES ASSUME TypeOK, Bookkeeping, RowsAreBehind, [Next]_vars
             PROVE  RowsAreBehind'
  OBVIOUS
<1>0. IdsAreCounted /\ \A i \in Slots : slots[i] \in Match
  BY DEF Bookkeeping, TypeOK
<1>1. ASSUME NEW i \in Slots, NEW red, NEW black, NEW rated, NEW time,
             CreateAndPersist(i, NewMatch(red, black, rated, time))
      PROVE  RowsAreBehind'
  BY <1>0, <1>1, FreshBehind, NewMatchMoves DEF CreateAndPersist
<1>2. ASSUME NEW i \in Slots, NEW offer \in Offers, Create(i, offer)
      PROVE  RowsAreBehind'
  BY <1>1, <1>2 DEF Create
<1>3. ASSUME NEW i \in Slots, NEW offer \in Offers, CreateRolledBack(i, offer)
      PROVE  RowsAreBehind'
  <2> DEFINE m == NewMatch(offer[1], offer[2], offer[3], MoveTime)
             n == Finish(m, "aborted", "notify_failed")
  <2>1. /\ m.id = NextId /\ m.moveCount = 0 /\ m.lost = 0
        /\ n.id = NextId /\ n.moveCount = 0 /\ n.lost = 0
    BY DEF NewMatch, NextId, Finish
  <2>2. Place(i, n) /\ \E done \in Outcomes(PersistStatements) : rows' = Persisted(m, done)
    BY <1>3 DEF CreateRolledBack
  <2> HIDE DEF m, n
  <2>3. QED
    BY <1>0, <2>1, <2>2, FreshBehind
<1>4. ASSUME NEW i \in Slots, NEW old \in Slots, Rematch(i, old)
      PROVE  RowsAreBehind'
  BY <1>1, <1>4 DEF Rematch
<1>5. ASSUME NEW i \in Slots, NEW u \in Users, MoveRefused(u, i)
      PROVE  RowsAreBehind'
  <2>1. /\ slots' = [slots EXCEPT ![i] = Spent(slots[i])] /\ rows' = rows
    BY <1>5 DEF MoveRefused, database
  <2>2. /\ Spent(slots[i]).id = slots[i].id /\ Spent(slots[i]).active = slots[i].active
        /\ Spent(slots[i]).moveCount = slots[i].moveCount
        /\ Spent(slots[i]).lost = slots[i].lost
    BY <1>0 DEF Spent, Match
  <2>3. QED
    BY <2>1, <2>2, KeptBehind DEF TypeOK
<1>6. ASSUME NEW i \in Slots, NEW u \in Users, MoveAccepted(u, i)
      PROVE  RowsAreBehind'
  BY <1>6, MoveBehind
<1>7. ASSUME NEW i \in Slots, NEW result \in Results, NEW reason \in ClientReasons,
             End(i, result, reason)
      PROVE  RowsAreBehind'
  <2>1. /\ slots' = [slots EXCEPT ![i] = Finish(slots[i], result, reason)]
        /\ rows' \subseteq rows
    BY <1>7 DEF End, Settled, Unlisted, WithoutRow
  <2>2. /\ Finish(slots[i], result, reason).id = slots[i].id
        /\ ~Finish(slots[i], result, reason).active
        /\ Finish(slots[i], result, reason).moveCount = slots[i].moveCount
        /\ Finish(slots[i], result, reason).lost = slots[i].lost
    BY <1>0 DEF Finish, Match
  <2>3. QED
    BY <2>1, <2>2, KeptBehind DEF TypeOK
<1>8. ASSUME NEW i \in Slots, NEW row \in rows, Join(i, row)
      PROVE  RowsAreBehind'
  BY <1>8, JoinBehind
<1>9. CASE Crash
  BY <1>9, RebootBehind DEF Crash, database, RowsAreBehind
<1>10. ASSUME NEW i \in Slots, NEW u \in Users, CrashInPersist(u, i)
       PROVE  RowsAreBehind'
  <2>1. Found(i) /\ Reboot
    BY <1>10 DEF CrashInPersist, MoveAllowed, MayMove
  <2>2. PICK done : rows' = Persisted(Moved(slots[i]), done)
    BY <1>10 DEF CrashInPersist
  <2>3. /\ \A one, two \in rows' : one.id = two.id => one = two
        /\ \A row \in rows' : row.lost <= row.moveCount
    BY <2>1, <2>2, MovedRows
  <2>4. QED
    BY <2>1, <2>3, RebootBehind
<1>11. ASSUME NEW i \in Slots, NEW result \in Results, NEW reason \in ClientReasons,
              CrashInEnd(i, result, reason)
       PROVE  RowsAreBehind'
  <2>1. Reboot /\ rows' \subseteq rows
    BY <1>11 DEF CrashInEnd, Settled, Unlisted, WithoutRow
  <2>2. QED
    BY <2>1, RebootBehind DEF RowsAreBehind
<1>12. ASSUME NEW i \in Slots, CrashInTimeout(i)
       PROVE  RowsAreBehind'
  BY <1>12, RebootBehind DEF CrashInTimeout, RowsAreBehind
<1>13. CASE Tick
  <2>1. \A i \in Slots : /\ slots'[i].id = slots[i].id /\ slots'[i].active = slots[i].active
                         /\ slots'[i].moveCount = slots[i].moveCount
                         /\ slots'[i].lost = slots[i].lost
    BY <1>0, <1>13 DEF Tick, Match
  <2>2. QED
    BY <1>13, <2>1, KeptBehind DEF Tick, database
<1>14. CASE Sweep
  <2>1. \A i \in Slots : /\ slots'[i].id = slots[i].id /\ (slots'[i].active => slots[i].active)
                         /\ slots'[i].moveCount = slots[i].moveCount
                         /\ slots'[i].lost = slots[i].lost
    <3>1. ASSUME NEW i \in Slots, NEW m \in Match, NEW result, NEW reason
          PROVE  LET n == Finish(m, result, reason)
                 IN  n.id = m.id /\ ~n.active /\ n.moveCount = m.moveCount /\ n.lost = m.lost
      BY DEF Finish, Match
    <3>2. QED
      BY <1>0, <1>14, <3>1 DEF Sweep
  <2>2. QED
    BY <1>14, <2>1, KeptBehind DEF Sweep, database
<1>15. ASSUME NEW i \in Slots, SettleTimeout(i)
       PROVE  RowsAreBehind'
  BY <1>15, KeptBehind DEF SettleTimeout
<1>16. CASE UNCHANGED vars
  BY <1>16, KeptBehind DEF vars, memory, database
<1>17. QED
  BY <1>2, <1>3, <1>4, <1>5, <1>6, <1>7, <1>8, <1>9, <1>10, <1>11, <1>12, <1>13,
     <1>14, <1>15, <1>16 DEF Next, Request, Failure, Settle

\* At the start there is neither a match nor a row.
LEMMA InitBehind == Init => RowsAreBehind
BY DEF Init, RowsAreBehind, Blank

(***************************************************************************)
(* The match that a request finds is never behind its row, whatever        *)
(* statements fail and whatever copies of it are in memory.                *)
(***************************************************************************)
THEOREM BehindTheorem == Spec => []RowsAreBehind
<1>1. Init => RowsAreBehind
  BY InitBehind
<1>2. IInv /\ RowsAreBehind /\ [Next]_vars => RowsAreBehind'
  BY BehindInvariant DEF IInv
<1>3. QED
  BY <1>1, <1>2, Invariance, PTL DEF Spec

-----------------------------------------------------------------------------
(***************************************************************************)
(* Who writes the table of running matches: match_persist for a new match  *)
(* or for a move, and the end of a match.                                  *)
(***************************************************************************)
LEMMA WhoWritesRows ==
  ASSUME TypeOK, [Next]_vars
  PROVE  \/ rows' = rows
         \/ \E m : /\ m.id = NextId
                   /\ \E done \in Outcomes(PersistStatements) : rows' = Persisted(m, done)
         \/ \E i \in Slots, u \in Users : MoveAccepted(u, i) \/ CrashInPersist(u, i)
         \/ \E i \in Slots, result \in Results, reason \in ClientReasons :
              End(i, result, reason) \/ CrashInEnd(i, result, reason)
<1> SUFFICES ASSUME rows' # rows,
                    \A i \in Slots, u \in Users : ~MoveAccepted(u, i) /\ ~CrashInPersist(u, i),
                    \A i \in Slots, result \in Results, reason \in ClientReasons :
                      ~End(i, result, reason) /\ ~CrashInEnd(i, result, reason)
             PROVE  \E m : /\ m.id = NextId
                           /\ \E done \in Outcomes(PersistStatements) : rows' = Persisted(m, done)
  OBVIOUS
<1>1. ~Tick /\ ~Sweep /\ ~Settle /\ ~UNCHANGED vars
  BY DEF Tick, Sweep, Settle, SettleTimeout, vars, database
<1>2. ~Crash /\ \A i \in Slots : ~CrashInTimeout(i)
  BY DEF Crash, CrashInTimeout, database
<1>3. /\ \A i \in Slots, u \in Users : ~MoveRefused(u, i)
      /\ \A i \in Slots, row \in rows : ~Join(i, row)
  BY DEF MoveRefused, Join, LoadFromDb, database
<1>4. ASSUME NEW i \in Slots, NEW red, NEW black, NEW rated, NEW time,
             \E done \in Outcomes(PersistStatements) :
               rows' = Persisted(NewMatch(red, black, rated, time), done)
      PROVE  \E m : /\ m.id = NextId
                    /\ \E done \in Outcomes(PersistStatements) : rows' = Persisted(m, done)
  BY <1>4, NewMatchMoves
<1>5. ASSUME NEW i \in Slots, NEW offer \in Offers, Create(i, offer) \/ CreateRolledBack(i, offer)
      PROVE  \E m : /\ m.id = NextId
                    /\ \E done \in Outcomes(PersistStatements) : rows' = Persisted(m, done)
  BY <1>4, <1>5 DEF Create, CreateRolledBack, CreateAndPersist
<1>6. ASSUME NEW i \in Slots, NEW old \in Slots, Rematch(i, old)
      PROVE  \E m : /\ m.id = NextId
                    /\ \E done \in Outcomes(PersistStatements) : rows' = Persisted(m, done)
  BY <1>4, <1>6 DEF Rematch, CreateAndPersist
<1>7. QED
  BY <1>1, <1>2, <1>3, <1>5, <1>6 DEF Next, Request, Failure

\* A settlement only removes rows.
LEMMA SettledRows ==
  ASSUME NEW m, NEW result, NEW done, Settled(m, result, done)
  PROVE  rows' \subseteq rows
BY DEF Settled, Unlisted, WithoutRow

(***************************************************************************)
(* match_persist never takes a row back: the number of moves of a row, and *)
(* of the moves lost with a restart, does not go down while the row is in  *)
(* active_matches, whichever statements fail and whatever copies of the    *)
(* match are in memory.                                                    *)
(***************************************************************************)
THEOREM AdvanceTheorem == Spec => RowsOnlyAdvance
<1> DEFINE Advance == \A old \in rows, new \in rows' : old.id = new.id =>
                        new.moveCount >= old.moveCount /\ new.lost >= old.lost
<1>1. ASSUME IInv, RowsAreBehind, [Next]_vars
      PROVE  Advance
  <2> SUFFICES ASSUME NEW old \in rows, NEW new \in rows', old.id = new.id
               PROVE  new.moveCount >= old.moveCount /\ new.lost >= old.lost
    OBVIOUS
  <2>1. /\ TypeOK /\ Bookkeeping /\ IdsAreCounted
        /\ old.moveCount \in Nat /\ old.lost \in Nat
    BY <1>1 DEF IInv, Bookkeeping, TypeOK, Row
  <2>2. CASE new \in rows
    BY <1>1, <2>1, <2>2 DEF RowsAreBehind
  <2>3. ASSUME NEW m, m.id = NextId,
               \E done \in Outcomes(PersistStatements) : rows' = Persisted(m, done)
        PROVE  new \in rows
    BY <2>1, <2>3, PersistStep, NextIdIsFresh DEF RowsGrow
  <2>4. ASSUME NEW i \in Slots, NEW u \in Users, MoveAccepted(u, i) \/ CrashInPersist(u, i),
               new \notin rows
        PROVE  new.moveCount >= old.moveCount /\ new.lost >= old.lost
    <3>1. PICK done : rows' = Persisted(Moved(slots[i]), done)
      BY <2>4 DEF MoveAccepted, CrashInPersist
    <3>2. Found(i) /\ Visible(i) /\ slots[i].active
      BY <2>4 DEF MoveAccepted, CrashInPersist, MoveAllowed, MayMove, Found
    <3>3. /\ new.id = slots[i].id /\ new.moveCount = slots[i].moveCount + 1
          /\ new.lost = slots[i].lost
      BY <1>1, <2>1, <2>4, <3>1, <3>2, MovedRows
    <3>4. Behind(old, slots[i])
      BY <1>1, <3>2, <3>3 DEF RowsAreBehind
    <3>5. slots[i].moveCount \in Nat /\ slots[i].lost \in Nat
      BY <2>1 DEF TypeOK, Match
    <3>6. QED
      BY <2>1, <3>3, <3>4, <3>5 DEF Behind
  <2>5. ASSUME NEW i \in Slots, NEW result \in Results, NEW reason \in ClientReasons,
               End(i, result, reason) \/ CrashInEnd(i, result, reason)
        PROVE  new \in rows
    BY <2>5, SettledRows DEF End, CrashInEnd
  <2>6. QED
    BY <1>1, <2>1, <2>2, <2>3, <2>4, <2>5, WhoWritesRows
<1>2. IInv /\ RowsAreBehind /\ [Next]_vars => [Advance]_vars
  BY <1>1
<1>3. QED
  BY <1>2, Invariance, BehindTheorem, PTL DEF Spec, RowsOnlyAdvance

\* What has taken effect of a settlement torn by a crash never includes its last statement.
LEMMA TornBeforeUnlist ==
  ASSUME NEW done \in TornOutcomes(HandlerStatements)
  PROVE  "unlist" \notin done
<1>1. /\ Len(HandlerStatements) = 6
      /\ \A j \in 1..5 : HandlerStatements[j] # "unlist"
  BY DEF HandlerStatements
<1>2. PICK k \in 1..5 : done = Elements(SubSeq(HandlerStatements, 1, k))
  BY <1>1 DEF TornOutcomes
<1>3. SubSeq(HandlerStatements, 1, k) = [j \in 1..k |-> HandlerStatements[j]]
  BY <1>1 DEF HandlerStatements, SubSeq
<1>4. \A j \in 1..Len(SubSeq(HandlerStatements, 1, k)) :
        j \in 1..5 /\ SubSeq(HandlerStatements, 1, k)[j] = HandlerStatements[j]
  BY <1>3
<1>5. QED
  BY <1>1, <1>2, <1>4 DEF Elements

\* A handler saves a match in Matches, unless it is too long, before it takes its row away.
LEMMA ArchivedFirst ==
  ASSUME DbFaults = {}, NEW m, NEW result, m.moveCount <= MaxArchived,
         \/ \E done \in Outcomes(HandlerStatements) : Settled(m, result, done)
         \/ \E done \in TornOutcomes(HandlerStatements) : Settled(m, result, done)
  PROVE  rows' = rows \/ \E a \in archive' : a.id = m.id
<1>1. "archive" \in Elements(HandlerStatements)
  <2>1. Len(HandlerStatements) = 6 /\ HandlerStatements[5] = "archive"
    BY DEF HandlerStatements
  <2>2. QED
    BY <2>1 DEF Elements
<1>2. ASSUME NEW done \in Outcomes(HandlerStatements), Settled(m, result, done)
      PROVE  \E a \in archive' : a.id = m.id
  <2>1. "archive" \in done
    BY <1>1, SureStatements
  <2>2. [id |-> m.id, result |-> result, lost |-> m.lost].id = m.id
    OBVIOUS
  <2>3. archive' = Archived(m, result, done)
    BY <1>2 DEF Settled
  <2>4. QED
    BY <2>1, <2>2, <2>3 DEF Archived
<1>3. ASSUME NEW done \in TornOutcomes(HandlerStatements), Settled(m, result, done)
      PROVE  rows' = rows
  BY <1>3, TornBeforeUnlist DEF Settled, Unlisted
<1>4. QED
  BY <1>2, <1>3

(***************************************************************************)
(* Whichever statement a crash comes after, the row of a match leaves      *)
(* active_matches only once the match is in Matches - but for the crash    *)
(* between the DELETE and the INSERT of match_persist, and for a game of   *)
(* more than MaxArchived moves.  That the row tells how long the game is,  *)
(* as the handler that ends it sees it, is RunningMatchesAreListed and     *)
(* that an id has one row.                                                 *)
(***************************************************************************)
THEOREM ArchivedTheorem == Spec => ListedUntilArchived
<1> DEFINE Traced == DbFaults = {} =>
              \A old \in rows :
                \/ \E new \in rows' : new.id = old.id
                \/ \E a \in archive' : a.id = old.id
                \/ old.moveCount > MaxArchived
                \/ \E i \in Slots, u \in Users : CrashInPersist(u, i) /\ slots[i].id = old.id
<1>1. ASSUME IInv, RowsAreBehind, [Next]_vars
      PROVE  Traced
  <2> SUFFICES ASSUME DbFaults = {}, NEW old \in rows
               PROVE  \/ \E new \in rows' : new.id = old.id
                      \/ \E a \in archive' : a.id = old.id
                      \/ old.moveCount > MaxArchived
                      \/ \E i \in Slots, u \in Users : CrashInPersist(u, i) /\ slots[i].id = old.id
    OBVIOUS
  <2> DEFINE Goal == \/ \E new \in rows' : new.id = old.id
                     \/ \E a \in archive' : a.id = old.id
                     \/ old.moveCount > MaxArchived
                     \/ \E i \in Slots, u \in Users : CrashInPersist(u, i) /\ slots[i].id = old.id
  <2>1. TypeOK /\ IdsAreCounted /\ \A i \in Slots : slots[i] \in Match
    BY <1>1 DEF IInv, Bookkeeping, TypeOK
  <2>2. ASSUME NEW m, m.id = NextId,
               \E done \in Outcomes(PersistStatements) : rows' = Persisted(m, done)
        PROVE  Goal
    BY <2>1, <2>2, PersistStep, NextIdIsFresh
  <2>3. ASSUME NEW i \in Slots, NEW u \in Users, MoveAccepted(u, i) \/ CrashInPersist(u, i)
        PROVE  Goal
    <3>1. Moved(slots[i]).id = slots[i].id /\ RowOf(Moved(slots[i])).id = slots[i].id
      BY <2>1 DEF RowOf, Moved, Match
    <3>2. PICK done : rows' = Persisted(Moved(slots[i]), done)
      BY <2>3 DEF MoveAccepted, CrashInPersist
    <3>3. CASE old.id # slots[i].id
      BY <3>1, <3>2, <3>3, PersistedKeepsOthers
    <3>4. CASE old.id = slots[i].id /\ MoveAccepted(u, i)
      <4>1. RowOf(Moved(slots[i])) \in rows'
        BY <3>4, PersistStep DEF MoveAccepted
      <4>2. QED
        BY <3>1, <3>4, <4>1
    <3>5. QED
      BY <2>3, <3>3, <3>4
  <2>4. ASSUME NEW i \in Slots, NEW result \in Results, NEW reason \in ClientReasons,
               End(i, result, reason) \/ CrashInEnd(i, result, reason)
        PROVE  Goal
    <3> SUFFICES ASSUME old.id = slots[i].id, ~(old.moveCount > MaxArchived)
                 PROVE  rows' = rows \/ \E a \in archive' : a.id = slots[i].id
      <4>1. rows' = rows \/ \A row \in rows : row.id # slots[i].id => row \in rows'
        BY <2>4 DEF End, CrashInEnd, Settled, Unlisted, WithoutRow
      <4>2. QED
        BY <4>1
    <3>1. slots[i].moveCount <= MaxArchived
      <4>1. slots[i].active
        BY <2>4 DEF End, CrashInEnd, EndRequest, Found
      <4>2. RunningMatchesAreListed
        BY <1>1 DEF IInv, Bookkeeping
      <4>3. PICK row \in rows : row.id = slots[i].id /\ row.moveCount = slots[i].moveCount
        BY <4>1, <4>2 DEF RunningMatchesAreListed
      <4>4. row = old
        BY <1>1, <4>3 DEF RowsAreBehind
      <4>5. slots[i].moveCount \in Nat /\ MaxArchived \in Nat
        BY <2>1, BoundsAssumption DEF Match
      <4>6. QED
        BY <4>3, <4>4, <4>5
    <3>2. QED
      BY <2>4, <3>1, ArchivedFirst DEF End, CrashInEnd
  <2>5. QED
    BY <1>1, <2>1, <2>2, <2>3, <2>4, WhoWritesRows
<1>2. IInv /\ RowsAreBehind /\ [Next]_vars => [Traced]_vars
  BY <1>1
<1>3. QED
  BY <1>2, Invariance, BehindTheorem, PTL DEF Spec, ListedUntilArchived
-----------------------------------------------------------------------------
(***************************************************************************)
(* match_get_pending_timeouts hands out as many matches as its array       *)
(* holds, if that leaves one out.  The rank of a slot, the number of       *)
(* lapsed slots before it, numbers the lapsed slots 0, 1, 2...             *)
(***************************************************************************)
LEMMA FirstOfFills ==
  ASSUME NEW n \in Nat, NEW S \in SUBSET (1..n), NEW k \in Nat, NEW i \in S, i \notin FirstOf(S, k)
  PROVE  Cardinality(FirstOf(S, k)) = k
<1> DEFINE Before(j) == {h \in S : h < j}
           rank == [j \in S |-> Cardinality(Before(j))]
           c == Cardinality(S)
           T == FirstOf(S, k)
<1>1. IsFiniteSet(S) /\ c \in Nat /\ \A j \in S : j \in Int
  <2>1. IsFiniteSet(1..n)
    BY FS_Interval
  <2>2. IsFiniteSet(S)
    BY <2>1, FS_Subset
  <2>3. QED
    BY <2>2, FS_CardinalityType
<1>2. \A j \in S : Before(j) \in SUBSET S /\ IsFiniteSet(Before(j)) /\ Cardinality(Before(j)) \in Nat
  BY <1>1, FS_Subset, FS_CardinalityType
<1>3. \A j \in S : Cardinality(Before(j)) \in 0..(c - 1)
  <2> SUFFICES ASSUME NEW j \in S
               PROVE  Cardinality(Before(j)) \in 0..(c - 1)
    OBVIOUS
  <2>1. Before(j) # S
    BY <1>1
  <2>2. Cardinality(Before(j)) <= c /\ (c = Cardinality(Before(j)) => S = Before(j))
    BY <1>1, <1>2, FS_Subset
  <2> HIDE DEF Before, c
  <2>3. QED
    BY <1>1, <1>2, <2>1, <2>2
<1>4. \A h, j \in S : h < j => Cardinality(Before(h)) < Cardinality(Before(j))
  <2> SUFFICES ASSUME NEW h \in S, NEW j \in S, h < j
               PROVE  Cardinality(Before(h)) < Cardinality(Before(j))
    OBVIOUS
  <2>1. Before(h) \in SUBSET Before(j) /\ Before(h) # Before(j)
    <3>1. h \in Before(j) /\ h \notin Before(h)
      BY <1>1
    <3>2. \A g \in S : g < h => g < j
      BY <1>1
    <3>3. Before(h) \in SUBSET Before(j)
      BY <3>2
    <3> HIDE DEF Before
    <3>4. QED
      BY <3>1, <3>3
  <2>2. /\ Cardinality(Before(h)) <= Cardinality(Before(j))
        /\ Cardinality(Before(j)) = Cardinality(Before(h)) => Before(j) = Before(h)
    BY <1>2, <2>1, FS_Subset
  <2> HIDE DEF Before
  <2>3. QED
    BY <1>2, <2>1, <2>2
<1> HIDE DEF Before
<1> HIDE DEF c
<1>5. IsFiniteSet(0..(c - 1)) /\ Cardinality(0..(c - 1)) = c
  <2>1. c - 1 \in Int /\ 0 \in Int
    BY <1>1
  <2>2. /\ IsFiniteSet(0..(c - 1))
        /\ Cardinality(0..(c - 1)) = IF 0 > c - 1 THEN 0 ELSE (c - 1) - 0 + 1
    BY <2>1, FS_Interval
  <2>3. QED
    BY <1>1, <2>2
<1>6. rank \in Injection(S, 0..(c - 1))
  <2>1. rank \in [S -> 0..(c - 1)]
    BY <1>3
  <2>2. \A h, j \in S : rank[h] = rank[j] => h = j
    BY <1>1, <1>2, <1>4
  <2>3. QED
    BY <2>1, <2>2 DEF Injection, IsInjective
<1>7. rank \in Surjection(S, 0..(c - 1))
  BY <1>5, <1>6, FS_Injection DEF c
<1>8. T = {j \in S : rank[j] < k}
  BY DEF FirstOf, Before
<1> HIDE DEF rank, T
<1>9. k <= c - 1 /\ rank \in [S -> 0..(c - 1)]
  <2>1. rank \in [S -> 0..(c - 1)]
    BY <1>7 DEF Surjection
  <2>2. rank[i] \in 0..(c - 1) /\ ~(rank[i] < k)
    BY <1>8, <2>1 DEF T
  <2>3. QED
    BY <1>1, <2>1, <2>2
<1> DEFINE place == [j \in T |-> rank[j]]
<1>10. place \in Injection(T, 0..(k - 1)) /\ place \in Surjection(T, 0..(k - 1))
  <2>1. T \subseteq S /\ place \in [T -> 0..(k - 1)]
    <3>1. \A j \in T : j \in S /\ rank[j] \in 0..(c - 1) /\ rank[j] < k
      BY <1>8, <1>9
    <3>2. \A j \in T : rank[j] \in 0..(k - 1)
      BY <1>1, <3>1
    <3>3. QED
      BY <3>1, <3>2
  <2>2. \A h, j \in T : place[h] = place[j] => h = j
    BY <1>6, <2>1 DEF Injection, IsInjective
  <2>3. \A r \in 0..(k - 1) : \E j \in T : place[j] = r
    <3>1. \A r \in 0..(c - 1) : \E j \in S : rank[j] = r
      BY <1>7 DEF Surjection
    <3>2. QED
      BY <1>1, <1>8, <1>9, <3>1
  <2>4. QED
    BY <2>1, <2>2, <2>3 DEF Injection, IsInjective, Surjection
<1>11. IsFiniteSet(0..(k - 1)) /\ Cardinality(0..(k - 1)) = k
  BY FS_Interval
<1> HIDE DEF place
<1>12. QED
  BY <1>10, <1>11, FS_Injection DEF T

\* Only the sweep ends a match for its time.
LEMMA WhoLapses ==
  ASSUME TypeOK, [Next]_vars, SameBoot, NEW i \in Slots,
         slots[i].active, ~slots'[i].active, slots'[i].reason = "timeout"
  PROVE  Sweep /\ i \in Lapsed
<1>0. /\ ~Failure
      /\ \A k \in Slots : slots[k] \in Match
  BY DEF Failure, Crash, CrashInPersist, CrashInEnd, CrashInTimeout, Reboot, SameBoot, TypeOK
<1>1. \A k \in Slots : \A m : ~Place(k, m)
  BY DEF Place, FirstFree, Free, TypeOK
<1>2. /\ \A k \in Slots, offer \in Offers : ~Create(k, offer) /\ ~CreateRolledBack(k, offer)
      /\ \A k \in Slots, old \in Slots : ~Rematch(k, old)
      /\ \A k \in Slots, row \in rows : ~Join(k, row)
  BY <1>1 DEF Create, CreateRolledBack, Rematch, CreateAndPersist, Join, LoadFromDb
<1>3. ASSUME NEW k \in Slots, NEW m, m.active, slots' = [slots EXCEPT ![k] = m]
      PROVE  FALSE
  BY <1>3 DEF TypeOK
<1>4. ASSUME NEW k \in Slots, NEW u \in Users, MoveRefused(u, k) \/ MoveAccepted(u, k)
      PROVE  FALSE
  <2>1. slots[k].active
    BY <1>4 DEF MoveRefused, MoveAccepted, MoveAllowed, MayMove, Found
  <2>2. Spent(slots[k]).active /\ Moved(slots[k]).active
    BY <1>0, <2>1 DEF Spent, Moved, Match
  <2>3. QED
    BY <1>3, <1>4, <2>2 DEF MoveRefused, MoveAccepted
<1>5. ASSUME NEW k \in Slots, NEW result \in Results, NEW reason \in ClientReasons,
             End(k, result, reason)
      PROVE  FALSE
  <2>1. Finish(slots[k], result, reason).reason = reason
    BY <1>0 DEF Finish, Match
  <2>2. QED
    BY <1>5, <2>1 DEF End, TypeOK, ClientReasons
<1>6. ~Tick
  BY <1>0 DEF Tick, Match
<1>7. ~Settle /\ ~UNCHANGED vars
  BY DEF Settle, SettleTimeout, vars, memory
<1>8. Sweep
  BY <1>0, <1>2, <1>4, <1>5, <1>6, <1>7 DEF Next, Request
<1>9. QED
  BY <1>8 DEF Sweep

(***************************************************************************)
(* A match that lapses is handed to the loop that settles it, however many *)
(* lapse at once, as long as the array of server_run is not full.          *)
(***************************************************************************)
THEOREM LapseTheorem == Spec => LapseIsQueued
<1> DEFINE Queued == \A i \in Slots :
              SameBoot /\ slots[i].active /\ ~slots'[i].active /\ slots'[i].reason = "timeout"
                => i \in batch' \/ Cardinality(batch') = BatchMax
<1>1. ASSUME TypeOK, [Next]_vars
      PROVE  Queued
  <2> SUFFICES ASSUME NEW i \in Slots, SameBoot, slots[i].active, ~slots'[i].active,
                      slots'[i].reason = "timeout", i \notin batch'
               PROVE  Cardinality(batch') = BatchMax
    OBVIOUS
  <2>1. Sweep /\ i \in Lapsed
    BY <1>1, WhoLapses
  <2>2. batch' = FirstOf(Lapsed, BatchMax)
    BY <2>1 DEF Sweep
  <2>3. Lapsed \in SUBSET (1..MaxMatches) /\ MaxMatches \in Nat /\ BatchMax \in Nat
    BY BoundsAssumption DEF Lapsed, Slots
  <2>4. QED
    BY <2>1, <2>2, <2>3, FirstOfFills
<1>2. TypeOK /\ [Next]_vars => [Queued]_vars
  BY <1>1
<1>3. QED
  BY <1>2, TypeCorrect, PTL DEF Spec, LapseIsQueued
=============================================================================
