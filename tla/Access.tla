-------------------------------- MODULE Access --------------------------------
(***************************************************************************)
(* Who a connection speaks for, as a user sees it: sessions exist while    *)
(* they are valid, and nobody hears of a clean-up.  Sessions implements    *)
(* this.                                                                   *)
(***************************************************************************)
CONSTANTS Slots, Tokens, Users

VARIABLES
  who,   \* the user for whom each connection speaks, 0 for nobody
  live   \* the sessions that are valid

vars == <<who, live>>

Nobody == [c \in Slots |-> 0]

Init == who = Nobody /\ live = {}

\* A login opens a session, under a token that is not in use.
Enter(c, t, u) ==
  /\ \A s \in live : s.token # t
  /\ who' = [who EXCEPT ![c] = u]
  /\ live' = live \cup {[token |-> t, user |-> u]}

\* Whoever presents the token of a valid session speaks for its user.
Return(c) ==
  /\ \E s \in live : who' = [who EXCEPT ![c] = s.user]
  /\ UNCHANGED live

\* A logout, which ends one session at most, or the end of the connection.
Exit(c) ==
  /\ who' = [who EXCEPT ![c] = 0]
  /\ live' \subseteq live
  /\ \A r, s \in live \ live' : r.token = s.token

\* Sessions expire; those who speak for a user already go on to.
Lapse == live' \subseteq live /\ UNCHANGED who

Restart == who' = Nobody /\ UNCHANGED live

Next ==
  \/ \E c \in Slots : \/ \E t \in Tokens, u \in Users : Enter(c, t, u)
                      \/ Return(c)
                      \/ Exit(c)
  \/ Lapse
  \/ Restart

Spec == Init /\ [][Next]_vars
===============================================================================
