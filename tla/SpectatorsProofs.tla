--------------------------- MODULE SpectatorsProofs ---------------------------
(***************************************************************************)
(* Proofs about Sessions and Spectators, for any number of connections,    *)
(* users, tokens, matches and places.                                      *)
(***************************************************************************)
EXTENDS Spectators, TLAPS

\* No token is drawn again.
TokensWereDrawn == \A s \in sessions : s.token \in drawn

\* Only who has proved something has a user.
StrangersAreNobody == \A c \in Slots : c \notin open \/ c \in strangers => user[c] = 0

\* Nobody has two places.
PlacesAreApart ==
  \A m \in MatchIds : \A i, j \in DOMAIN places[m] :
    i # j => places[m][i] # places[m][j]

IInv == TypeOK /\ TokensWereDrawn /\ StrangersAreNobody /\ PlacesAreApart
-----------------------------------------------------------------------------
(***************************************************************************)
(* The user of a valid token is the user of a session that is valid.       *)
(***************************************************************************)
LEMMA UserOfASession ==
  ASSUME SessionsTypeOK, NEW token, Valid(token) # {}
  PROVE  \E s \in Live : s.user = UserOf(token) /\ UserOf(token) \in Users
<1>1. PICK s : s = CHOOSE r \in Valid(token) : TRUE
  OBVIOUS
<1>2. s \in Valid(token) /\ UserOf(token) = s.user
  BY <1>1 DEF UserOf
<1>3. s \in Live /\ s \in Session
  BY <1>2 DEF Valid, Live, SessionsTypeOK
<1>4. QED
  BY <1>2, <1>3 DEF Session

(***************************************************************************)
(* A token has a user, or it is not valid and stands for nobody.           *)
(***************************************************************************)
LEMMA UserOfAToken ==
  ASSUME SessionsTypeOK, NEW token
  PROVE  UserOf(token) \in Users \cup {0}
<1>1. CASE Valid(token) = {}
  BY <1>1 DEF UserOf
<1>2. CASE Valid(token) # {}
  BY <1>2, UserOfASession
<1>3. QED
  BY <1>1, <1>2

(***************************************************************************)
(* Those behind a place that is given up move up by one: nobody else loses *)
(* his place.                                                              *)
(***************************************************************************)
LEMMA WithoutOne ==
  ASSUME NEW S, NEW s \in Seq(S), NEW i \in DOMAIN s,
         \A j, k \in DOMAIN s : j # k => s[j] # s[k]
  PROVE  /\ Without(s, i) \in Seq(S)
         /\ Len(Without(s, i)) = Len(s) - 1
         /\ \A j, k \in DOMAIN Without(s, i) : j # k => Without(s, i)[j] # Without(s, i)[k]
         /\ InUse(Without(s, i)) = InUse(s) \ {s[i]}
<1>1. PICK n, w : n = Len(s) /\ w = Without(s, i)
  OBVIOUS
<1>2. n \in Nat /\ DOMAIN s = 1..n /\ i \in 1..n /\ \A j \in 1..n : s[j] \in S
  BY <1>1
<1>3. w = [j \in 1..n - 1 |-> IF j < i THEN s[j] ELSE s[j + 1]]
  BY <1>1 DEF Without
<1>4. \A j \in 1..n - 1 : w[j] \in S
  BY <1>2, <1>3
<1>5. w \in Seq(S) /\ Len(w) = n - 1 /\ DOMAIN w = 1..n - 1
  <2>1. n - 1 \in Nat
    BY <1>2
  <2>2. w \in [1..n - 1 -> S]
    BY <1>3, <1>4
  <2>3. QED
    BY <2>1, <2>2
<1>6. ASSUME NEW j \in 1..n - 1, NEW k \in 1..n - 1, j # k
      PROVE  w[j] # w[k]
  <2>1. PICK a \in 1..n : a = (IF j < i THEN j ELSE j + 1) /\ w[j] = s[a]
    BY <1>2, <1>3
  <2>2. PICK b \in 1..n : b = (IF k < i THEN k ELSE k + 1) /\ w[k] = s[b]
    BY <1>2, <1>3
  <2>3. a # b
    BY <1>2, <1>6, <2>1, <2>2
  <2>4. QED
    BY <1>2, <2>1, <2>2, <2>3
<1>7. ASSUME NEW x \in InUse(w)
      PROVE  x \in InUse(s) \ {s[i]}
  <2>1. PICK j \in 1..n - 1 : x = w[j]
    BY <1>5 DEF InUse
  <2>2. PICK k \in 1..n : x = s[k] /\ k # i
    <3>1. CASE j < i
      BY <1>2, <1>3, <2>1, <3>1
    <3>2. CASE ~(j < i)
      BY <1>2, <1>3, <2>1, <3>2
    <3>3. QED
      BY <3>1, <3>2
  <2>3. QED
    BY <1>2, <2>2 DEF InUse
<1>8. ASSUME NEW x \in InUse(s) \ {s[i]}
      PROVE  x \in InUse(w)
  <2>1. PICK k \in 1..n : x = s[k] /\ k # i
    BY <1>2 DEF InUse
  <2>2. CASE k < i
    <3>1. k \in 1..n - 1 /\ w[k] = x
      BY <1>2, <1>3, <2>1, <2>2
    <3>2. QED
      BY <1>5, <3>1 DEF InUse
  <2>3. CASE k > i
    <3>1. k - 1 \in 1..n - 1 /\ w[k - 1] = s[(k - 1) + 1] /\ (k - 1) + 1 = k
      BY <1>2, <1>3, <2>1, <2>3
    <3>2. w[k - 1] = x
      BY <2>1, <3>1
    <3>3. QED
      BY <1>5, <3>1, <3>2 DEF InUse
  <2>4. QED
    BY <1>2, <2>1, <2>2, <2>3
<1>9. QED
  BY <1>1, <1>5, <1>6, <1>7, <1>8
-----------------------------------------------------------------------------
(***************************************************************************)
(* The part of the invariant that is about sessions, and the steps that    *)
(* touch only them.                                                        *)
(***************************************************************************)
SInv == SessionsTypeOK /\ TokensWereDrawn /\ StrangersAreNobody

(***************************************************************************)
(* A connection that is bound to a user is no stranger's; the rest stays.  *)
(***************************************************************************)
LEMMA BindKeeps ==
  ASSUME SInv, NEW c \in open, NEW u \in Users, Bind(c, u),
         UNCHANGED <<accounts, now, open>>,
         sessions' \subseteq Session, drawn' \subseteq Tokens, TokensWereDrawn'
  PROVE  SInv'
<1>1. c \in Slots /\ user \in [Slots -> Users \cup {0}] /\ authentic \in [Slots -> BOOLEAN]
  BY DEF SInv, SessionsTypeOK
<1>2. /\ user' = [user EXCEPT ![c] = u] /\ strangers' = strangers \ {c}
      /\ authentic' = [authentic EXCEPT ![c] = TRUE]
  BY DEF Bind
<1>3. user' \in [Slots -> Users \cup {0}] /\ authentic' \in [Slots -> BOOLEAN]
  BY <1>1, <1>2
<1>4. SessionsTypeOK'
  BY <1>2, <1>3 DEF SInv, SessionsTypeOK
<1>5. StrangersAreNobody'
  BY <1>1, <1>2 DEF SInv, StrangersAreNobody
<1>6. QED
  BY <1>4, <1>5 DEF SInv

(***************************************************************************)
(* Each step of the sessions keeps their part of the invariant: a token    *)
(* that is entered was just drawn, and an entry that is left has no user.  *)
(***************************************************************************)
LEMMA SessionsStep ==
  ASSUME SInv, SessionsNext
  PROVE  SInv'
<1> USE DEF SInv
<1>1. ASSUME NEW c \in Slots, Connect(c)
      PROVE  SInv'
  BY <1>1 DEF Connect, SessionsTypeOK, TokensWereDrawn, StrangersAreNobody
<1>2. ASSUME NEW c \in Slots, Disconnect(c)
      PROVE  SInv'
  <2>1. /\ user' = [user EXCEPT ![c] = 0] /\ authentic' = [authentic EXCEPT ![c] = FALSE]
        /\ open' = open \ {c} /\ strangers' = strangers \ {c}
        /\ UNCHANGED <<accounts, sessions, drawn, now>>
    BY <1>2 DEF Disconnect, Release
  <2>2. user' \in [Slots -> Users \cup {0}] /\ authentic' \in [Slots -> BOOLEAN]
    BY <2>1 DEF SessionsTypeOK
  <2>3. SessionsTypeOK'
    BY <2>1, <2>2 DEF SessionsTypeOK
  <2>4. TokensWereDrawn' /\ StrangersAreNobody'
    BY <2>1 DEF TokensWereDrawn, StrangersAreNobody, SessionsTypeOK
  <2>5. QED
    BY <2>3, <2>4
<1>3. ASSUME NEW c \in Slots, NEW name \in Names, NEW email \in Emails, Register(c, name, email)
      PROVE  SInv'
  <2>1. PICK a : a = [name |-> name, email |-> email]
    OBVIOUS
  <2>2. a \in Account /\ accounts' = Append(accounts, a) /\ Len(accounts) < MaxUsers
        /\ UNCHANGED <<sessions, drawn, now, open, user, authentic, strangers>>
    BY <1>3, <2>1 DEF Register, Account
  <2>3. accounts' \in Seq(Account) /\ Len(accounts') = Len(accounts) + 1
    BY <2>2 DEF SessionsTypeOK
  <2>4. Len(accounts') <= MaxUsers
    BY <2>2, <2>3, SessionsAssumption DEF SessionsTypeOK
  <2>5. SessionsTypeOK'
    BY <2>2, <2>3, <2>4 DEF SessionsTypeOK
  <2>6. QED
    BY <2>2, <2>5 DEF TokensWereDrawn, StrangersAreNobody
<1>4. ASSUME NEW c \in Slots, NEW u \in Users, NEW token \in Tokens, Login(c, u, token)
      PROVE  SInv'
  <2>1. PICK s : s = [token |-> token, user |-> u, expires |-> now + Life]
    OBVIOUS
  <2>2. s \in Session /\ s.token = token
    BY <2>1, SessionsAssumption DEF Session, SessionsTypeOK
  <2>3. /\ c \in open /\ sessions' = sessions \cup {s} /\ drawn' = drawn \cup {token}
        /\ Bind(c, u) /\ UNCHANGED <<accounts, now, open>>
    BY <1>4, <2>1 DEF Login, WithSession
  <2>4. sessions' \subseteq Session /\ drawn' \subseteq Tokens
    BY <2>2, <2>3 DEF SessionsTypeOK
  <2>5. TokensWereDrawn'
    BY <2>2, <2>3 DEF TokensWereDrawn
  <2>6. QED
    BY <2>3, <2>4, <2>5, BindKeeps
<1>5. ASSUME NEW c \in Slots, NEW token, Logout(c, token)
      PROVE  SInv'
  <2>1. /\ user' = [user EXCEPT ![c] = 0] /\ authentic' = [authentic EXCEPT ![c] = FALSE]
        /\ c \in open /\ strangers' = strangers \cup {c} /\ sessions' \subseteq sessions
        /\ UNCHANGED <<accounts, drawn, now, open>>
    BY <1>5 DEF Logout, WithoutSession, Release
  <2>2. user' \in [Slots -> Users \cup {0}] /\ authentic' \in [Slots -> BOOLEAN]
    BY <2>1 DEF SessionsTypeOK
  <2>3. SessionsTypeOK'
    BY <2>1, <2>2 DEF SessionsTypeOK
  <2>4. TokensWereDrawn' /\ StrangersAreNobody'
    BY <2>1 DEF TokensWereDrawn, StrangersAreNobody, SessionsTypeOK
  <2>5. QED
    BY <2>3, <2>4
<1>6. ASSUME NEW c \in Slots, NEW token \in Tokens, ValidateToken(c, token)
      PROVE  SInv'
  <2>1. PICK u : u = UserOf(token)
    OBVIOUS
  <2>2. c \in open /\ Bind(c, u) /\ UNCHANGED <<accounts, sessions, drawn, now, open>>
    BY <1>6, <2>1 DEF ValidateToken
  <2>3. u \in Users
    BY <1>6, <2>1, UserOfASession DEF ValidateToken
  <2>4. TokensWereDrawn' /\ sessions' \subseteq Session /\ drawn' \subseteq Tokens
    BY <2>2 DEF TokensWereDrawn, SessionsTypeOK
  <2>5. QED
    BY <2>2, <2>3, <2>4, BindKeeps
<1>7. CASE Tick
  BY <1>7 DEF Tick, SessionsTypeOK, TokensWereDrawn, StrangersAreNobody
<1>8. CASE CleanupExpired
  BY <1>8 DEF CleanupExpired, SessionsTypeOK, TokensWereDrawn, StrangersAreNobody
<1>9. QED
  BY <1>1, <1>2, <1>3, <1>4, <1>5, <1>6, <1>7, <1>8 DEF SessionsNext

(***************************************************************************)
(* A restart forgets the connections and keeps the sessions.               *)
(***************************************************************************)
LEMMA RestartKeeps ==
  ASSUME SInv, Restart
  PROVE  SInv'
BY DEF Restart, SInv, SessionsTypeOK, TokensWereDrawn, StrangersAreNobody
-----------------------------------------------------------------------------
(***************************************************************************)
(* Whoever is seated finds a free place and has none yet.                  *)
(***************************************************************************)
LEMMA SeatOne ==
  ASSUME NEW S, NEW s \in Seq(S), NEW u \in S, u \notin InUse(s)
  PROVE  /\ Append(s, u) \in Seq(S) /\ Len(Append(s, u)) = Len(s) + 1
         /\ InUse(Append(s, u)) = InUse(s) \cup {u}
         /\ (\A j, k \in DOMAIN s : j # k => s[j] # s[k])
              => \A j, k \in DOMAIN Append(s, u) : j # k => Append(s, u)[j] # Append(s, u)[k]
<1>1. PICK n, w : n = Len(s) /\ w = Append(s, u)
  OBVIOUS
<1>2. /\ n \in Nat /\ DOMAIN s = 1..n /\ w \in Seq(S) /\ Len(w) = n + 1 /\ DOMAIN w = 1..n + 1
      /\ w[n + 1] = u /\ \A j \in 1..n : w[j] = s[j] /\ s[j] \in InUse(s)
  BY <1>1 DEF InUse
<1>3. InUse(w) = InUse(s) \cup {u}
  <2>1. ASSUME NEW x \in InUse(w) PROVE x \in InUse(s) \cup {u}
    BY <1>2, <2>1 DEF InUse
  <2>2. ASSUME NEW x \in InUse(s) PROVE x \in InUse(w)
    <3>1. PICK j \in 1..n : x = s[j]
      BY <1>2, <2>2 DEF InUse
    <3>2. j \in 1..n + 1 /\ w[j] = x
      BY <1>2, <3>1
    <3>3. QED
      BY <1>2, <3>2 DEF InUse
  <2>3. u \in InUse(w)
    BY <1>2 DEF InUse
  <2>4. QED
    BY <2>1, <2>2, <2>3
<1>4. ASSUME \A j, k \in 1..n : j # k => s[j] # s[k], NEW j \in 1..n + 1, NEW k \in 1..n + 1, j # k
      PROVE  w[j] # w[k]
  BY <1>2, <1>4
<1>5. QED
  BY <1>1, <1>2, <1>3, <1>4

(***************************************************************************)
(* What a step may do to the places of one match: nothing, seat somebody,  *)
(* or let somebody go.                                                     *)
(***************************************************************************)
Seats(m, u) ==
  /\ Len(places[m]) < MaxSpectators
  /\ u \notin InUse(places[m])
  /\ places' = [places EXCEPT ![m] = Append(@, u)]

LetsGo(m, u) ==
  \E i \in DOMAIN places[m] :
    places[m][i] = u /\ places' = [places EXCEPT ![m] = Without(@, i)]

PlacesOK ==
  /\ places \in [MatchIds -> Seq(Users \cup {0})]
  /\ \A m \in MatchIds : Len(places[m]) <= MaxSpectators
  /\ PlacesAreApart

\* Either keeps the places in their limits and apart.
LEMMA PlacesStep ==
  ASSUME PlacesOK, NEW m \in MatchIds, NEW u \in Users \cup {0},
         Seats(m, u) \/ LetsGo(m, u)
  PROVE  PlacesOK'
<1>1. PICK s \in Seq(Users \cup {0}) :
        /\ places' = [places EXCEPT ![m] = s] /\ Len(s) <= MaxSpectators
        /\ \A j, k \in DOMAIN s : j # k => s[j] # s[k]
  <2>1. PICK old \in Seq(Users \cup {0}) :
          old = places[m] /\ Len(old) <= MaxSpectators /\ Len(old) \in Nat
          /\ \A j, k \in DOMAIN old : j # k => old[j] # old[k]
    BY DEF PlacesOK, PlacesAreApart
  <2>2. CASE Seats(m, u)
    <3>1. u \notin InUse(old) /\ places' = [places EXCEPT ![m] = Append(old, u)]
          /\ Len(old) < MaxSpectators
      BY <2>1, <2>2 DEF Seats
    <3>2. PICK s : s = Append(old, u)
      OBVIOUS
    <3>3. /\ s \in Seq(Users \cup {0}) /\ Len(s) = Len(old) + 1
          /\ (\A j, k \in DOMAIN old : j # k => old[j] # old[k])
               => \A j, k \in DOMAIN s : j # k => s[j] # s[k]
      BY <3>1, <3>2, SeatOne
    <3>4. Len(s) <= MaxSpectators
      BY <2>1, <3>1, <3>3, SpectatorsAssumption
    <3>5. places' = [places EXCEPT ![m] = s]
      BY <3>1, <3>2
    <3>6. \A j, k \in DOMAIN s : j # k => s[j] # s[k]
      BY <2>1, <3>3
    <3>7. QED
      BY <3>3, <3>4, <3>5, <3>6
  <2>3. CASE LetsGo(m, u)
    <3>1. PICK i \in DOMAIN old : places' = [places EXCEPT ![m] = Without(old, i)]
      BY <2>1, <2>3 DEF LetsGo
    <3>2. PICK s : s = Without(old, i)
      OBVIOUS
    <3>3. s \in Seq(Users \cup {0}) /\ Len(s) = Len(old) - 1
      BY <2>1, <3>1, <3>2, WithoutOne
    <3>4. \A j, k \in DOMAIN s : j # k => s[j] # s[k]
      BY <2>1, <3>1, <3>2, WithoutOne
    <3>5. Len(s) <= MaxSpectators
      BY <2>1, <3>3, SpectatorsAssumption
    <3>6. places' = [places EXCEPT ![m] = s]
      BY <3>1, <3>2
    <3>7. QED
      BY <3>3, <3>4, <3>5, <3>6
  <2>4. QED
    BY <2>2, <2>3
<1>2. places' \in [MatchIds -> Seq(Users \cup {0})]
  BY <1>1 DEF PlacesOK
<1>3. places'[m] = s /\ \A l \in MatchIds : l # m => places'[l] = places[l]
  BY <1>1 DEF PlacesOK
<1>4. \A l \in MatchIds : Len(places'[l]) <= MaxSpectators
  BY <1>1, <1>3 DEF PlacesOK
<1>5. PlacesAreApart'
  BY <1>1, <1>3 DEF PlacesOK, PlacesAreApart
<1>6. QED
  BY <1>2, <1>4, <1>5 DEF PlacesOK

(***************************************************************************)
(* The handlers of the spectators, in these terms.                         *)
(***************************************************************************)
LEMMA JoinIs ==
  ASSUME IInv, NEW c \in Slots, NEW token, NEW m \in MatchIds, JoinSpectate(c, token, m)
  PROVE  /\ UNCHANGED <<accounts, sessions, drawn, now, open, matches>>
         /\ \/ UserOf(token) = 0 /\ UNCHANGED <<user, authentic, strangers>>
            \/ Valid(token) # {} /\ c \in open /\ Bind(c, UserOf(token))
         /\ Seats(m, UserOf(token)) \/ UNCHANGED places
<1>1. UserOf(token) > 0 => Valid(token) # {}
  BY DEF UserOf
<1>2. UserOf(token) \in Users \cup {0} /\ (UserOf(token) > 0 \/ UserOf(token) = 0)
  BY UserOfAToken, SessionsAssumption DEF IInv, TypeOK, Users
<1>3. QED
  BY <1>1, <1>2 DEF JoinSpectate, MayTake, Seats

\* handle_leave_spectate, in the same terms.
LEMMA LeaveIs ==
  ASSUME NEW c \in Slots, NEW token, NEW m \in MatchIds, LeaveSpectate(c, token, m)
  PROVE  /\ UNCHANGED <<accounts, sessions, drawn, now, open, matches>>
         /\ Valid(token) # {} /\ c \in open /\ Bind(c, UserOf(token))
         /\ LetsGo(m, UserOf(token))
BY DEF LeaveSpectate, LetsGo

(***************************************************************************)
(* The invariant consists of the part of the sessions and that of the      *)
(* places.                                                                 *)
(***************************************************************************)
LEMMA Parts == IInv <=> SInv /\ PlacesOK /\ matches \in
  [MatchIds -> [status : {"none", "running", "ended"}, red : Users \cup {0}, black : Users \cup {0}]]
BY DEF IInv, TypeOK, SInv, PlacesOK

(***************************************************************************)
(* Nobody is connected, and no match has spectators.                       *)
(***************************************************************************)
LEMMA InitIInv == Init => IInv
<1> SUFFICES ASSUME Init PROVE IInv
  OBVIOUS
<1>1. 0 \in Users \cup {0} /\ NoMatch \in [status : {"none", "running", "ended"},
                               red : Users \cup {0}, black : Users \cup {0}]
  BY DEF NoMatch
<1>2. SInv
  BY <1>1, SessionsAssumption
     DEF Init, SessionsInit, SInv, SessionsTypeOK, TokensWereDrawn, StrangersAreNobody
<1>3. PlacesOK
  BY SpectatorsAssumption DEF Init, PlacesOK, PlacesAreApart
<1>4. QED
  BY <1>1, <1>2, <1>3, Parts DEF Init

(***************************************************************************)
(* IInv is inductive: each action, by the part that it touches.            *)
(***************************************************************************)
LEMMA NextIInv == IInv /\ [Next]_vars => IInv'
<1> DEFINE M == [status : {"none", "running", "ended"}, red : Users \cup {0}, black : Users \cup {0}]
<1> SUFFICES ASSUME IInv, [Next]_vars PROVE IInv'
  OBVIOUS
<1>a. SInv /\ PlacesOK /\ matches \in [MatchIds -> M]
  BY Parts
<1>b. SUFFICES SInv' /\ PlacesOK' /\ matches' \in [MatchIds -> M]
  BY DEF IInv, TypeOK, SInv, PlacesOK
<1>1. CASE SessionsNext /\ UNCHANGED <<matches, places>>
  BY <1>a, <1>1, SessionsStep DEF PlacesOK, PlacesAreApart
<1>2. ASSUME NEW m \in MatchIds, NEW red \in Users, NEW black \in Users, MatchStarts(m, red, black)
      PROVE  SInv' /\ PlacesOK' /\ matches' \in [MatchIds -> M]
  <2>1. UNCHANGED <<accounts, sessions, drawn, now, open, user, authentic, strangers, places>>
    BY <1>2 DEF MatchStarts, sessionVars
  <2>2. matches' \in [MatchIds -> M]
    BY <1>a, <1>2 DEF MatchStarts
  <2>3. QED
    BY <1>a, <2>1, <2>2 DEF SInv, SessionsTypeOK, TokensWereDrawn, StrangersAreNobody,
                            PlacesOK, PlacesAreApart
<1>3. ASSUME NEW m \in MatchIds, MatchEnds(m)
      PROVE  SInv' /\ PlacesOK' /\ matches' \in [MatchIds -> M]
  <2>1. UNCHANGED <<accounts, sessions, drawn, now, open, user, authentic, strangers, places>>
    BY <1>3 DEF MatchEnds, sessionVars
  <2>2. matches' \in [MatchIds -> M]
    BY <1>a, <1>3 DEF MatchEnds
  <2>3. QED
    BY <1>a, <2>1, <2>2 DEF SInv, SessionsTypeOK, TokensWereDrawn, StrangersAreNobody,
                            PlacesOK, PlacesAreApart
<1>4. ASSUME NEW c \in Slots, NEW token, NEW u \in Users, Valid(token) # {}, c \in open,
             u = UserOf(token), Bind(c, u), UNCHANGED <<accounts, sessions, drawn, now, open>>
      PROVE  SInv'
  <2>1. TokensWereDrawn' /\ sessions' \subseteq Session /\ drawn' \subseteq Tokens
    BY <1>a, <1>4 DEF SInv, SessionsTypeOK, TokensWereDrawn
  <2>2. QED
    BY <1>a, <1>4, <2>1, BindKeeps
<1>5. ASSUME NEW m \in MatchIds, NEW c \in Slots, NEW token, JoinSpectate(c, token, m)
      PROVE  SInv' /\ PlacesOK' /\ matches' \in [MatchIds -> M]
  <2>1. PICK u \in Users \cup {0} : u = UserOf(token)
    BY <1>a, UserOfAToken DEF SInv
  <2>2. PlacesOK'
    <3>1. CASE Seats(m, u)
      BY <1>a, <3>1, PlacesStep
    <3>2. CASE UNCHANGED places
      BY <1>a, <3>2 DEF PlacesOK, PlacesAreApart
    <3>3. QED
      BY <1>5, <2>1, <3>1, <3>2, JoinIs
  <2>3. SInv'
    <3>1. CASE UNCHANGED <<user, authentic, strangers>>
      BY <1>a, <1>5, <3>1, JoinIs DEF SInv, SessionsTypeOK, TokensWereDrawn, StrangersAreNobody
    <3>2. CASE Valid(token) # {} /\ c \in open /\ Bind(c, u)
      <4>1. u \in Users
        BY <1>a, <2>1, <3>2, UserOfASession DEF SInv
      <4>2. QED
        BY <1>4, <1>5, <2>1, <3>2, <4>1, JoinIs
    <3>3. QED
      BY <1>5, <2>1, <3>1, <3>2, JoinIs
  <2>4. QED
    BY <1>a, <1>5, <2>2, <2>3, JoinIs
<1>6. ASSUME NEW m \in MatchIds, NEW c \in Slots, NEW token, LeaveSpectate(c, token, m)
      PROVE  SInv' /\ PlacesOK' /\ matches' \in [MatchIds -> M]
  <2>1. PICK u \in Users : u = UserOf(token)
    BY <1>a, <1>6, UserOfASession, LeaveIs DEF SInv
  <2>2. PlacesOK'
    BY <1>a, <1>6, <2>1, LeaveIs, PlacesStep
  <2>3. SInv'
    BY <1>4, <1>6, <2>1, LeaveIs
  <2>4. QED
    BY <1>a, <1>6, <2>2, <2>3, LeaveIs
<1>7. CASE ServerRestarts
  <2>1. SInv'
    BY <1>a, <1>7, RestartKeeps DEF ServerRestarts
  <2>2. PlacesOK'
    BY <1>7, SpectatorsAssumption DEF ServerRestarts, PlacesOK, PlacesAreApart
  <2>3. matches' \in [MatchIds -> M]
    BY <1>7 DEF ServerRestarts, NoMatch
  <2>4. QED
    BY <2>1, <2>2, <2>3
<1>8. CASE UNCHANGED vars
  BY <1>a, <1>8 DEF vars, sessionVars, SInv, SessionsTypeOK, TokensWereDrawn, StrangersAreNobody,
                    PlacesOK, PlacesAreApart
<1>9. QED
  BY <1>1, <1>2, <1>3, <1>5, <1>6, <1>7, <1>8 DEF Next
-----------------------------------------------------------------------------
(***************************************************************************)
(* Types are kept.                                                         *)
(***************************************************************************)
THEOREM SpectatorsTypeCorrect == Spec => []TypeOK
<1>1. IInv => TypeOK
  BY DEF IInv
<1>2. QED
  BY <1>1, InitIInv, NextIInv, PTL DEF Spec

(***************************************************************************)
(* News of a match goes to users, and a stranger has none.                 *)
(***************************************************************************)
THEOREM StrangersAreLeftOut == Spec => []StrangersHearNothing
<1>1. IInv => StrangersHearNothing
  <2>1. SUFFICES ASSUME IInv, NEW m \in MatchIds, NEW c \in strangers,
                        c \in BroadcastToMatch(m) \cup ChatMessage(m)
                 PROVE  FALSE
    BY DEF StrangersHearNothing
  <2>2. PICK u : c \in SendToUser(u)
    BY <2>1 DEF BroadcastToMatch, ChatMessage
  <2>3. c \in Slots /\ user[c] = u /\ u > 0
    BY <2>1, <2>2 DEF SendToUser, IInv, TypeOK, SessionsTypeOK
  <2>4. user[c] = 0
    BY <2>1, <2>3 DEF IInv, StrangersAreNobody
  <2>5. QED
    BY <2>3, <2>4
<1>2. QED
  BY <1>1, InitIInv, NextIInv, PTL DEF Spec

(***************************************************************************)
(* A place is taken and given up by its holder, or by a restart.           *)
(***************************************************************************)
LEMMA WatchersOf ==
  ASSUME PlacesOK, NEW m \in MatchIds, NEW u \in Users \cup {0}, Seats(m, u) \/ LetsGo(m, u)
  PROVE  /\ \A l \in MatchIds : l # m => places'[l] = places[l]
         /\ Seats(m, u) => /\ u \notin InUse(places[m])
                           /\ InUse(places'[m]) = InUse(places[m]) \cup {u}
                           /\ Len(places[m]) < MaxSpectators
                           /\ Len(places'[m]) = Len(places[m]) + 1
         /\ LetsGo(m, u) => /\ u \in InUse(places[m])
                            /\ InUse(places'[m]) = InUse(places[m]) \ {u}
                            /\ Len(places'[m]) = Len(places[m]) - 1
<1>1. PICK s \in Seq(Users \cup {0}) :
        s = places[m] /\ \A j, k \in DOMAIN s : j # k => s[j] # s[k]
  BY DEF PlacesOK, PlacesAreApart
<1>2. \A l \in MatchIds : l # m => places'[l] = places[l]
  BY DEF PlacesOK, Seats, LetsGo
<1>3. ASSUME Seats(m, u)
      PROVE  /\ u \notin InUse(s) /\ InUse(places'[m]) = InUse(s) \cup {u}
             /\ Len(s) < MaxSpectators /\ Len(places'[m]) = Len(s) + 1
  <2>1. u \notin InUse(s) /\ places'[m] = Append(s, u) /\ Len(s) < MaxSpectators
    BY <1>1, <1>3 DEF Seats, PlacesOK
  <2>2. PICK w : w = Append(s, u)
    OBVIOUS
  <2>3. InUse(w) = InUse(s) \cup {u} /\ Len(w) = Len(s) + 1
    BY <2>1, <2>2, SeatOne
  <2>4. places'[m] = w
    BY <2>1, <2>2
  <2>5. QED
    BY <2>1, <2>3, <2>4
<1>4. ASSUME LetsGo(m, u)
      PROVE  u \in InUse(s) /\ InUse(places'[m]) = InUse(s) \ {u} /\ Len(places'[m]) = Len(s) - 1
  <2>1. PICK i \in DOMAIN s : s[i] = u /\ places'[m] = Without(s, i)
    BY <1>1, <1>4 DEF LetsGo, PlacesOK
  <2>2. PICK w : w = Without(s, i)
    OBVIOUS
  <2>3. InUse(w) = InUse(s) \ {s[i]} /\ Len(w) = Len(s) - 1
    BY <1>1, <2>1, <2>2, WithoutOne
  <2>4. u \in InUse(s)
    BY <2>1 DEF InUse
  <2>5. places'[m] = w
    BY <2>1, <2>2
  <2>6. QED
    BY <2>1, <2>3, <2>4, <2>5
<1>5. QED
  BY <1>1, <1>2, <1>3, <1>4

(***************************************************************************)
(* What happens to the places, whatever the step.                          *)
(***************************************************************************)
LEMMA PlacesChange ==
  ASSUME IInv, [Next]_vars
  PROVE  \/ UNCHANGED places
         \/ open' = {} /\ places' = [m \in MatchIds |-> << >>]
         \/ \E m \in MatchIds, u \in Users \cup {0} :
              /\ Seats(m, u) \/ LetsGo(m, u)
              /\ u \in Users => (\E s \in Live : s.user = u) /\ (\E c \in open : user'[c] = u)
<1> SessionsTypeOK
  BY DEF IInv, TypeOK
<1>1. ASSUME NEW c \in open, NEW u, Bind(c, u)
      PROVE  user'[c] = u
  BY <1>1 DEF Bind, SessionsTypeOK
<1>2. ASSUME NEW m \in MatchIds, NEW c \in Slots, NEW token, JoinSpectate(c, token, m),
             ~UNCHANGED places
      PROVE  \E u \in Users \cup {0} :
               /\ Seats(m, u)
               /\ u \in Users => (\E s \in Live : s.user = u) /\ (\E d \in open : user'[d] = u)
  <2>1. PICK u \in Users \cup {0} : u = UserOf(token)
    BY UserOfAToken
  <2>2. 0 \notin Users
    BY DEF Users
  <2>3. Seats(m, u)
    BY <1>2, <2>1, JoinIs
  <2>4. CASE u = 0
    BY <2>2, <2>3, <2>4
  <2>5. CASE Valid(token) # {} /\ c \in open /\ Bind(c, u)
    BY <1>1, <2>1, <2>3, <2>5, UserOfASession
  <2>6. QED
    BY <1>2, <2>1, <2>4, <2>5, JoinIs
<1>3. ASSUME NEW m \in MatchIds, NEW c \in Slots, NEW token, LeaveSpectate(c, token, m)
      PROVE  \E u \in Users \cup {0} :
               /\ LetsGo(m, u)
               /\ u \in Users => (\E s \in Live : s.user = u) /\ (\E d \in open : user'[d] = u)
  <2>1. PICK u : u = UserOf(token)
    OBVIOUS
  <2>2. LetsGo(m, u) /\ Valid(token) # {} /\ c \in open /\ Bind(c, u)
    BY <1>3, <2>1, LeaveIs
  <2>3. QED
    BY <1>1, <2>1, <2>2, UserOfASession
<1>4. CASE Next
  BY <1>2, <1>3, <1>4 DEF Next, MatchStarts, MatchEnds, ServerRestarts, Restart
<1>5. CASE UNCHANGED vars
  BY <1>5 DEF vars
<1>6. QED
  BY <1>4, <1>5

(***************************************************************************)
(* A user's place is his own business.                                     *)
(***************************************************************************)
THEOREM HoldersMoveThemselves == Spec => OnlyTheHolderMoves
<1>1. IInv /\ [Next]_vars =>
        \A m \in MatchIds, u \in Users :
          Watches(m, u)' # Watches(m, u) =>
            \/ open' = {}
            \/ /\ \E s \in Live : s.user = u
               /\ \E c \in open : user'[c] = u
  <2>1. SUFFICES ASSUME IInv, [Next]_vars, NEW m \in MatchIds, NEW u \in Users,
                        Watches(m, u)' # Watches(m, u), open' # {}
                 PROVE  (\E s \in Live : s.user = u) /\ (\E c \in open : user'[c] = u)
    OBVIOUS
  <2>2. InUse(places'[m]) # InUse(places[m])
    BY <2>1 DEF Watches, InUse
  <2>3. PICK n \in MatchIds, v \in Users \cup {0} :
          /\ Seats(n, v) \/ LetsGo(n, v)
          /\ v \in Users => (\E s \in Live : s.user = v) /\ (\E c \in open : user'[c] = v)
    BY <2>1, <2>2, PlacesChange
  <2>4. PlacesOK
    BY <2>1, Parts
  <2>5. n = m
    BY <2>2, <2>3, <2>4, WatchersOf
  <2>6. ~((u \in InUse(places'[m])) <=> (u \in InUse(places[m])))
    BY <2>1 DEF Watches, InUse
  <2>7. \/ InUse(places'[m]) = InUse(places[m]) \cup {v}
        \/ InUse(places'[m]) = InUse(places[m]) \ {v}
    BY <2>3, <2>4, <2>5, WatchersOf
  <2>8. v = u
    BY <2>6, <2>7
  <2>9. QED
    BY <2>3, <2>8
<1>2. QED
  BY <1>1, InitIInv, NextIInv, PTL DEF Spec, OnlyTheHolderMoves

(***************************************************************************)
(* The array of places implements a set of limited size.                   *)
(***************************************************************************)
THEOREM SeatsAreASet == Spec => SeatsAsASet
<1> DEFINE W == [m \in MatchIds |-> InUse(places[m])]
           F == [m \in MatchIds |-> MaxSpectators - Len(places[m])]
<1>e. MaxSpectators - Len(<< >>) = MaxSpectators /\ \A p : p = << >> => InUse(p) = {}
  BY SpectatorsAssumption DEF InUse
<1>1. Init => Seating!Init
  <2>1. ASSUME Init
        PROVE  W = [m \in MatchIds |-> {}] /\ F = [m \in MatchIds |-> MaxSpectators]
    <3>1. \A m \in MatchIds : places[m] = << >>
      BY <2>1 DEF Init
    <3>2. QED
      BY <1>e, <3>1
  <2>2. QED
    BY <2>1 DEF Seating!Init, Seating!Empty
<1>2. ASSUME IInv, [Next]_vars
      PROVE  [Seating!Next]_(Seating!vars)
  <2>1. PlacesOK
    BY <1>2, Parts
  <2>2. CASE UNCHANGED places
    BY <2>2 DEF Seating!vars, InUse
  <2>3. CASE places' = [m \in MatchIds |-> << >>]
    <3>1. \A m \in MatchIds : places'[m] = << >>
      BY <2>3
    <3>2. \A m \in MatchIds : InUse(places'[m]) = {} /\ MaxSpectators - Len(places'[m]) = MaxSpectators
      BY <1>e, <3>1
    <3>3. W' = [m \in MatchIds |-> {}] /\ F' = [m \in MatchIds |-> MaxSpectators]
      BY <3>2 DEF InUse
    <3>4. Seating!Restart
      BY <3>3 DEF Seating!Restart, Seating!Empty
    <3>5. QED
      BY <3>4 DEF Seating!Next
  <2>4. ASSUME NEW m \in MatchIds, NEW u \in Users \cup {0}, Seats(m, u) \/ LetsGo(m, u)
        PROVE  Seating!Join(m, u) \/ Seating!Leave(m, u)
    <3>1. \A l \in MatchIds : Len(places[l]) \in Nat
      BY <2>1 DEF PlacesOK
    <3>2. \A l \in MatchIds : l # m => W'[l] = W[l] /\ F'[l] = F[l]
      BY <2>1, <2>4, WatchersOf DEF InUse
    <3>3. W'[m] = InUse(places'[m]) /\ F'[m] = MaxSpectators - Len(places'[m])
          /\ W[m] = InUse(places[m]) /\ F[m] = MaxSpectators - Len(places[m])
      BY DEF InUse
    <3>4. CASE Seats(m, u)
      <4>1. F[m] > 0 /\ u \notin W[m] /\ W'[m] = W[m] \cup {u} /\ F'[m] = F[m] - 1
        BY <2>1, <3>1, <3>3, <3>4, WatchersOf, SpectatorsAssumption
      <4>2. W' = [W EXCEPT ![m] = @ \cup {u}] /\ F' = [F EXCEPT ![m] = @ - 1]
        BY <3>2, <4>1
      <4>3. QED
        BY <4>1, <4>2 DEF Seating!Join
    <3>5. CASE LetsGo(m, u)
      <4>1. u \in W[m] /\ W'[m] = W[m] \ {u} /\ F'[m] = F[m] + 1
        BY <2>1, <3>1, <3>3, <3>5, WatchersOf, SpectatorsAssumption
      <4>2. W' = [W EXCEPT ![m] = @ \ {u}] /\ F' = [F EXCEPT ![m] = @ + 1]
        BY <3>2, <4>1
      <4>3. QED
        BY <4>1, <4>2 DEF Seating!Leave
    <3>6. QED
      BY <2>4, <3>4, <3>5
  <2>5. QED
    BY <1>2, <2>2, <2>3, <2>4, PlacesChange DEF Seating!Next
<1>3. QED
  BY <1>1, <1>2, InitIInv, NextIInv, PTL DEF Spec, SeatsAsASet, Seating!Spec

(***************************************************************************)
(* Sessions admit those whom Access admits, and the clean-up shows in      *)
(* nothing.                                                                *)
(***************************************************************************)
THEOREM TheEntitledAreAdmitted == Spec => AdmitsTheEntitled
<1> DEFINE live == {[token |-> s.token, user |-> s.user] : s \in Live}
<1>1. Init => Admission!Init
  BY DEF Init, SessionsInit, Admission!Init, Admission!Nobody, Live
<1>2. ASSUME IInv, [Next]_vars
      PROVE  [Admission!Next]_(Admission!vars)
  <2> SessionsTypeOK /\ TokensWereDrawn
    BY <1>2 DEF IInv, TypeOK
  <2>1. ASSUME UNCHANGED <<user, sessions, now>>
        PROVE  UNCHANGED Admission!vars
    BY <2>1 DEF Admission!vars, Live
  <2>2. ASSUME NEW c \in Slots, NEW token, Valid(token) # {}, Bind(c, UserOf(token)),
               UNCHANGED <<sessions, now>>
        PROVE  Admission!Return(c)
    <3>1. PICK s \in Live : s.user = UserOf(token)
      BY <2>2, UserOfASession
    <3>2. UNCHANGED live
      BY <2>2 DEF Live
    <3>3. PICK a : a = [token |-> s.token, user |-> s.user]
      OBVIOUS
    <3>4. a \in live /\ user' = [user EXCEPT ![c] = a.user]
      BY <2>2, <3>1, <3>3 DEF Bind
    <3>5. QED
      BY <3>2, <3>4 DEF Admission!Return
  <2>3. ASSUME NEW c \in Slots, Connect(c) \/ \E name \in Names, email \in Emails : Register(c, name, email)
        PROVE  UNCHANGED Admission!vars
    BY <2>1, <2>3 DEF Connect, Register
  <2>4. ASSUME NEW c \in Slots, Disconnect(c)
        PROVE  Admission!Exit(c)
    BY <2>4 DEF Disconnect, Release, Admission!Exit, Live
  <2>5. ASSUME NEW c \in Slots, NEW u \in Users, NEW token \in Tokens, Login(c, u, token)
        PROVE  Admission!Enter(c, token, u)
    <3>1. PICK s : s = [token |-> token, user |-> u, expires |-> now + Life]
      OBVIOUS
    <3>2. sessions' = sessions \cup {s} /\ now' = now /\ user' = [user EXCEPT ![c] = u]
          /\ token \notin drawn
      BY <2>5, <3>1 DEF Login, WithSession, Bind
    <3>3. s.expires > now /\ s.token = token /\ s.user = u
      BY <3>1, SessionsAssumption DEF SessionsTypeOK
    <3>4. Live' = Live \cup {s}
      BY <3>2, <3>3 DEF Live
    <3>5. live' = live \cup {[token |-> token, user |-> u]}
      BY <3>3, <3>4
    <3>6. \A r \in live : r.token # token
      BY <3>2 DEF TokensWereDrawn, Live
    <3>7. QED
      BY <3>2, <3>5, <3>6 DEF Admission!Enter
  <2>6. ASSUME NEW c \in Slots, NEW token, Logout(c, token)
        PROVE  Admission!Exit(c)
    <3>1. user' = [user EXCEPT ![c] = 0] /\ now' = now
          /\ sessions' \subseteq sessions /\ \A s \in sessions \ sessions' : s.token = token
      BY <2>6 DEF Logout, WithoutSession, Release
    <3>2. Live' \subseteq Live /\ \A s \in Live \ Live' : s.token = token
      BY <3>1 DEF Live
    <3>3. live' \subseteq live
      BY <3>2
    <3>4. \A r \in live \ live' : r.token = token
      <4>1. ASSUME NEW r \in live, r \notin live'
            PROVE  r.token = token
        <5>1. PICK s \in Live : r = [token |-> s.token, user |-> s.user]
          OBVIOUS
        <5>2. s \notin Live'
          BY <4>1, <5>1
        <5>3. QED
          BY <3>2, <5>1, <5>2
      <4>2. QED
        BY <4>1
    <3>5. QED
      BY <3>1, <3>3, <3>4 DEF Admission!Exit
  <2>7. ASSUME Tick
        PROVE  Admission!Lapse
    <3>1. Live' \subseteq Live /\ user' = user
      <4>1. \A s \in sessions : s.expires \in Nat
        BY DEF SessionsTypeOK, Session
      <4>2. sessions' = sessions /\ now' = now + 1 /\ now \in Nat /\ user' = user
        BY <2>7 DEF Tick, SessionsTypeOK
      <4>3. QED
        BY <4>1, <4>2 DEF Live
    <3>2. live' \subseteq live
      BY <3>1
    <3>3. QED
      BY <3>1, <3>2 DEF Admission!Lapse
  <2>8. ASSUME now' = now,
               sessions' = sessions \/ sessions' = {s \in sessions : ~Expired(s)}
        PROVE  live' = live
    <3>1. \A s \in sessions : s.expires \in Nat
      BY DEF SessionsTypeOK, Session
    <3>2. Live' = Live
      BY <2>8, <3>1 DEF Live, Expired, SessionsTypeOK
    <3>3. QED
      BY <3>2
  <2>9. ASSUME CleanupExpired
        PROVE  UNCHANGED Admission!vars
    BY <2>8, <2>9 DEF CleanupExpired, Admission!vars
  <2>10. ASSUME ServerRestarts
         PROVE  Admission!Restart
    BY <2>8, <2>10 DEF ServerRestarts, Restart, Admission!Restart, Admission!Nobody
  <2>11. ASSUME SessionsNext
         PROVE  [Admission!Next]_(Admission!vars)
    <3>1. ASSUME NEW c \in Slots, NEW token \in Tokens, ValidateToken(c, token)
          PROVE  Admission!Return(c)
      BY <2>2, <3>1 DEF ValidateToken
    <3>2. QED
      BY <2>3, <2>4, <2>5, <2>6, <2>7, <2>9, <2>11, <3>1 DEF SessionsNext, Admission!Next
  <2>12. ASSUME NEW m \in MatchIds, NEW c \in Slots, NEW token, JoinSpectate(c, token, m)
         PROVE  [Admission!Next]_(Admission!vars)
    <3>1. CASE UNCHANGED <<user, authentic, strangers>>
      BY <2>1, <2>12, <3>1, <1>2, JoinIs
    <3>2. CASE Valid(token) # {} /\ Bind(c, UserOf(token))
      BY <2>2, <2>12, <3>2, <1>2, JoinIs DEF Admission!Next
    <3>3. QED
      BY <2>12, <3>1, <3>2, <1>2, JoinIs
  <2>13. ASSUME NEW m \in MatchIds, NEW c \in Slots, NEW token, LeaveSpectate(c, token, m)
         PROVE  [Admission!Next]_(Admission!vars)
    BY <2>2, <2>13, LeaveIs DEF Admission!Next
  <2>14. ASSUME NEW m \in MatchIds,
                MatchEnds(m) \/ \E red, black \in Users : MatchStarts(m, red, black)
         PROVE  UNCHANGED Admission!vars
    BY <2>1, <2>14 DEF MatchEnds, MatchStarts, sessionVars
  <2>15. CASE UNCHANGED vars
    BY <2>1, <2>15 DEF vars, sessionVars
  <2>16. QED
    BY <1>2, <2>10, <2>11, <2>12, <2>13, <2>14, <2>15 DEF Next, Admission!Next
<1>3. QED
  BY <1>1, <1>2, InitIInv, NextIInv, PTL DEF Spec, AdmitsTheEntitled, Admission!Spec
================================================================================
