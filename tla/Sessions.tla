------------------------------- MODULE Sessions -------------------------------
(***************************************************************************)
(* Accounts, sessions, and for whom each connection speaks: the handlers   *)
(* of handlers_auth.c and the macro REQUIRE_AUTH, over session.c and the   *)
(* tables Users and Sessions.  Connections are in memory; accounts and     *)
(* sessions are in the database and survive the server.                    *)
(*                                                                         *)
(* A step is one message of a client, handled to its end.  A failing       *)
(* statement of the database is a choice of the step.  Of a password only  *)
(* this is left: a login without the right one does nothing.               *)
(***************************************************************************)
EXTENDS Integers, Sequences

CONSTANTS
  Names, Emails,
  Tokens,      \* 64 random digits each: never drawn twice
  MaxClients,  \* MAX_CLIENTS (1000)
  Life,        \* SESSION_EXPIRES_HOURS (24)
  MaxTime,     \* bound of the model: the clock
  MaxUsers,    \* bound of the model: accounts
  DbFaults     \* whether the database may fail

ASSUME SessionsAssumption ==
  /\ MaxClients \in Nat
  /\ Life \in Nat \ {0}
  /\ MaxTime \in Nat
  /\ MaxUsers \in Nat
  /\ DbFaults \in BOOLEAN

VARIABLES
  accounts,  \* the table Users; user_id is the position
  sessions,  \* the table Sessions
  drawn,     \* the tokens that were drawn
  now,       \* the clock of the database
  open,      \* the entries of server->clients that are in use
  user,      \* client->user_id
  authentic, \* client->authenticated
  strangers  \* history: who has proved nothing since he came or logged out

sessionVars == <<accounts, sessions, drawn, now, open, user, authentic, strangers>>

Slots == 1..MaxClients
Users == 1..MaxUsers
NoToken == "none"
-----------------------------------------------------------------------------
\* UNIQUE, of both columns, in db.sql.
Unique(name, email) == \A i \in DOMAIN accounts :
  accounts[i].name # name /\ accounts[i].email # email

Registered == DOMAIN accounts

\* db_check_username_exists, db_check_email_exists
UsernameExists(name) == \E i \in Registered : accounts[i].name = name
EmailExists(email) == \E i \in Registered : accounts[i].email = email

\* Mutant: whoever's session is still in the table is let in.
AnySession(token) == {s \in sessions : s.token = token}
\* db_session_validate
Valid(token) == {s \in sessions : s.token = token /\ s.expires > now}

\* The user of a token that is not valid is 0.
UserOf(token) == IF Valid(token) = {} THEN 0
                 ELSE (CHOOSE s \in Valid(token) : TRUE).user

\* db_session_create, db_session_destroy
WithSession(token, u) ==
  sessions \cup {[token |-> token, user |-> u, expires |-> now + Life]}
WithoutSession(token) == {s \in sessions : s.token # token}

\* What the handlers do to the connection when they know its user.
Bind(c, u) ==
  /\ user' = [user EXCEPT ![c] = u]
  /\ authentic' = [authentic EXCEPT ![c] = TRUE]
  /\ strangers' = strangers \ {c}

\* Mutant: only the flag is taken back.
KeepUser(c) ==
  /\ authentic' = [authentic EXCEPT ![c] = FALSE]
  /\ UNCHANGED user
Release(c) ==
  /\ authentic' = [authentic EXCEPT ![c] = FALSE]
  /\ user' = [user EXCEPT ![c] = 0]

\* db_session_cleanup_expired
Expired(s) == s.expires < now
-----------------------------------------------------------------------------
SessionsInit ==
  /\ accounts = << >>
  /\ sessions = {}
  /\ drawn = {}
  /\ now = 0
  /\ open = {}
  /\ user = [c \in Slots |-> 0]
  /\ authentic = [c \in Slots |-> FALSE]
  /\ strangers = {}

\* handle_new_connection: the first free entry.
Connect(c) ==
  /\ c \notin open
  /\ \A d \in Slots : d < c => d \in open
  /\ open' = open \cup {c}
  /\ strangers' = strangers \cup {c}
  /\ UNCHANGED <<accounts, sessions, drawn, now, user, authentic>>

\* client_disconnect: client->session_token is never set, so no session ends.
Disconnect(c) ==
  /\ c \in open
  /\ open' = open \ {c}
  /\ strangers' = strangers \ {c}
  /\ Release(c)
  /\ UNCHANGED <<accounts, sessions, drawn, now>>

(***************************************************************************)
(* handle_register: both checks find nothing when their statement fails;   *)
(* the table refuses what is there already.                                *)
(***************************************************************************)
Register(c, name, email) ==
  /\ c \in open
  /\ Len(accounts) < MaxUsers
  /\ DbFaults \/ ~UsernameExists(name)
  /\ DbFaults \/ ~EmailExists(email)
  /\ Unique(name, email)
  /\ accounts' = Append(accounts, [name |-> name, email |-> email])
  /\ UNCHANGED <<sessions, drawn, now, open, user, authentic, strangers>>

\* handle_login, with the right password; one user may log in many times.
Login(c, u, token) ==
  /\ c \in open
  /\ u \in Registered
  /\ token \notin drawn
  /\ drawn' = drawn \cup {token}
  /\ sessions' = WithSession(token, u)
  /\ Bind(c, u)
  /\ UNCHANGED <<accounts, now, open>>

\* handle_logout: whether the session could be deleted is not looked at.
Logout(c, token) ==
  /\ c \in open
  /\ authentic[c]
  /\ \/ sessions' = WithoutSession(token)
     \/ DbFaults /\ UNCHANGED sessions
  /\ Release(c)
  /\ strangers' = strangers \cup {c}
  /\ UNCHANGED <<accounts, drawn, now, open>>

(***************************************************************************)
(* handle_validate_token, and the first lines of every handler that begins *)
(* with REQUIRE_AUTH.  With any other token the connection goes on to      *)
(* speak for whom it spoke before.                                         *)
(***************************************************************************)
ValidateToken(c, token) ==
  /\ c \in open
  /\ Valid(token) # {}
  /\ Bind(c, UserOf(token))
  /\ UNCHANGED <<accounts, sessions, drawn, now, open>>

Tick ==
  /\ now < MaxTime
  /\ now' = now + 1
  /\ UNCHANGED <<accounts, sessions, drawn, open, user, authentic, strangers>>

\* session_cleanup_expired, in server_run; it may come late.
CleanupExpired ==
  /\ sessions' = {s \in sessions : ~Expired(s)}
  /\ UNCHANGED <<accounts, drawn, now, open, user, authentic, strangers>>

\* The server stops, in whatever way, and starts: session_init.
Restart ==
  /\ open' = {}
  /\ user' = [c \in Slots |-> 0]
  /\ authentic' = [c \in Slots |-> FALSE]
  /\ strangers' = {}
  /\ \/ sessions' = {s \in sessions : ~Expired(s)}
     \/ DbFaults /\ UNCHANGED sessions
  /\ UNCHANGED <<accounts, drawn, now>>

SessionsNext ==
  \/ \E c \in Slots :
       \/ Connect(c)
       \/ Disconnect(c)
       \/ \E name \in Names, email \in Emails : Register(c, name, email)
       \/ \E u \in Users, token \in Tokens : Login(c, u, token)
       \/ \E token \in Tokens \cup {NoToken} : Logout(c, token)
       \/ \E token \in Tokens : ValidateToken(c, token)
  \/ Tick
  \/ CleanupExpired
-----------------------------------------------------------------------------
Account == [name : Names, email : Emails]
Session == [token : Tokens, user : Users, expires : Nat]

SessionsTypeOK ==
  /\ accounts \in Seq(Account)
  /\ Len(accounts) <= MaxUsers
  /\ sessions \subseteq Session
  /\ drawn \subseteq Tokens
  /\ now \in Nat
  /\ open \subseteq Slots
  /\ user \in [Slots -> Users \cup {0}]
  /\ authentic \in [Slots -> BOOLEAN]
  /\ strangers \subseteq open

(***************************************************************************)
(* Nobody comes to speak for a user but by a login or by the token of a    *)
(* session that is still valid; the clean-up, however late, the restart of *)
(* the server and a failing database show in nothing.                      *)
(***************************************************************************)
Live == {s \in sessions : s.expires > now}

Admission == INSTANCE Access WITH
  who <- user,
  live <- {[token |-> s.token, user |-> s.user] : s \in Live}

AdmitsTheEntitled == Admission!Spec
===============================================================================
