------------------------------- MODULE Launcher -------------------------------
(***************************************************************************)
(* The connection of the client: ClientManager of client/launcher.py over  *)
(* client_connect, client_disconnect and client_is_connected of            *)
(* client/lib/client.c.  A page calls connect, disconnect and send, each   *)
(* call in a thread of its own; the poll thread watches the connection,    *)
(* and starts the reconnect thread when it is lost.  A page that is left   *)
(* does not wait for its calls, and the next page may find them running.   *)
(*                                                                         *)
(* A step goes from one use of the fields that threads share to the next.  *)
(* Of the messages only the status of the connection is kept; the server   *)
(* may be away, come back and drop the connection as it likes.             *)
(***************************************************************************)
EXTENDS Naturals

CONSTANTS
  Calls,        \* the threads in which pages call connect and disconnect
  MaxAttempts,  \* reconnect_timeout / reconnect_interval (300 s / 5 s)
  MaxLosses     \* bound of the model: how often the server drops the client

ASSUME LauncherAssumption ==
  /\ MaxAttempts \in Nat
  /\ MaxLosses \in Nat

VARIABLES
  up,         \* is_connected of the library; sock_fd is open with it
  peer,       \* whether the server still has its end of the connection
  connected,  \* self.connected
  stop,       \* self._stop_event
  poller,     \* the poll thread: where it is, and was_connected
  retrying,   \* self._reconnect_active
  retrier,    \* where the reconnect thread is
  attempts,   \* its attempts, which stand for the time it has taken
  call,       \* where each call of a page is
  told,       \* the last status that a page was told
  losses,     \* how often the connection was dropped
  muddled     \* history: calls came together that do not go together

vars == <<up, peer, connected, stop, poller, retrying, retrier, attempts,
          call, told, losses, muddled>>

NoPoller == [at |-> "ended", was |-> FALSE]
FreshPoller == [at |-> "loop", was |-> FALSE]
-----------------------------------------------------------------------------
Init ==
  /\ up = FALSE /\ peer = "none"
  /\ connected = FALSE
  /\ stop = FALSE
  /\ poller = NoPoller
  /\ retrying = FALSE /\ retrier = "ended" /\ attempts = 0
  /\ call = [t \in Calls |-> "idle"]
  /\ told = "nothing"
  /\ losses = 0
  /\ muddled = FALSE

At(t, where) == call' = [call EXCEPT ![t] = where]

Selecting == retrier = "select" \/ \E t \in Calls : call[t] = "select"

\* The connection is lost, is about to be noticed as lost, or being retried.
Losing == ~up \/ poller.at = "lost" \/ retrying

\* client_connect says at once that it is connected, or waits for the server.
Connecting == IF up THEN "returned" ELSE "select"

\* client_connect succeeds; client_disconnect.
Established == up' = TRUE /\ peer' = "alive"
Hangup == up' = FALSE /\ peer' = "none"
-----------------------------------------------------------------------------
(***************************************************************************)
(* connect, called by a page.                                              *)
(***************************************************************************)
Connect(t) ==
  /\ call[t] = "idle"
  /\ At(t, Connecting)
  /\ muddled' = (muddled \/ Selecting \/ \E u \in Calls : call[u] # "idle")
  /\ UNCHANGED <<up, peer, connected, stop, poller, retrying, retrier, attempts, told, losses>>

ConnectSucceeds(t) ==
  /\ call[t] = "select"
  /\ Established
  /\ At(t, "returned")
  /\ UNCHANGED <<connected, stop, poller, retrying, retrier, attempts, told, losses, muddled>>

ConnectFails(t) ==
  /\ \/ call[t] = "select"
     \/ call[t] = "returned" /\ ~up
  /\ At(t, "idle")
  /\ told' = "failed"
  /\ UNCHANGED <<up, peer, connected, stop, poller, retrying, retrier, attempts, losses, muddled>>

ConnectReturned(t) ==
  /\ call[t] = "returned"
  /\ up
  /\ connected' = TRUE
  /\ At(t, "start")
  /\ UNCHANGED <<up, peer, stop, poller, retrying, retrier, attempts, told, losses, muddled>>

\* Mutant: the event that stopped the last one is still set.
StopKept == stop
StopCleared == FALSE

\* _start_poll_thread
StartPollThread(t) ==
  /\ call[t] = "start"
  /\ IF poller.at = "ended" THEN stop' = StopCleared /\ poller' = FreshPoller
     ELSE UNCHANGED <<stop, poller>>
  /\ told' = "connected"
  /\ At(t, "idle")
  /\ UNCHANGED <<up, peer, connected, retrying, retrier, attempts, losses, muddled>>

(***************************************************************************)
(* disconnect, called by a page that was told that it is connected, or     *)
(* that has not read yet that it is not.                                   *)
(***************************************************************************)
DisconnectRefused(t) ==
  /\ call[t] = "idle"
  /\ told # "nothing" /\ ~connected
  /\ told' = "nothing"
  /\ UNCHANGED <<up, peer, connected, stop, poller, retrying, retrier, attempts, call, losses, muddled>>

Disconnect(t) ==
  /\ call[t] = "idle"
  /\ told # "nothing" /\ connected
  /\ stop' = TRUE
  /\ At(t, "join")
  /\ muddled' = (muddled \/ Losing \/ \E u \in Calls : call[u] # "idle")
  /\ UNCHANGED <<up, peer, connected, poller, retrying, retrier, attempts, told, losses>>

\* The poll thread comes to look at the event within the second of the join.
Joined(t) ==
  /\ call[t] = "join"
  /\ poller.at = "ended"
  /\ Hangup
  /\ At(t, "leave")
  /\ UNCHANGED <<connected, stop, poller, retrying, retrier, attempts, told, losses, muddled>>

Disconnected(t) ==
  /\ call[t] = "leave"
  /\ connected' = FALSE
  /\ told' = "nothing"
  /\ At(t, "idle")
  /\ UNCHANGED <<up, peer, stop, poller, retrying, retrier, attempts, losses, muddled>>

(***************************************************************************)
(* send: only one that finds the connection closed by the server changes   *)
(* anything, and not even each of these.                                   *)
(***************************************************************************)
SendFails ==
  /\ connected /\ up /\ peer = "dead"
  /\ Hangup
  /\ muddled' = (muddled \/ ~poller.was)
  /\ UNCHANGED <<connected, stop, poller, retrying, retrier, attempts, call, told, losses>>
-----------------------------------------------------------------------------
(***************************************************************************)
(* _poll_loop.  client_process_messages finds out that the server is gone. *)
(***************************************************************************)
PollStops ==
  /\ poller.at = "loop"
  /\ stop
  /\ poller' = NoPoller
  /\ UNCHANGED <<up, peer, connected, stop, retrying, retrier, attempts, call, told, losses, muddled>>

PollSees ==
  /\ poller.at = "loop"
  /\ ~stop
  /\ up
  /\ poller' = [poller EXCEPT !.was = TRUE]
  /\ IF peer = "dead" THEN Hangup ELSE UNCHANGED <<up, peer>>
  /\ UNCHANGED <<connected, stop, retrying, retrier, attempts, call, told, losses, muddled>>

PollMisses ==
  /\ poller.at = "loop"
  /\ ~stop
  /\ ~up
  /\ poller.was /\ ~retrying
  /\ poller' = [poller EXCEPT !.at = "lost"]
  /\ UNCHANGED <<up, peer, connected, stop, retrying, retrier, attempts, call, told, losses, muddled>>

\* _start_reconnect
StartReconnect ==
  /\ poller.at = "lost"
  /\ connected' = FALSE
  /\ poller' = FreshPoller
  /\ retrying' = TRUE
  /\ retrier' = "loop"
  /\ attempts' = 0
  /\ told' = "reconnecting"
  /\ UNCHANGED <<up, peer, stop, call, losses, muddled>>

(***************************************************************************)
(* _reconnect_loop                                                         *)
(***************************************************************************)
InTime == attempts < MaxAttempts

RetryStops ==
  /\ retrier = "loop"
  /\ ~retrying \/ stop
  /\ retrier' = "ended"
  /\ UNCHANGED <<up, peer, connected, stop, poller, retrying, attempts, call, told, losses, muddled>>

RetryGivesUp ==
  /\ retrier = "loop"
  /\ retrying /\ ~stop
  /\ ~InTime
  /\ retrying' = FALSE
  /\ told' = "failed"
  /\ retrier' = "ended"
  /\ muddled' = (muddled \/ \E t \in Calls : call[t] = "start")
  /\ UNCHANGED <<up, peer, connected, stop, poller, attempts, call, losses>>

RetryConnects ==
  /\ retrier = "loop"
  /\ retrying /\ ~stop
  /\ InTime
  /\ attempts' = attempts + 1
  /\ told' = "reconnecting"
  /\ retrier' = Connecting
  /\ muddled' = (muddled \/ (~up /\ Selecting))
  /\ UNCHANGED <<up, peer, connected, stop, poller, retrying, call, losses>>

RetrySucceeds ==
  /\ retrier = "select"
  /\ Established
  /\ retrier' = "returned"
  /\ UNCHANGED <<connected, stop, poller, retrying, attempts, call, told, losses, muddled>>

RetryFails ==
  /\ \/ retrier = "select"
     \/ retrier = "returned" /\ ~up
  /\ retrier' = "wait"
  /\ UNCHANGED <<up, peer, connected, stop, poller, retrying, attempts, call, told, losses, muddled>>

RetryReturned ==
  /\ retrier = "returned"
  /\ up
  /\ connected' = TRUE
  /\ retrier' = "won"
  /\ UNCHANGED <<up, peer, stop, poller, retrying, attempts, call, told, losses, muddled>>

\* Mutant: the thread ends, and still counts as running.
RetryingStill == retrying
RetryingOver == FALSE

RetryWon ==
  /\ retrier = "won"
  /\ retrying' = RetryingOver
  /\ told' = "connected"
  /\ retrier' = "ended"
  /\ UNCHANGED <<up, peer, connected, stop, poller, attempts, call, losses, muddled>>

\* Five seconds, or until the event is set.
RetryWaited ==
  /\ retrier = "wait"
  /\ retrier' = "loop"
  /\ UNCHANGED <<up, peer, connected, stop, poller, retrying, attempts, call, told, losses, muddled>>
-----------------------------------------------------------------------------
ServerDrops ==
  /\ peer = "alive"
  /\ losses < MaxLosses
  /\ losses' = losses + 1
  /\ peer' = "dead"
  /\ UNCHANGED <<up, connected, stop, poller, retrying, retrier, attempts, call, told, muddled>>

Goes(t) ==
  \/ ConnectSucceeds(t)
  \/ ConnectFails(t)
  \/ ConnectReturned(t)
  \/ StartPollThread(t)
  \/ Joined(t)
  \/ Disconnected(t)

Poll == PollStops \/ PollSees \/ PollMisses \/ StartReconnect

Retry ==
  \/ RetryStops \/ RetryGivesUp \/ RetryConnects \/ RetrySucceeds
  \/ RetryFails \/ RetryReturned \/ RetryWon \/ RetryWaited

Next ==
  \/ \E t \in Calls : \/ Connect(t)
                      \/ DisconnectRefused(t)
                      \/ Disconnect(t)
                      \/ Goes(t)
  \/ SendFails
  \/ Poll
  \/ Retry
  \/ ServerDrops

Spec == Init /\ [][Next]_vars

\* Every thread goes on; connect() has a time-out of five seconds.
Fairness ==
  /\ \A t \in Calls : WF_vars(Goes(t))
  /\ WF_vars(Poll)
  /\ WF_vars(Retry)

FairSpec == Spec /\ Fairness
-----------------------------------------------------------------------------
TypeOK ==
  /\ up \in BOOLEAN
  /\ peer \in {"none", "alive", "dead"}
  /\ connected \in BOOLEAN
  /\ stop \in BOOLEAN
  /\ poller \in [at : {"ended", "loop", "lost"}, was : BOOLEAN]
  /\ retrying \in BOOLEAN
  /\ retrier \in {"ended", "loop", "select", "returned", "won", "wait"}
  /\ attempts \in 0..MaxAttempts
  /\ call \in [Calls -> {"idle", "select", "returned", "start", "join", "leave"}]
  /\ told \in {"nothing", "connected", "reconnecting", "failed"}
  /\ losses \in 0..MaxLosses
  /\ muddled \in BOOLEAN

Leaving == \E t \in Calls : call[t] \in {"join", "leave"}

(***************************************************************************)
(* A page that was told that it is connected is, or the loss will be seen: *)
(* the poll thread is there, will not stop, and knows what it has lost.    *)
(***************************************************************************)
BeliefIsWatched ==
  told = "connected" /\ ~Leaving /\ ~muddled =>
    /\ poller.at # "ended"
    /\ ~stop
    /\ up \/ poller.was \/ retrying

(***************************************************************************)
(* Whoever believes in a connection that is lost gets it back, or is told  *)
(* that there is none.                                                     *)
(***************************************************************************)
LossIsRetried ==
  told \in {"connected", "reconnecting"} /\ ~up ~>
    up \/ told \in {"failed", "nothing"} \/ muddled
===============================================================================
