---------------------------- MODULE LauncherProofs ----------------------------
(***************************************************************************)
(* Proofs about Launcher, for any number of calls, attempts and losses.    *)
(***************************************************************************)
EXTENDS Launcher, TLAPS

(***************************************************************************)
(* What holds of the threads as long as the calls go together.             *)
(***************************************************************************)
OneCall == \A t, u \in Calls : t # u => call[t] = "idle" \/ call[u] = "idle"

\* The event is set only while a call of disconnect is on, or nobody polls.
StopIsADisconnect ==
  /\ \A t \in Calls : call[t] = "join" => stop /\ poller.at # "lost"
  /\ \A t \in Calls : call[t] = "leave" => poller.at = "ended"
  /\ stop /\ poller.at # "ended" => Leaving

\* Who retries is not disturbed by a disconnect.
RetryIsPolled ==
  /\ retrying => ~Leaving /\ poller.at = "loop"
  /\ retrier = "won" => up \/ poller.was

\* A loss will be seen, also while the page is being told of the connection.
LossIsSeen ==
  /\ told = "connected" /\ ~Leaving => poller.at # "ended"
  /\ told = "connected" \/ (\E t \in Calls : call[t] = "start") =>
       Leaving \/ up \/ poller.was \/ retrying

Together == OneCall /\ StopIsADisconnect /\ RetryIsPolled /\ LossIsSeen

IInv ==
  /\ TypeOK
  /\ retrier # "ended" => retrying
  /\ poller.at = "lost" => poller.was
  /\ poller = NoPoller \/ poller.at # "ended"
  /\ ~muddled => Together
-----------------------------------------------------------------------------
(***************************************************************************)
(* The two values that the code gives the poll thread.                     *)
(***************************************************************************)
LEMMA PollerTypes ==
  /\ NoPoller \in [at : {"ended", "loop", "lost"}, was : BOOLEAN]
  /\ FreshPoller \in [at : {"ended", "loop", "lost"}, was : BOOLEAN]
  /\ NoPoller.at = "ended" /\ NoPoller.was = FALSE
  /\ FreshPoller.at = "loop" /\ FreshPoller.was = FALSE
<1>1. NoPoller.at = "ended" /\ NoPoller.was = FALSE
  BY DEF NoPoller
<1>2. FreshPoller.at = "loop" /\ FreshPoller.was = FALSE
  BY DEF FreshPoller
<1>3. /\ NoPoller \in [at : {"ended", "loop", "lost"}, was : BOOLEAN]
      /\ FreshPoller \in [at : {"ended", "loop", "lost"}, was : BOOLEAN]
  BY Zenon DEF NoPoller, FreshPoller
<1> QED
  BY <1>1, <1>2, <1>3

(***************************************************************************)
(* The initial state.                                                      *)
(***************************************************************************)
LEMMA InitIInv == Init => IInv
<1> SUFFICES ASSUME Init
             PROVE  IInv
  OBVIOUS
<1>1. TypeOK
  <2>1. 0 \in 0..MaxAttempts /\ 0 \in 0..MaxLosses
    BY LauncherAssumption
  <2>2. poller \in [at : {"ended", "loop", "lost"}, was : BOOLEAN]
    BY PollerTypes DEF Init
  <2> QED
    BY <2>1, <2>2 DEF Init, TypeOK
<1>2. Together
  BY PollerTypes DEF Init, Together, OneCall, StopIsADisconnect, RetryIsPolled,
         LossIsSeen, Leaving
<1> QED
  BY <1>1, <1>2, PollerTypes DEF Init, IInv

(***************************************************************************)
(* A call of connect that disturbs nobody is the only call.                *)
(***************************************************************************)
LEMMA ConnectIsAlone ==
  ASSUME NEW t \in Calls, NEW where,
         call \in [Calls -> {"idle", "select", "returned", "start", "join", "leave"}],
         Connect(t), At(t, where), ~muddled'
  PROVE  OneCall'
<1>1. \A u \in Calls : call[u] = "idle"
  BY DEF Connect
<1>2. \A u \in Calls : u # t => call'[u] = "idle"
  BY <1>1 DEF At
<1> QED
  BY <1>2 DEF OneCall

(***************************************************************************)
(* The steps of a call of connect.                                         *)
(***************************************************************************)
LEMMA ConnectStep ==
  ASSUME IInv,
         NEW t \in Calls,
         \/ Connect(t)
         \/ ConnectSucceeds(t)
         \/ ConnectFails(t)
         \/ ConnectReturned(t)
         \/ StartPollThread(t)
  PROVE  IInv'
<1> USE LauncherAssumption, PollerTypes
    DEF IInv, TypeOK, Together, OneCall, StopIsADisconnect, RetryIsPolled,
        LossIsSeen, Leaving
<1>1. CASE Connect(t)
  <2>1. PICK where \in {"returned", "select"} : At(t, where)
    BY <1>1 DEF Connect, Connecting
  <2>2. TypeOK'
    BY <1>1, <2>1 DEF Connect, At
  <2>3. ASSUME ~muddled'
        PROVE  OneCall'
    BY <1>1, <2>1, <2>3, ConnectIsAlone
  <2>4. ASSUME ~muddled'
        PROVE  StopIsADisconnect' /\ RetryIsPolled' /\ LossIsSeen'
    BY <1>1, <2>1, <2>4 DEF Connect, At
  <2> QED
    BY <1>1, <2>2, <2>3, <2>4 DEF Connect
<1>2. CASE ConnectSucceeds(t)
  BY <1>2 DEF ConnectSucceeds, At, Established
<1>3. CASE ConnectFails(t)
  BY <1>3 DEF ConnectFails, At
<1>4. CASE ConnectReturned(t)
  BY <1>4 DEF ConnectReturned, At
<1>5. CASE StartPollThread(t)
  BY <1>5, ZenonT(30) DEF StartPollThread, At, StopCleared
<1> QED
  BY <1>1, <1>2, <1>3, <1>4, <1>5

(***************************************************************************)
(* The steps of a call of disconnect.                                      *)
(***************************************************************************)
LEMMA DisconnectStep ==
  ASSUME IInv,
         NEW t \in Calls,
         DisconnectRefused(t) \/ Disconnect(t) \/ Joined(t) \/ Disconnected(t)
  PROVE  IInv'
<1> USE LauncherAssumption, PollerTypes
    DEF IInv, TypeOK, Together, OneCall, StopIsADisconnect, RetryIsPolled,
        LossIsSeen, Leaving
<1>1. CASE DisconnectRefused(t)
  BY <1>1 DEF DisconnectRefused
<1>2. CASE Disconnect(t)
  BY <1>2, ZenonT(30) DEF Disconnect, At, Losing
<1>3. CASE Joined(t)
  BY <1>3 DEF Joined, At, Hangup
<1>4. CASE Disconnected(t)
  BY <1>4, ZenonT(30) DEF Disconnected, At
<1> QED
  BY <1>1, <1>2, <1>3, <1>4

(***************************************************************************)
(* The steps of the poll thread.                                           *)
(***************************************************************************)
LEMMA PollStep ==
  ASSUME IInv, Poll
  PROVE  IInv'
<1> USE LauncherAssumption, PollerTypes
    DEF IInv, TypeOK, Together, OneCall, StopIsADisconnect, RetryIsPolled,
        LossIsSeen, Leaving
<1>1. CASE PollStops
  BY <1>1 DEF PollStops
<1>2. CASE PollSees
  BY <1>2 DEF PollSees, Hangup
<1>3. CASE PollMisses
  BY <1>3 DEF PollMisses
<1>4. CASE StartReconnect
  <2>1. 0 \in 0..MaxAttempts
    OBVIOUS
  <2>2. poller' \in [at : {"ended", "loop", "lost"}, was : BOOLEAN]
    BY <1>4 DEF StartReconnect
  <2> QED
    BY <1>4, <2>1, <2>2 DEF StartReconnect
<1> QED
  BY <1>1, <1>2, <1>3, <1>4 DEF Poll

(***************************************************************************)
(* The steps of the reconnect thread.                                      *)
(***************************************************************************)
LEMMA RetryStep ==
  ASSUME IInv, Retry
  PROVE  IInv'
<1> USE LauncherAssumption, PollerTypes
    DEF IInv, TypeOK, Together, OneCall, StopIsADisconnect, RetryIsPolled,
        LossIsSeen, Leaving
<1>1. CASE RetryStops
  BY <1>1 DEF RetryStops
<1>2. CASE RetryGivesUp
  BY <1>2 DEF RetryGivesUp
<1>3. CASE RetryConnects
  BY <1>3 DEF RetryConnects, Connecting, InTime, Selecting
<1>4. CASE RetrySucceeds
  BY <1>4 DEF RetrySucceeds, Established
<1>5. CASE RetryFails
  BY <1>5 DEF RetryFails
<1>6. CASE RetryReturned
  BY <1>6 DEF RetryReturned
<1>7. CASE RetryWon
  BY <1>7 DEF RetryWon, RetryingOver
<1>8. CASE RetryWaited
  BY <1>8 DEF RetryWaited
<1> QED
  BY <1>1, <1>2, <1>3, <1>4, <1>5, <1>6, <1>7, <1>8 DEF Retry

(***************************************************************************)
(* A send that fails, and the server.                                      *)
(***************************************************************************)
LEMMA OtherStep ==
  ASSUME IInv, SendFails \/ ServerDrops
  PROVE  IInv'
<1> USE LauncherAssumption, PollerTypes
    DEF IInv, TypeOK, Together, OneCall, StopIsADisconnect, RetryIsPolled,
        LossIsSeen, Leaving
<1>1. CASE SendFails
  BY <1>1 DEF SendFails, Hangup
<1>2. CASE ServerDrops
  BY <1>2 DEF ServerDrops
<1> QED
  BY <1>1, <1>2

(***************************************************************************)
(* Every step keeps the invariant.                                         *)
(***************************************************************************)
LEMMA StepIInv == IInv /\ [Next]_vars => IInv'
<1> SUFFICES ASSUME IInv, [Next]_vars
             PROVE  IInv'
  OBVIOUS
<1>1. ASSUME NEW t \in Calls,
             Connect(t) \/ DisconnectRefused(t) \/ Disconnect(t) \/ Goes(t)
      PROVE  IInv'
  BY <1>1, ConnectStep, DisconnectStep DEF Goes
<1>2. CASE SendFails \/ ServerDrops
  BY <1>2, OtherStep
<1>3. CASE Poll
  BY <1>3, PollStep
<1>4. CASE Retry
  BY <1>4, RetryStep
<1>5. CASE UNCHANGED vars
  BY <1>5 DEF vars, IInv, TypeOK, Together, OneCall, StopIsADisconnect,
     RetryIsPolled, LossIsSeen, Leaving
<1> QED
  BY <1>1, <1>2, <1>3, <1>4, <1>5 DEF Next

(***************************************************************************)
(* IInv holds in every state the client can be in.                         *)
(***************************************************************************)
THEOREM LauncherInvariant == Spec => []IInv
  BY InitIInv, StepIInv, PTL DEF Spec
-----------------------------------------------------------------------------
(***************************************************************************)
(* The fields of ClientManager, and where its threads are, stay in their   *)
(* types; the attempts at a reconnect stay within the time for it.         *)
(***************************************************************************)
THEOREM LauncherTypeCorrect == Spec => []TypeOK
<1>1. IInv => TypeOK
  BY DEF IInv
<1> QED
  BY <1>1, LauncherInvariant, PTL

(***************************************************************************)
(* Where pages do not let calls of connect and disconnect run together, a  *)
(* page that believes in its connection is watched over by the poll        *)
(* thread, which sees its loss: however many pages call, and however often *)
(* the server drops the connection.                                        *)
(***************************************************************************)
THEOREM BeliefTheorem == Spec => []BeliefIsWatched
<1>1. IInv => BeliefIsWatched
  BY DEF IInv, Together, StopIsADisconnect, LossIsSeen, BeliefIsWatched
<1> QED
  BY <1>1, LauncherInvariant, PTL
===============================================================================
