--------------------------------- MODULE Wire ---------------------------------
(***************************************************************************)
(* One direction of a connection: messages are written to a stream of      *)
(* bytes, each followed by a newline, and read from it in pieces of any    *)
(* size into a buffer, which is split at the newlines.                     *)
(*                                                                         *)
(*   "up"    client_send_json of client/lib/client.c, called by several    *)
(*           threads of the launcher, to handle_client_read of server.c    *)
(*   "down"  send_to_client of broadcast.c to client_process_messages of   *)
(*           client/lib/client.c, called by the polling thread             *)
(*                                                                         *)
(* Both sockets are non-blocking: a call of send() may take a part of the  *)
(* bytes.  A byte is its position in the stream, counted from one, and all *)
(* that is known of it is to which message it belongs and whether it is a  *)
(* newline.  Closing a connection is orderly: what was sent before arrives.*)
(***************************************************************************)
EXTENDS Integers, Sequences

CONSTANTS
  Threads,     \* the threads of the launcher that may send
  Sizes,       \* the bytes of a message, its newline included
  MaxMessage,  \* MAX_MESSAGE_SIZE: the server's buffers (16384)
  RecvBuffer,  \* RECV_BUFFER_SIZE of the client library (16384)
  MaxRetries,  \* how often client_send_json waits for the socket (100)
  MaxSent,     \* bound of the model: messages written
  ShortSends   \* whether send() may take less than it is given

ASSUME WireAssumption ==
  /\ Sizes \subseteq Nat \ {0, 1}
  /\ MaxMessage \in Nat \ {0, 1, 2}
  /\ RecvBuffer \in Nat \ {0, 1, 2}
  /\ MaxRetries \in Nat \ {0}
  /\ MaxSent \in Nat
  /\ ShortSends \in BOOLEAN

VARIABLES
  dir,       \* which direction this is
  sent,      \* the messages of which a byte was written, in this order
  written,   \* the number of bytes written
  newlines,  \* which of them are newlines
  calls,     \* what each thread has still to write
  closed,    \* the writer has closed the connection
  read,      \* the number of bytes that the reader has taken
  start,     \* how many of them are no longer in its buffer
  lines,     \* the lines handed on to process_message or the callback
  gone,      \* the reader has closed the connection
  edge,      \* epoll has something new to say of the connection
  reading    \* handle_client_read is in its loop

writer == <<sent, written, newlines, calls, closed>>
reader == <<read, start, lines, gone>>
vars == <<dir, writer, reader, edge, reading>>

Smaller(a, b) == IF a < b THEN a ELSE b
Last(seq) == seq[Len(seq)]
-----------------------------------------------------------------------------
(***************************************************************************)
(* The bytes that a call of send() takes of n, and a message: its first    *)
(* and last byte so far, whether another's bytes are among its own, and    *)
(* whether its first byte was the first of a line.                         *)
(***************************************************************************)
Taken(n) == IF ShortSends THEN 1..n ELSE {n}

Message == [size : Nat, first : Nat, last : Nat, done : BOOLEAN,
            torn : BOOLEAN, clean : BOOLEAN]

Room == (IF dir = "up" THEN MaxMessage ELSE RecvBuffer) - 1

\* send_to_client has room for MaxMessage - 1 bytes, and the newline is last.
Fitted(size) == IF dir = "down" THEN Smaller(size, MaxMessage - 1) ELSE size
Cut(m) == dir = "down" /\ m.size > MaxMessage - 1 /\ m.last - m.first + 1 = MaxMessage - 1

\* The next byte begins a line, or follows a message that fills the buffer.
AtLineStart ==
  \/ written = 0
  \/ written \in newlines
  \/ sent # << >> /\ Cut(Last(sent)) /\ Last(sent).clean /\ RecvBuffer = MaxMessage

Begun(size, k) ==
  [size |-> size, first |-> written + 1, last |-> written + k,
   done |-> k = size, torn |-> FALSE, clean |-> AtLineStart]

Continued(m, k, ends) ==
  [m EXCEPT !.last = written + k, !.done = ends, !.torn = @ \/ m.last # written]

\* k bytes go into the stream; the last is a newline if it ends a message.
Flow(k, ends) ==
  /\ written' = written + k
  /\ newlines' = IF ends THEN newlines \cup {written + k} ELSE newlines
  /\ edge' = (dir = "up")

Idle == [msg |-> 0, left |-> 0, tries |-> 0]

Open == ~closed /\ ~gone
-----------------------------------------------------------------------------
Init ==
  /\ dir \in {"up", "down"}
  /\ sent = << >>
  /\ written = 0
  /\ newlines = {}
  /\ calls = [t \in Threads |-> Idle]
  /\ closed = FALSE
  /\ read = 0
  /\ start = 0
  /\ lines = << >>
  /\ gone = FALSE
  /\ edge = FALSE
  /\ reading = FALSE

(***************************************************************************)
(* send_to_client: one call of send(); what it does not take is dropped.   *)
(* If it takes nothing there is no trace of the message at all.            *)
(***************************************************************************)
SendToClient(size) ==
  /\ dir = "down"
  /\ Open
  /\ Len(sent) < MaxSent
  /\ \E k \in Taken(Fitted(size)) :
       /\ sent' = Append(sent, Begun(size, k))
       /\ Flow(k, k = size)
  /\ UNCHANGED <<dir, calls, closed, reader, reading>>

(***************************************************************************)
(* client_send_json: its first call of send(), and the calls in the loop   *)
(* after it.  While send() takes nothing at all it is as if it had not     *)
(* been called yet.                                                        *)
(***************************************************************************)
ClientSendJson(t, size) ==
  /\ dir = "up"
  /\ Open
  /\ calls[t] = Idle
  /\ Len(sent) < MaxSent
  /\ \E k \in Taken(size) :
       /\ sent' = Append(sent, Begun(size, k))
       /\ Flow(k, k = size)
       /\ calls' = [calls EXCEPT ![t] =
                      IF k = size THEN Idle
                      ELSE [msg |-> Len(sent) + 1, left |-> size - k, tries |-> 0]]
  /\ UNCHANGED <<dir, closed, reader, reading>>

SendMore(t) ==
  /\ Open
  /\ calls[t] # Idle
  /\ \E k \in Taken(calls[t].left) :
       LET ends == k = calls[t].left IN
       /\ sent' = [sent EXCEPT ![calls[t].msg] = Continued(@, k, ends)]
       /\ Flow(k, ends)
       /\ calls' = [calls EXCEPT ![t] = IF ends THEN Idle ELSE [calls[t] EXCEPT !.left = @ - k]]
  /\ UNCHANGED <<dir, closed, reader, reading>>

\* EAGAIN: it sleeps, and gives up in the end, whatever it has written.
SendLater(t) ==
  /\ ShortSends
  /\ Open
  /\ calls[t] # Idle
  /\ calls' = [calls EXCEPT ![t] = IF @.tries + 1 = MaxRetries THEN Idle
                                   ELSE [calls[t] EXCEPT !.tries = @ + 1]]
  /\ UNCHANGED <<dir, sent, written, newlines, closed, reader, edge, reading>>

\* Any other error: the connection was closed.
SendFails(t) ==
  /\ ~Open
  /\ calls[t] # Idle
  /\ calls' = [calls EXCEPT ![t] = Idle]
  /\ UNCHANGED <<dir, sent, written, newlines, closed, reader, edge, reading>>

\* client_disconnect, by the writer's side.
Close ==
  /\ Open
  /\ closed' = TRUE
  /\ edge' = (dir = "up")
  /\ UNCHANGED <<dir, sent, written, newlines, calls, reader, reading>>
-----------------------------------------------------------------------------
Unread == written - read
Held == read - start
\* The newlines in the buffer; recv() is called when there is none left.
Ends == {p \in newlines : start < p /\ p <= read}
Split == Ends = {}

\* Mutant: what was read with a line, and behind it, is dropped.
AfterAll(p) == read
\* Where the next line starts.
After(p) == p

\* The loop over the lines of the buffer; empty ones are passed over.
TakeLine ==
  /\ \E p \in Ends :
       /\ \A q \in Ends : p <= q
       /\ start' = After(p)
       /\ lines' = IF p = start + 1 THEN lines
                   ELSE Append(lines, [first |-> start + 1, last |-> p])
  /\ UNCHANGED <<dir, writer, read, gone, edge, reading>>

(***************************************************************************)
(* handle_client_read: EPOLLET reports new bytes once, so the loop reads   *)
(* until EAGAIN, until the end, or until the buffer is full.               *)
(***************************************************************************)
Wake ==
  /\ dir = "up"
  /\ ~gone /\ edge /\ ~reading
  /\ edge' = FALSE
  /\ reading' = TRUE
  /\ UNCHANGED <<dir, writer, reader>>

\* Mutant: the byte for the end of the string is forgotten.
SpaceForAll == MaxMessage - Held
Space == MaxMessage - Held - 1

\* Mutant: one call of recv() for each event.
ReadOnce == FALSE
ReadOn == TRUE

InLoop == dir = "up" /\ ~gone /\ reading /\ Split

HandleClientRead ==
  /\ InLoop
  /\ Held < MaxMessage - 1
  /\ \E k \in 1..Smaller(Unread, Space) : read' = read + k
  /\ reading' = ReadOn
  /\ UNCHANGED <<dir, writer, start, lines, gone, edge>>

ReadNothing ==
  /\ InLoop
  /\ Held < MaxMessage - 1
  /\ Unread = 0
  /\ reading' = FALSE
  /\ gone' = closed
  /\ UNCHANGED <<dir, writer, read, start, lines, edge>>

ReadOverflow ==
  /\ InLoop
  /\ Held >= MaxMessage - 1
  /\ reading' = FALSE
  /\ gone' = TRUE
  /\ UNCHANGED <<dir, writer, read, start, lines, edge>>

(***************************************************************************)
(* client_process_messages: a full buffer without a newline is emptied,    *)
(* then recv() is called once.                                             *)
(***************************************************************************)
Full == Held >= RecvBuffer - 1
\* Mutant: the buffer is emptied down to the last byte.
KeptOne == IF Full THEN read - 1 ELSE start
Kept == IF Full THEN read ELSE start

Polling == dir = "down" /\ ~gone /\ Split

ProcessMessages ==
  /\ Polling
  /\ \E k \in 1..Smaller(Unread, RecvBuffer - 1 - (read - Kept)) : read' = read + k
  /\ start' = Kept
  /\ UNCHANGED <<dir, writer, lines, gone, edge, reading>>

ProcessNothing ==
  /\ Polling
  /\ Unread = 0
  /\ start' = Kept
  /\ gone' = closed
  /\ <<start', gone'>> # <<start, gone>>
  /\ UNCHANGED <<dir, writer, read, lines, edge, reading>>

\* client_disconnect, by another thread of the launcher.
PageLeaves ==
  /\ Polling
  /\ gone' = TRUE
  /\ UNCHANGED <<dir, writer, read, start, lines, edge, reading>>
-----------------------------------------------------------------------------
ServerReads == Wake \/ HandleClientRead \/ ReadNothing \/ ReadOverflow
PageReads == ProcessMessages \/ ProcessNothing

Next ==
  \/ \E size \in Sizes : SendToClient(size)
  \/ \E t \in Threads : \/ \E size \in Sizes : ClientSendJson(t, size)
                        \/ SendMore(t)
                        \/ SendLater(t)
                        \/ SendFails(t)
  \/ Close
  \/ ServerReads
  \/ PageReads
  \/ TakeLine
  \/ PageLeaves

Spec == Init /\ [][Next]_vars

(***************************************************************************)
(* The server comes back to epoll_wait, the launcher polls every 10 ms,    *)
(* and both split what they have read.                                     *)
(***************************************************************************)
Fairness == WF_vars(ServerReads) /\ WF_vars(PageReads) /\ WF_vars(TakeLine)

FairSpec == Spec /\ Fairness
-----------------------------------------------------------------------------
Call == [msg : Nat, left : Nat, tries : Nat]
Line == [first : Nat, last : Nat]

TypeOK ==
  /\ dir \in {"up", "down"}
  /\ sent \in Seq(Message)
  /\ written \in Nat
  /\ newlines \subseteq 1..written
  /\ calls \in [Threads -> Call]
  /\ closed \in BOOLEAN
  /\ read \in 0..written
  /\ start \in 0..read
  /\ Held <= Room
  /\ lines \in Seq(Line)
  /\ gone \in BOOLEAN
  /\ edge \in BOOLEAN
  /\ reading \in BOOLEAN

(***************************************************************************)
(* A message that was written in one piece at the start of a line, and     *)
(* that the reader's buffer holds; one that is spoiled already.            *)
(***************************************************************************)
Torn(m) == m.torn \/ (~m.done /\ m.last # written)
Intact(m) == m.done /\ ~m.torn /\ m.clean /\ m.size <= Room
Damaged(m) == Torn(m) \/ ~m.clean \/ m.size > Room

\* A message too long for the buffers, that fills them exactly.
CutClean(m) == Cut(m) /\ m.clean /\ RecvBuffer = MaxMessage

Carries(line, m) == line.first = m.first /\ line.last = m.last
Touches(line, m) == line.first <= m.last /\ m.first <= line.last

(***************************************************************************)
(* What is handed on is exactly one message, as it was sent, unless it has *)
(* to do with a message of which send() took only a part or that was mixed *)
(* with another: neither the pieces in which the bytes arrive, nor the     *)
(* emptying of a full buffer after a message that was too long for it,     *)
(* spoils the messages around.                                             *)
(***************************************************************************)
LinesAreMessages ==
  \A n \in DOMAIN lines :
    \E i \in DOMAIN sent :
      \/ Intact(sent[i]) /\ Carries(lines[n], sent[i])
      \/ Damaged(sent[i]) /\ ~CutClean(sent[i]) /\ Touches(lines[n], sent[i])

(***************************************************************************)
(* The stream keeps the promise of Channel.                                *)
(***************************************************************************)
Fate(m) == IF Damaged(m) THEN "damaged" ELSE IF m.done THEN "intact" ELSE "pending"

Delivered == {i \in DOMAIN sent : Intact(sent[i]) /\
                \E n \in DOMAIN lines : Carries(lines[n], sent[i])}

Fortunes == [i \in DOMAIN sent |-> Fate(sent[i])]

LastDelivered == IF Delivered = {} THEN 0
                 ELSE CHOOSE i \in Delivered : \A j \in Delivered : j <= i

Promise == INSTANCE Channel WITH fate <- Fortunes, got <- LastDelivered

KeepsPromise == Promise!Spec

(***************************************************************************)
(* A message that was written whole is handed on, unless the reader gave   *)
(* the connection up: although epoll reports bytes only once, and although *)
(* the connection may be closed behind it.                                 *)
(***************************************************************************)
EveryMessageArrives ==
  \A i \in 1..MaxSent :
    (i \in DOMAIN sent /\ Intact(sent[i])) ~> (i \in Delivered \/ gone)
===============================================================================
