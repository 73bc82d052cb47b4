------------------------------ MODULE WireProofs ------------------------------
(***************************************************************************)
(* Proofs about Wire, for every size of messages and buffers, any number   *)
(* of threads and any behaviour of send().                                 *)
(***************************************************************************)
EXTENDS Wire, TLAPS

(***************************************************************************)
(* A message that the reader will not, or not yet, have spoiled: it is     *)
(* written in one piece at the start of a line, and fits; or it was cut to *)
(* the size of the buffer.                                                 *)
(***************************************************************************)
Good(m) == m.clean /\ ((~Torn(m) /\ m.size <= Room) \/ CutClean(m))

\* Position p is the last before the start of a line.
EndsLine(p) ==
  \/ p = 0
  \/ p \in newlines
  \/ \E j \in DOMAIN sent : CutClean(sent[j]) /\ sent[j].last = p

Placed(m) ==
  /\ 1 <= m.first /\ m.first <= m.last /\ m.last <= written
  /\ ~Torn(m) /\ m.done => m.last - m.first + 1 = m.size
  /\ ~Torn(m) /\ ~m.done => m.last - m.first + 1 < m.size
  /\ Cut(m) => ~m.done
  /\ m.clean => EndsLine(m.first - 1)

\* The newlines and the start of the buffer are not inside a good message.
Unbroken(m) ==
  Good(m) =>
    /\ \A p \in newlines : p < m.first \/ p > m.last \/ (p = m.last /\ m.done)
    /\ start < m.first \/ (start >= m.last /\ (m.done \/ CutClean(m)))

MessagesAreInPlace ==
  \A i \in DOMAIN sent : Placed(sent[i]) /\ Unbroken(sent[i])

NewlinesEndMessages ==
  \A p \in newlines : \E i \in DOMAIN sent : sent[i].done /\ sent[i].last = p

CallInOrder(c) ==
  c # Idle =>
    /\ dir = "up"
    /\ c.msg \in DOMAIN sent
    /\ c.left >= 1
    /\ ~sent[c.msg].done
    /\ ~Torn(sent[c.msg]) =>
         c.left = sent[c.msg].size - (sent[c.msg].last - sent[c.msg].first + 1)

CallsAreInOrder ==
  /\ \A t \in Threads : CallInOrder(calls[t])
  /\ \A t, u \in Threads : t # u /\ calls[t] # Idle /\ calls[u] # Idle
                             => calls[t].msg # calls[u].msg

DownIsWhole == dir = "down" /\ sent # << >> => Last(sent).last = written

IInv ==
  /\ TypeOK
  /\ MessagesAreInPlace
  /\ NewlinesEndMessages
  /\ CallsAreInOrder
  /\ DownIsWhole
  /\ LinesAreMessages
-----------------------------------------------------------------------------
(***************************************************************************)
(* The fields of a message and the sizes of the buffers.                   *)
(***************************************************************************)
LEMMA Typed ==
  ASSUME TypeOK
  PROVE  /\ \A i \in DOMAIN sent : sent[i] \in Message
         /\ written \in Nat /\ read \in Nat /\ start \in Nat
         /\ start <= read /\ read <= written
         /\ newlines \subseteq 1..written
         /\ Room \in Nat /\ Room >= 2
         /\ MaxMessage \in Nat /\ RecvBuffer \in Nat
         /\ read - start <= Room
BY WireAssumption DEF TypeOK, Room, Held

(***************************************************************************)
(* A message that was cut fills the buffer of the client library.          *)
(***************************************************************************)
LEMMA CutFillsBuffer ==
  ASSUME TypeOK, NEW m \in Message, CutClean(m)
  PROVE  /\ dir = "down"
         /\ m.last - m.first + 1 = Room
BY WireAssumption DEF CutClean, Cut, Room, Message, TypeOK

(***************************************************************************)
(* When no newline is left in the buffer before position x + 1, at which a *)
(* line starts, the buffer starts no earlier: it has no room to.           *)
(***************************************************************************)
LEMMA StartIsPast ==
  ASSUME TypeOK, MessagesAreInPlace, NEW x \in Nat, EndsLine(x), x < read,
         \A q \in newlines : start < q /\ q <= read => q > x
  PROVE  start >= x
<1>1. CASE x = 0
  BY <1>1, Typed
<1>2. CASE x \in newlines
  BY <1>2, Typed
<1>3. CASE \E j \in DOMAIN sent : CutClean(sent[j]) /\ sent[j].last = x
  <2>1. PICK j \in DOMAIN sent : CutClean(sent[j]) /\ sent[j].last = x
    BY <1>3
  <2> DEFINE c == sent[j]
  <2>2. c \in Message /\ Placed(c) /\ Unbroken(c)
    BY <2>1, Typed DEF MessagesAreInPlace
  <2>3. c.last - c.first + 1 = Room /\ Good(c)
    BY <2>1, <2>2, CutFillsBuffer DEF Good, CutClean
  <2>4. start < c.first \/ start >= c.last
    BY <2>2, <2>3 DEF Unbroken
  <2>5. c.first \in Nat /\ c.last \in Nat /\ c.last = x
    BY <2>1, <2>2 DEF Message
  <2> HIDE DEF c
  <2>6. QED
    BY <2>3, <2>4, <2>5, Typed
<1>4. QED
  BY <1>1, <1>2, <1>3 DEF EndsLine

\* What LinesAreMessages asks of a line.
Evidence(line, m) ==
  \/ Intact(m) /\ Carries(line, m)
  \/ Damaged(m) /\ ~CutClean(m) /\ Touches(line, m)

(***************************************************************************)
(* Bytes are written, by whomever, and the messages so far are left alone: *)
(* they stay in place, and what is known of the lines stays true.          *)
(***************************************************************************)
LEMMA StaysInPlace ==
  ASSUME TypeOK, MessagesAreInPlace,
         NEW k \in Nat \ {0}, NEW ends \in BOOLEAN,
         dir' = dir, written' = written + k, start' = start,
         newlines' = IF ends THEN newlines \cup {written + k} ELSE newlines,
         \A j \in DOMAIN sent : CutClean(sent[j]) => j \in DOMAIN sent' /\ sent'[j] = sent[j],
         NEW i \in DOMAIN sent, i \in DOMAIN sent', sent'[i] = sent[i]
  PROVE  /\ Placed(sent[i])' /\ Unbroken(sent[i])'
         /\ \A line \in Line : Evidence(line, sent[i]) => Evidence(line, sent[i])'
<1> DEFINE m == sent[i]
<1>1. m \in Message /\ Placed(m) /\ Unbroken(m)
  BY Typed DEF MessagesAreInPlace
<1>2. m' = m
  OBVIOUS
<1>3. /\ m.first \in Nat /\ m.last \in Nat /\ m.size \in Nat /\ m.done \in BOOLEAN
      /\ m.torn \in BOOLEAN /\ m.clean \in BOOLEAN
  BY <1>1 DEF Message
<1>4. m.last <= written /\ written \in Nat /\ newlines \subseteq 1..written
  BY <1>1, Typed DEF Placed
<1>5. (Cut(m))' = Cut(m) /\ (CutClean(m))' = CutClean(m) /\ Room' = Room
  BY <1>2 DEF Cut, CutClean, Room
<1>6. Torn(m) => Torn(m)'
  BY <1>2, <1>3, <1>4 DEF Torn
<1>7. Torn(m)' /\ m.done => Torn(m)
  BY <1>2, <1>3 DEF Torn
<1>8. \A p : EndsLine(p) => EndsLine(p)'
  <2>1. ASSUME NEW j \in DOMAIN sent, CutClean(sent[j])
        PROVE  j \in DOMAIN sent' /\ sent'[j] = sent[j] /\ CutClean(sent[j])'
    BY <2>1 DEF CutClean, Cut
  <2>2. QED
    BY <2>1 DEF EndsLine
<1>9. Placed(m)'
  <2>1. 1 <= m.first /\ m.first <= m.last /\ m.last <= written + k
    BY <1>1, <1>3, <1>4 DEF Placed
  <2>2. ~Torn(m)' /\ m.done => m.last - m.first + 1 = m.size
    BY <1>1, <1>6 DEF Placed
  <2>3. ~Torn(m)' /\ ~m.done => m.last - m.first + 1 < m.size
    BY <1>1, <1>6 DEF Placed
  <2>4. Cut(m)' => ~m.done
    BY <1>1, <1>5 DEF Placed
  <2>5. m.clean => EndsLine(m.first - 1)'
    BY <1>1, <1>8 DEF Placed
  <2>6. QED
    BY <1>2, <2>1, <2>2, <2>3, <2>4, <2>5 DEF Placed
<1>10. Unbroken(m)'
  <2>1. Good(m)' => Good(m)
    BY <1>2, <1>5, <1>6 DEF Good
  <2>2. ASSUME Good(m), NEW p \in newlines'
        PROVE  p < m.first \/ p > m.last \/ (p = m.last /\ m.done)
    <3>1. CASE p \in newlines
      BY <1>1, <2>2, <3>1 DEF Unbroken
    <3>2. CASE p = written + k
      BY <1>3, <1>4, <3>2
    <3>3. QED
      BY <3>1, <3>2
  <2>3. Good(m) => start < m.first \/ (start >= m.last /\ (m.done \/ CutClean(m)))
    BY <1>1 DEF Unbroken
  <2>4. QED
    BY <1>2, <1>5, <2>1, <2>2, <2>3 DEF Unbroken
<1>11. ASSUME NEW line \in Line, Evidence(line, m)
       PROVE  Evidence(line, m)'
  <2>1. Intact(m) => Intact(m)'
    BY <1>2, <1>5 DEF Intact
  <2>2. Damaged(m) => Damaged(m)'
    BY <1>2, <1>5, <1>6 DEF Damaged
  <2>3. (Carries(line, m))' = Carries(line, m) /\ (Touches(line, m))' = Touches(line, m)
    BY <1>2 DEF Carries, Touches
  <2>4. QED
    BY <1>5, <1>11, <2>1, <2>2, <2>3 DEF Evidence
<1>12. QED
  BY <1>9, <1>10, <1>11

(***************************************************************************)
(* A message is begun, by send_to_client or by client_send_json.           *)
(***************************************************************************)
LEMMA BeginStep ==
  ASSUME IInv, NEW size \in Nat \ {0, 1}, NEW k \in 1..size,
         dir = "down" => k <= MaxMessage - 1,
         sent' = Append(sent, Begun(size, k)), Flow(k, k = size),
         UNCHANGED <<dir, reader>>
  PROVE  /\ sent' \in Seq(Message) /\ written' \in Nat /\ newlines' \subseteq 1..written'
         /\ read' \in 0..written' /\ start' \in 0..read' /\ Held' <= Room'
         /\ MessagesAreInPlace' /\ NewlinesEndMessages' /\ DownIsWhole'
         /\ LinesAreMessages'
<1> USE DEF IInv
<1>p. PICK m, n, w : m = Begun(size, k) /\ n = Len(sent) /\ w = written
  OBVIOUS
<1>1. /\ w = written /\ n = Len(sent) /\ n \in Nat /\ DOMAIN sent = 1..n /\ sent \in Seq(Message)
      /\ written \in Nat /\ read \in Nat /\ start \in Nat /\ start <= read /\ read <= written
      /\ newlines \subseteq 1..written
  BY <1>p, Typed DEF TypeOK
<1>2. m \in Message
  BY <1>p, <1>1 DEF Begun, Message, AtLineStart
<1>3. /\ sent' \in Seq(Message) /\ DOMAIN sent' = 1..(n + 1) /\ Len(sent') = n + 1
      /\ sent'[n + 1] = m /\ \A j \in 1..n : sent'[j] = sent[j]
  BY <1>p, <1>1, <1>2
<1>4. /\ written' = written + k
      /\ newlines' = IF k = size THEN newlines \cup {written + k} ELSE newlines
  BY DEF Flow
<1>5. dir' = dir /\ read' = read /\ start' = start /\ lines' = lines /\ Room' = Room
  BY DEF reader, Room
<1>6. newlines' \subseteq 1..written' /\ written' \in Nat
  BY <1>1, <1>4
<1>7. read' \in 0..written' /\ start' \in 0..read' /\ Held' <= Room'
  BY <1>1, <1>4, <1>5, Typed DEF Held
<1>8. ASSUME NEW i \in 1..n
      PROVE  /\ Placed(sent[i])' /\ Unbroken(sent[i])'
             /\ \A line \in Line : Evidence(line, sent[i]) => Evidence(line, sent[i])'
  <2>1. k \in Nat \ {0} /\ (k = size) \in BOOLEAN
    OBVIOUS
  <2>2. i \in DOMAIN sent /\ i \in DOMAIN sent' /\ sent'[i] = sent[i]
    BY <1>1, <1>3, <1>8
  <2>3. \A j \in DOMAIN sent : CutClean(sent[j]) => j \in DOMAIN sent' /\ sent'[j] = sent[j]
    BY <1>1, <1>3
  <2>4. TypeOK /\ MessagesAreInPlace
    OBVIOUS
  <2>5. QED
    BY <1>4, <1>5, <2>1, <2>2, <2>3, <2>4, StaysInPlace
<1>9. /\ m.size = size /\ m.first = written + 1 /\ m.last = written + k
      /\ (m.done <=> k = size) /\ m.torn = FALSE /\ (m.clean <=> AtLineStart)
  BY <1>p DEF Begun
<1>k. k \in Nat /\ size \in Nat /\ 1 <= k /\ k <= size
  OBVIOUS
<1>10. AtLineStart => EndsLine(w)'
  <2>1. CASE written = 0 \/ written \in newlines
    BY <1>1, <1>4, <2>1 DEF EndsLine
  <2>2. CASE /\ sent # << >> /\ Cut(Last(sent)) /\ Last(sent).clean /\ RecvBuffer = MaxMessage
    <3>1. n \in 1..n /\ Last(sent) = sent[n]
      BY <1>1, <2>2 DEF Last
    <3>2. CutClean(sent[n]) /\ dir = "down"
      BY <2>2, <3>1 DEF CutClean, Cut
    <3>3. sent[n].last = written
      BY <2>2, <3>1, <3>2 DEF DownIsWhole
    <3>4. sent'[n] = sent[n] /\ n \in DOMAIN sent'
      BY <1>1, <1>3, <3>1
    <3>5. CutClean(sent[n])'
      BY <1>5, <3>2, <3>4 DEF CutClean, Cut
    <3>6. QED
      BY <1>1, <3>3, <3>4, <3>5 DEF EndsLine
  <2>3. QED
    BY <2>1, <2>2 DEF AtLineStart
<1>11. Placed(sent[n + 1])'
  <2>1. sent'[n + 1] = m
    BY <1>3
  <2>2. 1 <= m.first /\ m.first <= m.last /\ m.last <= written'
    BY <1>1, <1>4, <1>9, <1>k
  <2>3. m.done => m.last - m.first + 1 = m.size
    BY <1>1, <1>9, <1>k
  <2>4. ~m.done => m.last - m.first + 1 < m.size
    BY <1>1, <1>9, <1>k
  <2>5. Cut(m) => ~m.done
    BY <1>1, <1>9, <1>k, WireAssumption DEF Cut
  <2>6. m.clean => EndsLine(m.first - 1)'
    BY <1>1, <1>9, <1>10
  <2>7. QED
    BY <1>5, <2>1, <2>2, <2>3, <2>4, <2>5, <2>6 DEF Placed, Cut
<1>12. Unbroken(sent[n + 1])'
  <2>1. ASSUME NEW p \in newlines'
        PROVE  p < m.first \/ p > m.last \/ (p = m.last /\ m.done)
    BY <1>1, <1>4, <1>9, <1>k
  <2>2. start' < m.first
    BY <1>1, <1>5, <1>9
  <2>3. QED
    BY <1>3, <2>1, <2>2 DEF Unbroken
<1>13. MessagesAreInPlace'
  BY <1>1, <1>3, <1>8, <1>11, <1>12 DEF MessagesAreInPlace
<1>14. NewlinesEndMessages'
  <2>1. ASSUME NEW p \in newlines'
        PROVE  \E i \in DOMAIN sent' : sent'[i].done /\ sent'[i].last = p
    <3>1. CASE p \in newlines
      <4>1. PICK i \in DOMAIN sent : sent[i].done /\ sent[i].last = p
        BY <3>1 DEF NewlinesEndMessages
      <4>2. i \in DOMAIN sent' /\ sent'[i] = sent[i]
        BY <1>1, <1>3, <4>1
      <4>3. QED
        BY <4>1, <4>2
    <3>2. CASE p = written + k /\ k = size
      <4>1. n + 1 \in DOMAIN sent' /\ sent'[n + 1] = m /\ m.done /\ m.last = p
        BY <1>1, <1>3, <1>9, <3>2
      <4>2. QED
        BY <4>1
    <3>3. QED
      BY <1>4, <3>1, <3>2
  <2>2. QED
    BY <2>1 DEF NewlinesEndMessages
<1>15. DownIsWhole'
  BY <1>1, <1>3, <1>4, <1>9 DEF DownIsWhole, Last
<1>16. LinesAreMessages'
  <2>1. ASSUME NEW l \in DOMAIN lines
        PROVE  \E i \in DOMAIN sent' : Evidence(lines[l], sent[i])'
    <3>1. PICK i \in DOMAIN sent : Evidence(lines[l], sent[i])
      BY <2>1 DEF LinesAreMessages, Evidence
    <3>2. lines[l] \in Line
      BY <2>1 DEF TypeOK
    <3>3. i \in 1..n /\ i \in DOMAIN sent'
      BY <1>1, <1>3, <3>1
    <3>4. Evidence(lines[l], sent[i])'
      BY <1>5, <1>8, <3>1, <3>2, <3>3 DEF Evidence, Carries, Touches
    <3>5. QED
      BY <3>3, <3>4
  <2>2. QED
    BY <1>5, <2>1 DEF LinesAreMessages, Evidence
<1>17. QED
  BY <1>3, <1>6, <1>7, <1>13, <1>14, <1>15, <1>16

(***************************************************************************)
(* A message is continued by client_send_json.  If another was begun in    *)
(* between it is torn from now on; else it is as good as it was.           *)
(***************************************************************************)
LEMMA ContinueStep ==
  ASSUME IInv, NEW t \in Threads, calls[t] # Idle, NEW k \in 1..calls[t].left,
         sent' = [sent EXCEPT ![calls[t].msg] = Continued(@, k, k = calls[t].left)],
         Flow(k, k = calls[t].left),
         UNCHANGED <<dir, reader>>
  PROVE  /\ sent' \in Seq(Message) /\ written' \in Nat /\ newlines' \subseteq 1..written'
         /\ read' \in 0..written' /\ start' \in 0..read' /\ Held' <= Room'
         /\ MessagesAreInPlace' /\ NewlinesEndMessages' /\ DownIsWhole'
         /\ LinesAreMessages'
<1> USE DEF IInv
<1>p. PICK i, n, w, left, old, m :
        /\ i = calls[t].msg /\ n = Len(sent) /\ w = written /\ left = calls[t].left
        /\ old = sent[i] /\ m = Continued(old, k, k = left)
  OBVIOUS
<1>1. /\ w = written /\ n = Len(sent) /\ n \in Nat /\ DOMAIN sent = 1..n /\ sent \in Seq(Message)
      /\ written \in Nat /\ read \in Nat /\ start \in Nat /\ start <= read /\ read <= written
      /\ newlines \subseteq 1..written
  BY <1>p, Typed DEF TypeOK
<1>2. /\ dir = "up" /\ i \in 1..n /\ ~old.done
      /\ ~Torn(old) => left = old.size - (old.last - old.first + 1)
  BY <1>p, <1>1 DEF CallsAreInOrder, CallInOrder
<1>3. left \in Nat /\ k \in Nat /\ 1 <= k /\ k <= left
  BY <1>p DEF TypeOK, Call
<1>4. old \in Message /\ Placed(old) /\ Unbroken(old) /\ old = sent[i]
  BY <1>p, <1>1, <1>2, Typed DEF MessagesAreInPlace
<1>5. /\ old.first \in Nat /\ old.last \in Nat /\ old.size \in Nat /\ old.torn \in BOOLEAN
      /\ old.clean \in BOOLEAN /\ old.done \in BOOLEAN /\ old.last <= written
      /\ 1 <= old.first /\ old.first <= old.last
  BY <1>4 DEF Message, Placed
<1>6. m \in Message
  <2>1. PICK l, d, r : l = w + k /\ d = (k = left) /\ r = (old.torn \/ old.last # w)
    OBVIOUS
  <2>2. m = [old EXCEPT !.last = l, !.done = d, !.torn = r]
    BY <1>p, <2>1 DEF Continued
  <2>3. l \in Nat /\ d \in BOOLEAN /\ r \in BOOLEAN
    BY <1>1, <1>3, <1>5, <2>1
  <2> HIDE DEF IInv
  <2>4. QED
    BY <1>4, <2>2, <2>3 DEF Message
<1>7. /\ m.size = old.size /\ m.first = old.first /\ m.last = w + k
      /\ (m.done <=> k = left) /\ (m.torn <=> old.torn \/ old.last # w)
      /\ (m.clean <=> old.clean)
  <2> HIDE DEF IInv
  <2>1. QED
    BY <1>p, <1>4, <1>6 DEF Continued, Message
<1>8. /\ sent' \in Seq(Message) /\ DOMAIN sent' = 1..n
      /\ sent'[i] = m /\ \A j \in 1..n : j # i => sent'[j] = sent[j]
  <2>1. sent' = [sent EXCEPT ![i] = m]
    BY <1>p
  <2>2. DOMAIN sent' = 1..n /\ sent'[i] = m /\ \A j \in 1..n : j # i => sent'[j] = sent[j]
    BY <1>1, <1>2, <2>1
  <2>3. \A j \in 1..n : sent'[j] \in Message
    BY <1>1, <1>6, <2>2
  <2>4. sent' \in [1..n -> Message]
    BY <1>1, <1>2, <1>6, <2>1, <2>3
  <2>5. sent' \in Seq(Message)
    BY <1>1, <2>4
  <2>6. QED
    BY <2>2, <2>5
<1>9. /\ written' = w + k
      /\ newlines' = IF k = left THEN newlines \cup {w + k} ELSE newlines
  BY <1>p DEF Flow
<1>10. dir' = dir /\ read' = read /\ start' = start /\ lines' = lines /\ Room' = Room
  BY DEF reader, Room
<1>11. newlines' \subseteq 1..written' /\ written' \in Nat
  <2>1. w + k \in Nat /\ w + k \in 1..(w + k) /\ \A p \in 1..w : p \in 1..(w + k)
    BY <1>1, <1>3
  <2>2. QED
    BY <1>1, <1>9, <2>1
<1>12. read' \in 0..written' /\ start' \in 0..read' /\ Held' <= Room'
  <2>1. w + k \in Nat /\ read <= w + k
    BY <1>1, <1>3
  <2>2. TypeOK
    OBVIOUS
  <2>3. read - start <= Room
    BY <2>2, Typed
  <2> HIDE DEF IInv
  <2>4. QED
    BY <1>1, <1>9, <1>10, <2>1, <2>3 DEF Held
<1>13. \A j \in DOMAIN sent : ~CutClean(sent[j])
  BY <1>2 DEF CutClean, Cut
<1>14. ASSUME NEW j \in 1..n, j # i
       PROVE  /\ Placed(sent[j])' /\ Unbroken(sent[j])'
              /\ \A line \in Line : Evidence(line, sent[j]) => Evidence(line, sent[j])'
  <2>1. k \in Nat \ {0} /\ (k = left) \in BOOLEAN
    BY <1>3
  <2>2. j \in DOMAIN sent /\ j \in DOMAIN sent' /\ sent'[j] = sent[j]
    BY <1>1, <1>8, <1>14
  <2>3. TypeOK /\ MessagesAreInPlace
    OBVIOUS
  <2>4. /\ written' = written + k
        /\ newlines' = IF k = left THEN newlines \cup {written + k} ELSE newlines
    BY <1>1, <1>9
  <2>5. QED
    BY <1>10, <1>13, <2>1, <2>2, <2>3, <2>4, StaysInPlace
<1>15. ~m.torn => ~Torn(old) /\ old.last = w
  BY <1>1, <1>2, <1>5, <1>7 DEF Torn
<1>16. Torn(m)' <=> m.torn
  <2>1. sent'[i].torn = m.torn /\ sent'[i].last = w + k
    BY <1>7, <1>8
  <2>2. QED
    BY <1>7, <1>9 DEF Torn
<1>17. Placed(sent[i])'
  <2>1. 1 <= m.first /\ m.first <= m.last /\ m.last <= w + k
    BY <1>1, <1>3, <1>5, <1>7
  <2>2. ~m.torn /\ m.done => m.last - m.first + 1 = m.size
    <3>1. ASSUME ~m.torn, k = left
          PROVE  (w + k) - old.first + 1 = old.size
      <4>1. left = old.size - (w - old.first + 1)
        BY <1>2, <1>15, <3>1
      <4>2. \A a, b, c, d \in Int : d = b - (a - c + 1) => (a + d) - c + 1 = b
        OBVIOUS
      <4>3. w \in Int /\ old.size \in Int /\ old.first \in Int /\ left \in Int
        BY <1>1, <1>3, <1>5
      <4>4. QED
        BY <3>1, <4>1, <4>2, <4>3
    <3>2. QED
      BY <1>7, <3>1
  <2>3. ~m.torn /\ ~m.done => m.last - m.first + 1 < m.size
    BY <1>1, <1>2, <1>3, <1>5, <1>7, <1>15, SMTT(30)
  <2>4. m.clean => EndsLine(m.first - 1)'
    <3>1. old.clean => old.first - 1 = 0 \/ old.first - 1 \in newlines
      BY <1>4, <1>13 DEF Placed, EndsLine
    <3>2. m.clean => m.first - 1 = 0 \/ m.first - 1 \in newlines'
      BY <1>7, <1>9, <3>1
    <3>3. QED
      BY <3>2 DEF EndsLine
  <2>5. ~Cut(m)'
    BY <1>2, <1>10 DEF Cut
  <2>6. QED
    BY <1>8, <1>9, <1>16, <2>1, <2>2, <2>3, <2>4, <2>5 DEF Placed
<1>18. Unbroken(sent[i])'
  <2>1. Good(m)' => m.clean /\ ~m.torn /\ m.size <= Room
    BY <1>2, <1>10, <1>16 DEF Good, CutClean, Cut
  <2>2. ASSUME m.clean, ~m.torn, m.size <= Room
        PROVE  Good(old)
    BY <1>7, <1>15, <2>2 DEF Good
  <2>3. ASSUME Good(old), NEW p \in newlines', ~m.torn
        PROVE  p < m.first \/ p > m.last \/ (p = m.last /\ m.done)
    <3>1. CASE p \in newlines
      <4>1. p < old.first \/ p > old.last
        BY <1>2, <1>4, <2>3, <3>1 DEF Unbroken
      <4>2. p <= w /\ old.last = w /\ p \in Nat
        BY <1>1, <1>15, <2>3, <3>1
      <4>3. QED
        BY <1>1, <1>5, <1>7, <4>1, <4>2
    <3>2. CASE p = w + k /\ k = left
      BY <1>7, <3>2
    <3>3. QED
      BY <1>9, <3>1, <3>2
  <2>4. Good(old) => start < old.first
    BY <1>2, <1>4, <1>13, <1>1 DEF Unbroken
  <2>5. QED
    BY <1>7, <1>8, <1>10, <2>1, <2>2, <2>3, <2>4 DEF Unbroken
<1>19. MessagesAreInPlace'
  <2>1. \A j \in 1..n : Placed(sent[j])' /\ Unbroken(sent[j])'
    BY <1>14, <1>17, <1>18
  <2>2. QED
    BY <1>8, <2>1 DEF MessagesAreInPlace
<1>20. NewlinesEndMessages'
  <2>1. ASSUME NEW p \in newlines'
        PROVE  \E j \in DOMAIN sent' : sent'[j].done /\ sent'[j].last = p
    <3>1. CASE p \in newlines
      <4>1. PICK j \in DOMAIN sent : sent[j].done /\ sent[j].last = p
        BY <3>1 DEF NewlinesEndMessages
      <4>2. j # i
        BY <1>2, <1>4, <4>1
      <4>3. j \in DOMAIN sent' /\ sent'[j] = sent[j]
        BY <1>1, <1>8, <4>1, <4>2
      <4>4. QED
        BY <4>1, <4>3
    <3>2. CASE p = w + k /\ k = left
      BY <1>2, <1>7, <1>8, <3>2
    <3>3. QED
      BY <1>9, <3>1, <3>2
  <2>2. QED
    BY <2>1 DEF NewlinesEndMessages
<1>21. DownIsWhole'
  BY <1>2, <1>10 DEF DownIsWhole
<1>22. ASSUME NEW line \in Line, Evidence(line, old)
       PROVE  Evidence(line, sent[i])'
  <2>1. Damaged(old) /\ Touches(line, old)
    BY <1>2, <1>22 DEF Evidence, Intact
  <2>2. Torn(old) => m.torn
    BY <1>15
  <2>3. Damaged(m)'
    BY <1>7, <1>10, <1>16, <2>1, <2>2 DEF Damaged
  <2>4. Touches(line, m)
    BY <1>1, <1>3, <1>5, <1>7, <2>1 DEF Touches, Line
  <2>5. ~CutClean(m)'
    BY <1>2, <1>10 DEF CutClean, Cut
  <2>6. Damaged(sent[i])' /\ Touches(line, sent[i])' /\ ~CutClean(sent[i])'
    BY <1>8, <2>3, <2>4, <2>5 DEF Damaged, Touches, CutClean, Torn, Cut
  <2>7. QED
    BY <2>6 DEF Evidence
<1>23. LinesAreMessages'
  <2>1. ASSUME NEW l \in DOMAIN lines
        PROVE  \E j \in DOMAIN sent' : Evidence(lines[l], sent[j])'
    <3>1. PICK j \in DOMAIN sent : Evidence(lines[l], sent[j])
      BY <2>1 DEF LinesAreMessages, Evidence
    <3>2. lines[l] \in Line
      BY <2>1 DEF TypeOK
    <3>3. j \in 1..n /\ j \in DOMAIN sent'
      BY <1>1, <1>8, <3>1
    <3>4. CASE j = i
      <4>1. Evidence(lines[l], old)
        BY <1>4, <3>1, <3>4
      <4>2. PICK line \in Line : line = lines[l]
        BY <3>2
      <4>3. Evidence(line, sent[i])'
        BY <1>22, <4>1, <4>2
      <4>4. QED
        BY <1>10, <3>3, <3>4, <4>2, <4>3
    <3>5. CASE j # i
      <4>1. PICK line \in Line : line = lines[l]
        BY <3>2
      <4>2. Evidence(line, sent[j])'
        BY <1>14, <3>1, <3>3, <3>5, <4>1
      <4>3. QED
        BY <1>10, <3>3, <4>1, <4>2
    <3>6. QED
      BY <3>4, <3>5
  <2>2. QED
    BY <1>10, <2>1 DEF LinesAreMessages, Evidence
<1>24. QED
  BY <1>8, <1>11, <1>12, <1>19, <1>20, <1>21, <1>23

(***************************************************************************)
(* What the reader does to its buffer leaves the messages in place if the  *)
(* buffer does not come to start inside a good one.                        *)
(***************************************************************************)
LEMMA ReaderKeepsPlace ==
  ASSUME MessagesAreInPlace, NewlinesEndMessages, DownIsWhole, CallsAreInOrder,
         UNCHANGED <<dir, sent, written, newlines, calls>>,
         \A i \in DOMAIN sent : Good(sent[i]) =>
           \/ start' < sent[i].first
           \/ start' >= sent[i].last /\ (sent[i].done \/ CutClean(sent[i]))
  PROVE  MessagesAreInPlace' /\ NewlinesEndMessages' /\ DownIsWhole' /\ CallsAreInOrder'
<1>1. \A i \in DOMAIN sent : Placed(sent[i])'
  BY DEF MessagesAreInPlace, Placed, Torn, Cut, EndsLine, CutClean
<1>2. \A i \in DOMAIN sent :
        (Good(sent[i])' <=> Good(sent[i])) /\ (CutClean(sent[i])' <=> CutClean(sent[i]))
  BY DEF Good, Torn, CutClean, Cut, Room
<1>3. \A i \in DOMAIN sent : Unbroken(sent[i])'
  BY <1>2 DEF MessagesAreInPlace, Unbroken
<1>4. MessagesAreInPlace'
  BY <1>1, <1>3 DEF MessagesAreInPlace
<1>5. NewlinesEndMessages' /\ DownIsWhole'
  BY DEF NewlinesEndMessages, DownIsWhole, Last
<1>6. CallsAreInOrder'
  BY DEF CallsAreInOrder, CallInOrder, Torn
<1>7. QED
  BY <1>4, <1>5, <1>6

(***************************************************************************)
(* While nothing is written or handed on, what is known of lines holds.    *)
(***************************************************************************)
LEMMA LinesKeep ==
  ASSUME LinesAreMessages, UNCHANGED <<dir, sent, written, lines>>
  PROVE  LinesAreMessages'
BY DEF LinesAreMessages, Intact, Damaged, Torn, CutClean, Cut, Carries, Touches, Room

(***************************************************************************)
(* The heart of the argument: if the newline that ends the next line also  *)
(* ends an intact message, the line is that message.  The buffer cannot    *)
(* start later, since it does not start inside a message, and not earlier, *)
(* since then it would hold the end of the message before.                 *)
(***************************************************************************)
LEMMA LineIsMessage ==
  ASSUME TypeOK, MessagesAreInPlace, NEW p \in Ends, \A q \in Ends : p <= q,
         NEW i \in DOMAIN sent, sent[i].last = p, Intact(sent[i])
  PROVE  sent[i].first = start + 1
<1> DEFINE m == sent[i]
<1>1. m \in Message /\ Placed(m) /\ Unbroken(m)
  BY Typed DEF MessagesAreInPlace
<1>2. /\ m.first \in Nat /\ m.last \in Nat /\ 1 <= m.first /\ m.first <= m.last
      /\ m.last = p /\ m.clean /\ m.done /\ ~m.torn /\ m.size <= Room
  BY <1>1 DEF Message, Placed, Intact
<1>3. start < p /\ p <= read /\ p \in newlines
  BY DEF Ends
<1>4. Good(m)
  BY <1>2 DEF Good, Torn
<1>5. start < m.first
  BY <1>1, <1>2, <1>3, <1>4, Typed DEF Unbroken
<1>6. PICK x \in Nat : x = m.first - 1
  BY <1>2
<1>7. EndsLine(x)
  BY <1>1, <1>2, <1>6 DEF Placed
<1>8. \A q \in newlines : start < q /\ q <= read => q > x
  BY <1>2, <1>6, Typed DEF Ends
<1>9. x < read
  BY <1>2, <1>3, <1>6, Typed
<1>10. start >= x
  BY <1>7, <1>8, <1>9, StartIsPast
<1>11. QED
  BY <1>2, <1>5, <1>6, <1>10, Typed

(***************************************************************************)
(* A line is taken: it is one message, or damaged.                         *)
(***************************************************************************)
LEMMA TakeLineStep ==
  ASSUME IInv, TakeLine
  PROVE  IInv'
<1> USE DEF IInv
<1>1. PICK p \in Ends : /\ \A q \in Ends : p <= q
                        /\ start' = After(p)
                        /\ lines' = IF p = start + 1 THEN lines
                                    ELSE Append(lines, [first |-> start + 1, last |-> p])
  BY DEF TakeLine
<1>2. UNCHANGED <<dir, sent, written, newlines, calls, closed, read, gone, edge, reading>>
  BY DEF TakeLine, writer
<1>3. start' = p /\ start < p /\ p <= read /\ p \in newlines
  BY <1>1 DEF Ends, After
<1>4. p \in Nat /\ p <= written /\ start \in Nat /\ read \in Nat /\ written \in Nat
      /\ read <= written
  BY <1>3, Typed
<1>5. ASSUME NEW i \in DOMAIN sent, Good(sent[i])
      PROVE  \/ start' < sent[i].first
             \/ start' >= sent[i].last /\ (sent[i].done \/ CutClean(sent[i]))
  <2> DEFINE m == sent[i]
  <2>1. m \in Message /\ Unbroken(m) /\ Placed(m)
    BY Typed DEF MessagesAreInPlace
  <2>2. p < m.first \/ p > m.last \/ (p = m.last /\ m.done)
    BY <1>3, <1>5, <2>1 DEF Unbroken
  <2>3. p > m.last => m.done \/ CutClean(m)
    BY <1>4, <1>5, <2>1 DEF Good, Torn, Message
  <2>4. m.first \in Nat /\ m.last \in Nat
    BY <2>1 DEF Message
  <2> HIDE DEF m
  <2>5. start' < m.first \/ (start' >= m.last /\ (m.done \/ CutClean(m)))
    BY <1>3, <1>4, <2>2, <2>3, <2>4
  <2>6. QED
    BY <2>5 DEF m
<1>6. MessagesAreInPlace' /\ NewlinesEndMessages' /\ DownIsWhole' /\ CallsAreInOrder'
  BY <1>2, <1>5, ReaderKeepsPlace
<1>7. [first |-> start + 1, last |-> p] \in Line
  BY <1>4 DEF Line
<1>8. TypeOK'
  <2>1. lines' \in Seq(Line)
    BY <1>1, <1>7 DEF TypeOK
  <2>2. start' \in 0..read' /\ Held' <= Room'
    BY <1>2, <1>3, <1>4, Typed DEF Held, Room
  <2>3. QED
    BY <1>2, <2>1, <2>2 DEF TypeOK
<1>9. LinesAreMessages'
  <2>1. CASE p = start + 1
    BY <1>1, <1>2, <2>1, LinesKeep
  <2>2. CASE p # start + 1
    <3>1. PICK line, n : line = [first |-> start + 1, last |-> p] /\ n = Len(lines)
      OBVIOUS
    <3>2. /\ n \in Nat /\ DOMAIN lines = 1..n /\ DOMAIN lines' = 1..(n + 1)
          /\ lines'[n + 1] = line /\ \A l \in 1..n : lines'[l] = lines[l]
      BY <1>1, <1>7, <2>2, <3>1 DEF TypeOK
    <3>3. PICK i \in DOMAIN sent : sent[i].done /\ sent[i].last = p
      BY <1>3 DEF NewlinesEndMessages
    <3>4. sent[i] \in Message /\ Placed(sent[i])
      BY <3>3, Typed DEF MessagesAreInPlace
    <3>5. Evidence(line, sent[i])
      <4>1. CASE Intact(sent[i])
        BY <1>1, <3>1, <3>3, <4>1, LineIsMessage DEF Evidence, Carries
      <4>2. CASE ~Intact(sent[i])
        <5>1. Damaged(sent[i])
          BY <3>3, <3>4, <4>2, Typed DEF Intact, Damaged, Torn, Message
        <5>2. ~CutClean(sent[i])
          BY <3>3, <3>4 DEF CutClean, Placed
        <5>3. Touches(line, sent[i])
          BY <1>3, <1>4, <3>1, <3>3, <3>4 DEF Touches, Placed, Message
        <5>4. QED
          BY <5>1, <5>2, <5>3 DEF Evidence
      <4>3. QED
        BY <4>1, <4>2
    <3>6. \A l \in 1..(n + 1) : \E j \in DOMAIN sent : Evidence(lines'[l], sent[j])
      <4>1. ASSUME NEW l \in 1..n
            PROVE  \E j \in DOMAIN sent : Evidence(lines'[l], sent[j])
        BY <3>2, <4>1 DEF LinesAreMessages, Evidence
      <4>2. QED
        BY <3>2, <3>5, <4>1
    <3>7. QED
      BY <1>2, <3>2, <3>6 DEF LinesAreMessages, Evidence, Intact, Damaged, Torn,
                              CutClean, Cut, Carries, Touches, Room
  <2>3. QED
    BY <2>1, <2>2
<1>10. QED
  BY <1>6, <1>8, <1>9

(***************************************************************************)
(* A full buffer without a newline does not end inside a good message.     *)
(***************************************************************************)
LEMMA FullIsOutside ==
  ASSUME TypeOK, MessagesAreInPlace, Split, dir = "down", Full,
         NEW i \in DOMAIN sent, Good(sent[i])
  PROVE  \/ read < sent[i].first
         \/ read >= sent[i].last /\ (sent[i].done \/ CutClean(sent[i]))
<1> PICK m : m = sent[i]
  OBVIOUS
<1>1. m \in Message /\ Placed(m) /\ Good(m)
  BY Typed DEF MessagesAreInPlace
<1>2. m.first \in Nat /\ m.last \in Nat /\ m.size \in Nat /\ 1 <= m.first /\ m.first <= m.last
  BY <1>1 DEF Message, Placed
<1>3. read - start >= Room
  BY Typed DEF Full, Held, Room
<1>4. ASSUME read >= m.first, ~(read >= m.last /\ (m.done \/ CutClean(m)))
      PROVE  FALSE
  <2>1. PICK x \in Nat : x = m.first - 1
    BY <1>2
  <2>2. EndsLine(x)
    BY <1>1, <2>1 DEF Placed, Good
  <2>3. \A q \in newlines : ~(start < q /\ q <= read)
    BY DEF Split, Ends
  <2>4. start >= x
    BY <1>2, <1>4, <2>1, <2>2, <2>3, StartIsPast, Typed
  <2>5. read - m.first + 1 >= Room
    BY <1>2, <1>3, <2>1, <2>4, Typed
  <2>6. CASE CutClean(m)
    <3>1. m.last - m.first + 1 = Room
      BY <1>1, <2>6, CutFillsBuffer
    <3>2. QED
      BY <1>2, <1>4, <2>5, <2>6, <3>1, Typed
  <2>7. CASE ~CutClean(m) /\ m.done
    <3>1. m.last - m.first + 1 = m.size /\ m.size <= Room
      BY <1>1, <2>7 DEF Good, Placed
    <3>2. QED
      BY <1>2, <1>4, <2>5, <2>7, <3>1, Typed
  <2>8. CASE ~CutClean(m) /\ ~m.done
    <3>1. m.last - m.first + 1 < m.size /\ m.size <= Room /\ m.last = written
      BY <1>1, <2>8 DEF Good, Placed, Torn
    <3>2. QED
      BY <1>2, <2>5, <3>1, Typed
  <2>9. QED
    BY <2>6, <2>7, <2>8
<1>5. QED
  BY <1>2, <1>4, Typed

(***************************************************************************)
(* The steps of the writer.  What send_to_client writes, no thread is      *)
(* still writing.                                                          *)
(***************************************************************************)
LEMMA SendToClientStep ==
  ASSUME IInv, NEW size \in Sizes, SendToClient(size)
  PROVE  IInv'
<1> USE DEF IInv
<1>1. dir = "down" /\ UNCHANGED <<dir, calls, closed, reader, reading>>
  BY DEF SendToClient
<1>2. PICK k \in Taken(Fitted(size)) :
        sent' = Append(sent, Begun(size, k)) /\ Flow(k, k = size)
  BY DEF SendToClient
<1>3. size \in Nat \ {0, 1} /\ k \in 1..size /\ k <= MaxMessage - 1
  BY <1>1, WireAssumption DEF Taken, Fitted, Smaller
<1>4. /\ sent' \in Seq(Message) /\ written' \in Nat /\ newlines' \subseteq 1..written'
      /\ read' \in 0..written' /\ start' \in 0..read' /\ Held' <= Room'
      /\ MessagesAreInPlace' /\ NewlinesEndMessages' /\ DownIsWhole'
      /\ LinesAreMessages'
  BY <1>1, <1>2, <1>3, BeginStep
<1>5. \A t \in Threads : calls[t] = Idle
  BY <1>1 DEF CallsAreInOrder, CallInOrder
<1>6. CallsAreInOrder'
  BY <1>1, <1>5 DEF CallsAreInOrder, CallInOrder, Idle
<1>7. edge' \in BOOLEAN
  BY <1>2 DEF Flow
<1>8. TypeOK'
  BY <1>1, <1>4, <1>7 DEF TypeOK, reader
<1>9. QED
  BY <1>4, <1>6, <1>8

(***************************************************************************)
(* The message that a thread begins is one that no other is writing.       *)
(***************************************************************************)
LEMMA ClientSendJsonStep ==
  ASSUME IInv, NEW t \in Threads, NEW size \in Sizes, ClientSendJson(t, size)
  PROVE  IInv'
<1> USE DEF IInv
<1>1. dir = "up" /\ calls[t] = Idle /\ UNCHANGED <<dir, closed, reader, reading>>
  BY DEF ClientSendJson
<1>2. PICK k \in Taken(size) :
        /\ sent' = Append(sent, Begun(size, k))
        /\ Flow(k, k = size)
        /\ calls' = [calls EXCEPT ![t] =
                       IF k = size THEN Idle
                       ELSE [msg |-> Len(sent) + 1, left |-> size - k, tries |-> 0]]
  BY DEF ClientSendJson
<1>3. size \in Nat \ {0, 1} /\ k \in 1..size
  BY WireAssumption DEF Taken
<1>4. /\ sent' \in Seq(Message) /\ written' \in Nat /\ newlines' \subseteq 1..written'
      /\ read' \in 0..written' /\ start' \in 0..read' /\ Held' <= Room'
      /\ MessagesAreInPlace' /\ NewlinesEndMessages' /\ DownIsWhole'
      /\ LinesAreMessages'
  BY <1>1, <1>2, <1>3, BeginStep
<1>5. PICK n, m, new : /\ n = Len(sent) /\ m = Begun(size, k)
                       /\ new = [msg |-> n + 1, left |-> size - k, tries |-> 0]
  OBVIOUS
<1>6. /\ n \in Nat /\ DOMAIN sent = 1..n /\ DOMAIN sent' = 1..(n + 1) /\ sent'[n + 1] = m
      /\ \A j \in 1..n : sent'[j] = sent[j]
  <2>1. m \in Message
    BY <1>3, <1>5 DEF Begun, Message, AtLineStart, TypeOK
  <2>2. QED
    BY <1>2, <1>5, <2>1 DEF TypeOK
<1>7. calls' = [calls EXCEPT ![t] = IF k = size THEN Idle ELSE new]
  BY <1>2, <1>5
<1>8. new \in Call /\ Idle \in Call
  BY <1>3, <1>5, <1>6 DEF Call, Idle
<1>9. calls' \in [Threads -> Call] /\ \A u \in Threads : u # t => calls'[u] = calls[u]
  BY <1>7, <1>8 DEF TypeOK
<1>10. calls'[t] = IF k = size THEN Idle ELSE new
  BY <1>7 DEF TypeOK
<1>11. TypeOK'
  <2>1. edge' \in BOOLEAN
    BY <1>2 DEF Flow
  <2>2. QED
    BY <1>1, <1>4, <1>9, <2>1 DEF TypeOK, reader
<1>12. ASSUME NEW u \in Threads, u # t
       PROVE  CallInOrder(calls[u])'
  <2>1. PICK c : c = calls[u]
    OBVIOUS
  <2>2. CallInOrder(c) /\ calls'[u] = c
    BY <1>9, <1>12, <2>1 DEF CallsAreInOrder
  <2>3. CASE c = Idle
    BY <2>2, <2>3 DEF CallInOrder, Idle
  <2>4. CASE c # Idle
    <3>1. c.msg \in 1..n /\ c.left >= 1 /\ ~sent[c.msg].done
      BY <1>6, <2>2, <2>4 DEF CallInOrder
    <3>2. sent'[c.msg] = sent[c.msg] /\ c.msg \in DOMAIN sent'
      BY <1>6, <3>1
    <3>3. PICK old : old = sent[c.msg]
      OBVIOUS
    <3>4. old \in Message /\ Placed(old) /\ ~old.done
      BY <1>6, <3>1, <3>3, Typed DEF MessagesAreInPlace
    <3>5. Torn(old)'
      <4>1. written' = written + k /\ k >= 1 /\ k \in Nat /\ written \in Nat
        BY <1>2, <1>3, Typed DEF Flow
      <4> HIDE DEF IInv
      <4>2. QED
        BY <3>4, <4>1 DEF Torn, Placed, Message
    <3>6. Torn(sent[c.msg])'
      BY <3>2, <3>3, <3>5 DEF Torn
    <3>7. QED
      BY <1>1, <2>2, <3>1, <3>2, <3>6 DEF CallInOrder
  <2>5. QED
    BY <2>3, <2>4
<1>13. CallInOrder(calls[t])'
  <2>1. CASE k = size
    BY <1>10, <2>1 DEF CallInOrder, Idle
  <2>2. CASE k # size
    <3>1. calls'[t] = new /\ new.msg = n + 1 /\ new.left = size - k /\ new.left >= 1
      BY <1>3, <1>5, <1>10, <2>2
    <3>2. ~sent'[n + 1].done /\ sent'[n + 1].size = size
          /\ sent'[n + 1].last = written + k /\ sent'[n + 1].first = written + 1
      <4>1. /\ (m.done <=> k = size) /\ m.size = size
            /\ m.last = written + k /\ m.first = written + 1
        BY <1>5 DEF Begun
      <4>2. QED
        BY <1>6, <2>2, <4>1
    <3>3. size - k = size - ((written + k) - (written + 1) + 1)
      BY <1>3, Typed
    <3>4. QED
      BY <1>1, <1>6, <3>1, <3>2, <3>3 DEF CallInOrder
  <2>3. QED
    BY <2>1, <2>2
<1>14. ASSUME NEW u \in Threads, NEW v \in Threads, u # v, calls'[u] # Idle, calls'[v] # Idle
       PROVE  calls'[u].msg # calls'[v].msg
  <2>1. \A a \in Threads : a # t /\ calls[a] # Idle => calls[a].msg \in 1..n
    BY <1>6 DEF CallsAreInOrder, CallInOrder
  <2>2. calls'[t] # Idle => calls'[t].msg = n + 1
    BY <1>5, <1>10
  <2>3. CASE u # t /\ v # t
    BY <1>9, <1>14, <2>3 DEF CallsAreInOrder
  <2>4. CASE u = t \/ v = t
    BY <1>6, <1>9, <1>14, <2>1, <2>2, <2>4
  <2>5. QED
    BY <2>3, <2>4
<1>15. CallsAreInOrder'
  <2>1. Idle' = Idle
    BY DEF Idle
  <2>2. QED
    BY <1>12, <1>13, <1>14, <2>1 DEF CallsAreInOrder
<1>16. QED
  BY <1>4, <1>11, <1>15

(***************************************************************************)
(* A thread that goes on writes what it had left; the message of another   *)
(* is torn by that, if it is not finished.                                 *)
(***************************************************************************)
LEMMA SendMoreStep ==
  ASSUME IInv, NEW t \in Threads, SendMore(t)
  PROVE  IInv'
<1> USE DEF IInv
<1>1. calls[t] # Idle /\ UNCHANGED <<dir, closed, reader, reading>>
  BY DEF SendMore
<1>2. PICK k \in Taken(calls[t].left) :
        /\ sent' = [sent EXCEPT ![calls[t].msg] = Continued(@, k, k = calls[t].left)]
        /\ Flow(k, k = calls[t].left)
        /\ calls' = [calls EXCEPT ![t] = IF k = calls[t].left THEN Idle
                                         ELSE [calls[t] EXCEPT !.left = @ - k]]
  BY DEF SendMore
<1>3. PICK c, i, left, old, m :
        /\ c = calls[t] /\ i = c.msg /\ left = c.left /\ old = sent[i]
        /\ m = Continued(old, k, k = left)
  OBVIOUS
<1>4. /\ c \in Call /\ dir = "up" /\ i \in DOMAIN sent /\ left \in Nat /\ left >= 1
      /\ ~old.done
      /\ ~Torn(old) => left = old.size - (old.last - old.first + 1)
  BY <1>1, <1>3 DEF CallsAreInOrder, CallInOrder, TypeOK, Call
<1>5. k \in 1..left /\ k \in Nat /\ left \in Nat
  BY <1>2, <1>3, <1>4 DEF Taken
<1>6. /\ sent' \in Seq(Message) /\ written' \in Nat /\ newlines' \subseteq 1..written'
      /\ read' \in 0..written' /\ start' \in 0..read' /\ Held' <= Room'
      /\ MessagesAreInPlace' /\ NewlinesEndMessages' /\ DownIsWhole'
      /\ LinesAreMessages'
  BY <1>1, <1>2, <1>3, <1>5, ContinueStep
<1>7. /\ DOMAIN sent' = DOMAIN sent /\ sent'[i] = m
      /\ \A j \in DOMAIN sent : j # i => sent'[j] = sent[j]
  BY <1>2, <1>3, <1>4 DEF TypeOK
<1>8. PICK new : new = [c EXCEPT !.left = left - k]
  OBVIOUS
<1>9. calls' = [calls EXCEPT ![t] = IF k = left THEN Idle ELSE new]
  BY <1>2, <1>3, <1>8
<1>10. /\ new \in Call /\ Idle \in Call /\ new.msg = i /\ new.left = left - k
  BY <1>3, <1>4, <1>5, <1>8 DEF Call, Idle
<1>11. /\ calls' \in [Threads -> Call] /\ \A u \in Threads : u # t => calls'[u] = calls[u]
       /\ calls'[t] = IF k = left THEN Idle ELSE new
  BY <1>9, <1>10 DEF TypeOK
<1>12. TypeOK'
  <2>1. edge' \in BOOLEAN
    BY <1>2 DEF Flow
  <2>2. QED
    BY <1>1, <1>6, <1>11, <2>1 DEF TypeOK, reader
<1>13. ASSUME NEW u \in Threads, u # t
       PROVE  CallInOrder(calls[u])'
  <2>1. PICK d : d = calls[u]
    OBVIOUS
  <2>2. CallInOrder(d) /\ calls'[u] = d
    BY <1>11, <1>13, <2>1 DEF CallsAreInOrder
  <2>3. CASE d = Idle
    BY <2>2, <2>3 DEF CallInOrder, Idle
  <2>4. CASE d # Idle
    <3>1. d.msg \in DOMAIN sent /\ d.left >= 1 /\ ~sent[d.msg].done /\ d.msg # i
      BY <1>1, <1>3, <1>13, <2>1, <2>2, <2>4 DEF CallInOrder, CallsAreInOrder
    <3>2. sent'[d.msg] = sent[d.msg] /\ d.msg \in DOMAIN sent'
      BY <1>7, <3>1
    <3>3. PICK other : other = sent[d.msg]
      OBVIOUS
    <3>4. other \in Message /\ Placed(other) /\ ~other.done
      BY <3>1, <3>3, Typed DEF MessagesAreInPlace
    <3>5. Torn(other)'
      BY <1>2, <1>5, <3>4, Typed DEF Torn, Flow, Placed, Message
    <3>6. Torn(sent[d.msg])'
      BY <3>2, <3>3, <3>5 DEF Torn
    <3>7. QED
      BY <1>1, <1>4, <2>2, <3>1, <3>2, <3>6 DEF CallInOrder
  <2>5. QED
    BY <2>3, <2>4
<1>14. CallInOrder(calls[t])'
  <2>1. CASE k = left
    BY <1>11, <2>1 DEF CallInOrder, Idle
  <2>2. CASE k # left
    <3>1. calls'[t] = new /\ new.left >= 1
      BY <1>5, <1>10, <1>11, <2>2
    <3>2. /\ old \in Message /\ m.done = FALSE /\ m.size = old.size /\ m.first = old.first
          /\ m.last = written + k /\ (m.torn <=> (old.torn \/ old.last # written))
      <4>1. old \in Message
        BY <1>3, <1>4, Typed
      <4>2. QED
        BY <1>3, <2>2, <4>1 DEF Continued, Message
    <3>3. Torn(sent[i])' <=> m.torn
      <4>1. written' = written + k
        BY <1>2 DEF Flow
      <4>2. QED
        BY <1>7, <3>2, <4>1 DEF Torn
    <3>4. ~m.torn => left - k = m.size - (m.last - m.first + 1)
      <4>1. ~m.torn => ~Torn(old) /\ old.last = written
        BY <3>2 DEF Torn
      <4>2. \A a, b, d, e, f \in Int : e = b - (a - d + 1) => e - f = b - ((a + f) - d + 1)
        OBVIOUS
      <4>3. written \in Int /\ old.size \in Int /\ old.first \in Int /\ left \in Int /\ k \in Int
        BY <1>5, <3>2, Typed DEF Message
      <4>4. QED
        BY <1>4, <3>2, <4>1, <4>2, <4>3
    <3>5. QED
      BY <1>1, <1>4, <1>7, <1>10, <3>1, <3>2, <3>3, <3>4 DEF CallInOrder
  <2>3. QED
    BY <2>1, <2>2
<1>15. ASSUME NEW u \in Threads, NEW v \in Threads, u # v, calls'[u] # Idle, calls'[v] # Idle
       PROVE  calls'[u].msg # calls'[v].msg
  <2>1. \A a \in Threads : calls'[a] # Idle => calls[a] # Idle /\ calls'[a].msg = calls[a].msg
    BY <1>1, <1>3, <1>10, <1>11
  <2>2. QED
    BY <1>15, <2>1 DEF CallsAreInOrder
<1>16. CallsAreInOrder'
  <2>1. Idle' = Idle
    BY DEF Idle
  <2>2. QED
    BY <1>13, <1>14, <1>15, <2>1 DEF CallsAreInOrder
<1>17. QED
  BY <1>6, <1>12, <1>16

(***************************************************************************)
(* A thread waits, or gives up: nothing is written, and a call that is     *)
(* given up is in nobody's way.                                            *)
(***************************************************************************)
LEMMA CallsStep ==
  ASSUME IInv, NEW t \in Threads, SendLater(t) \/ SendFails(t)
  PROVE  IInv'
<1> USE DEF IInv
<1>1. UNCHANGED <<dir, sent, written, newlines, closed, reader, edge, reading>>
  BY DEF SendLater, SendFails
<1>2. Idle \in Call /\ calls[t] \in Call
  BY DEF Idle, Call, TypeOK
<1>3. \E c \in Call : /\ calls' = [calls EXCEPT ![t] = c]
                      /\ c # Idle => /\ calls[t] # Idle
                                     /\ c.msg = calls[t].msg /\ c.left = calls[t].left
  <2>1. CASE SendLater(t)
    <3>1. PICK c : c = [calls[t] EXCEPT !.tries = @ + 1]
      OBVIOUS
    <3>2. c \in Call /\ c.msg = calls[t].msg /\ c.left = calls[t].left
      BY <1>2, <3>1 DEF Call
    <3>3. calls' = [calls EXCEPT ![t] = Idle] \/ calls' = [calls EXCEPT ![t] = c]
      <4>1. \A r : calls' = [calls EXCEPT ![t] = IF r THEN Idle ELSE c]
                    => calls' = [calls EXCEPT ![t] = Idle] \/ calls' = [calls EXCEPT ![t] = c]
        OBVIOUS
      <4>2. QED
        BY <2>1, <3>1, <4>1 DEF SendLater
    <3>4. calls[t] # Idle
      BY <2>1 DEF SendLater
    <3>5. QED
      BY <1>2, <3>2, <3>3, <3>4
  <2>2. CASE SendFails(t)
    BY <1>2, <2>2 DEF SendFails
  <2>3. QED
    BY <2>1, <2>2
<1>4. calls \in [Threads -> Call]
  BY DEF TypeOK
<1>5. /\ calls' \in [Threads -> Call]
      /\ \A u \in Threads :
           \/ calls'[u] = Idle
           \/ /\ calls[u] # Idle
              /\ calls'[u].msg = calls[u].msg /\ calls'[u].left = calls[u].left
  <2>1. PICK c \in Call : /\ calls' = [calls EXCEPT ![t] = c]
                          /\ c # Idle => /\ calls[t] # Idle
                                         /\ c.msg = calls[t].msg /\ c.left = calls[t].left
    BY <1>3
  <2>2. calls' \in [Threads -> Call] /\ calls'[t] = c
        /\ \A u \in Threads : u # t => calls'[u] = calls[u]
    BY <1>4, <2>1
  <2>3. QED
    BY <2>1, <2>2
<1>6. CallsAreInOrder'
  <2>1. ASSUME NEW u \in Threads
        PROVE  CallInOrder(calls[u])'
    BY <1>1, <1>5, <2>1 DEF CallsAreInOrder, CallInOrder, Torn, Idle
  <2>2. Idle' = Idle
    BY DEF Idle
  <2>3. QED
    BY <1>5, <2>1, <2>2 DEF CallsAreInOrder
<1>7. TypeOK'
  BY <1>1, <1>5 DEF TypeOK, reader, Held, Room
<1>8. MessagesAreInPlace' /\ NewlinesEndMessages' /\ DownIsWhole' /\ LinesAreMessages'
  <2>1. UNCHANGED <<dir, sent, written, newlines, start, lines>>
    BY <1>1 DEF reader
  <2>2. MessagesAreInPlace'
    BY <2>1 DEF MessagesAreInPlace, Placed, Unbroken, Good, Torn, Cut, CutClean, EndsLine, Room
  <2>3. NewlinesEndMessages' /\ DownIsWhole'
    BY <2>1 DEF NewlinesEndMessages, DownIsWhole, Last
  <2>4. QED
    BY <2>1, <2>2, <2>3, LinesKeep
<1>9. QED
  BY <1>6, <1>7, <1>8

(***************************************************************************)
(* The reader takes bytes, waits or closes the connection; client_process_ *)
(* messages may empty a full buffer before.                                *)
(***************************************************************************)
LEMMA ReadStep ==
  ASSUME IInv, ServerReads \/ PageReads \/ PageLeaves
  PROVE  IInv'
<1> USE DEF IInv
<1>1. UNCHANGED <<dir, sent, written, newlines, calls, closed, lines>>
      /\ edge' \in BOOLEAN /\ reading' \in BOOLEAN /\ gone' \in BOOLEAN
  BY DEF ServerReads, Wake, HandleClientRead, ReadNothing, ReadOverflow, PageReads,
         ProcessMessages, ProcessNothing, PageLeaves, TypeOK, writer, reader, ReadOn
<1>2. /\ read \in Nat /\ start \in Nat /\ written \in Nat /\ start <= read /\ read <= written
      /\ Room \in Nat /\ read - start <= Room /\ MaxMessage \in Nat /\ RecvBuffer \in Nat
      /\ Room' = Room
  BY <1>1, Typed DEF Room
<1>3. start' = start \/ (dir = "down" /\ Split /\ start' = Kept)
  BY DEF ServerReads, Wake, HandleClientRead, ReadNothing, ReadOverflow, PageReads,
         ProcessMessages, ProcessNothing, PageLeaves, Polling, reader
<1>4. read' \in 0..written' /\ start' \in 0..read' /\ Held' <= Room'
  <2>1. CASE UNCHANGED <<read, start>>
    BY <1>1, <1>2, <2>1 DEF Held
  <2>2. CASE HandleClientRead
    <3>1. PICK k \in 1..Smaller(Unread, Space) : read' = read + k /\ start' = start
      BY <2>2 DEF HandleClientRead
    <3>2. k <= written - read /\ k <= MaxMessage - (read - start) - 1 /\ k \in Nat
      BY <1>2, <3>1 DEF Smaller, Unread, Space, Held
    <3>3. Room = MaxMessage - 1
      BY <2>2 DEF HandleClientRead, InLoop, Room
    <3>4. QED
      BY <1>1, <1>2, <3>1, <3>2, <3>3 DEF Held
  <2>3. CASE ProcessMessages
    <3>1. PICK k \in 1..Smaller(Unread, RecvBuffer - 1 - (read - Kept)) :
                 read' = read + k /\ start' = Kept
      BY <2>3 DEF ProcessMessages
    <3>2. Kept \in Nat /\ start <= Kept /\ Kept <= read
      BY <1>2 DEF Kept
    <3>3. k <= written - read /\ k <= RecvBuffer - 1 - (read - Kept) /\ k \in Nat
      BY <1>2, <3>1, <3>2 DEF Smaller, Unread
    <3>4. Room = RecvBuffer - 1
      BY <2>3, Typed DEF ProcessMessages, Polling, Room
    <3>5. QED
      BY <1>1, <1>2, <3>1, <3>2, <3>3, <3>4 DEF Held
  <2>4. CASE ProcessNothing
    BY <1>1, <1>2, <2>4 DEF ProcessNothing, Kept, Held
  <2>5. QED
    BY <2>1, <2>2, <2>3, <2>4 DEF ServerReads, Wake, ReadNothing, ReadOverflow, PageReads,
                                  PageLeaves, reader
<1>5. TypeOK'
  BY <1>1, <1>4 DEF TypeOK
<1>6. ASSUME NEW i \in DOMAIN sent, Good(sent[i])
      PROVE  \/ start' < sent[i].first
             \/ start' >= sent[i].last /\ (sent[i].done \/ CutClean(sent[i]))
  <2>1. CASE start' = start
    BY <1>6, <2>1 DEF MessagesAreInPlace, Unbroken
  <2>2. CASE dir = "down" /\ Split /\ Full /\ start' = read
    BY <1>6, <2>2, FullIsOutside
  <2>3. QED
    BY <1>3, <2>1, <2>2 DEF Kept
<1>7. MessagesAreInPlace' /\ NewlinesEndMessages' /\ DownIsWhole' /\ CallsAreInOrder'
  BY <1>1, <1>6, ReaderKeepsPlace
<1>8. QED
  BY <1>1, <1>5, <1>7, LinesKeep

(***************************************************************************)
(* IInv is inductive.                                                      *)
(***************************************************************************)
LEMMA InitIInv == Init => IInv
<1> SUFFICES ASSUME Init PROVE IInv
  OBVIOUS
<1>1. TypeOK
  <2>1. Room \in Nat /\ 0 - 0 <= Room
    BY WireAssumption DEF Room
  <2>2. Idle \in Call
    BY DEF Idle, Call
  <2>3. calls \in [Threads -> Call] /\ newlines \subseteq 1..written
    BY <2>2 DEF Init
  <2>4. sent \in Seq(Message) /\ lines \in Seq(Line) /\ written = 0 /\ read = 0 /\ start = 0
    BY DEF Init
  <2>5. written \in Nat /\ read \in 0..written /\ start \in 0..read /\ Held <= Room
    BY <2>1, <2>4 DEF Held
  <2>6. QED
    BY <2>3, <2>4, <2>5 DEF Init, TypeOK
<1>2. MessagesAreInPlace /\ NewlinesEndMessages /\ DownIsWhole /\ LinesAreMessages
  BY DEF Init, MessagesAreInPlace, NewlinesEndMessages, DownIsWhole, LinesAreMessages
<1>3. CallsAreInOrder
  BY DEF Init, CallsAreInOrder, CallInOrder
<1>4. QED
  BY <1>1, <1>2, <1>3 DEF IInv

(***************************************************************************)
(* Every step of either side preserves the invariant.                      *)
(***************************************************************************)
LEMMA NextIInv == IInv /\ [Next]_vars => IInv'
<1> SUFFICES ASSUME IInv, [Next]_vars PROVE IInv'
  OBVIOUS
<1>1. ASSUME NEW size \in Sizes, SendToClient(size) PROVE IInv'
  BY <1>1, SendToClientStep
<1>2. ASSUME NEW t \in Threads, NEW size \in Sizes, ClientSendJson(t, size) PROVE IInv'
  BY <1>2, ClientSendJsonStep
<1>3. ASSUME NEW t \in Threads, SendMore(t) PROVE IInv'
  BY <1>3, SendMoreStep
<1>4. ASSUME NEW t \in Threads, SendLater(t) \/ SendFails(t) PROVE IInv'
  BY <1>4, CallsStep
<1>5. CASE Close
  <2>1. UNCHANGED <<dir, sent, written, newlines, calls, reader, reading>>
        /\ edge' \in BOOLEAN /\ closed' \in BOOLEAN
    BY <1>5 DEF Close
  <2>2. TypeOK'
    BY <2>1 DEF IInv, TypeOK, reader, Held, Room
  <2>3. \A i \in DOMAIN sent : Good(sent[i]) =>
          \/ start' < sent[i].first
          \/ start' >= sent[i].last /\ (sent[i].done \/ CutClean(sent[i]))
    BY <2>1 DEF IInv, MessagesAreInPlace, Unbroken, reader
  <2>4. MessagesAreInPlace' /\ NewlinesEndMessages' /\ DownIsWhole' /\ CallsAreInOrder'
    BY <2>1, <2>3, ReaderKeepsPlace DEF IInv
  <2>5. LinesAreMessages'
    BY <2>1, LinesKeep DEF IInv, reader
  <2>6. QED
    BY <2>2, <2>4, <2>5 DEF IInv
<1>6. CASE ServerReads \/ PageReads \/ PageLeaves
  BY <1>6, ReadStep
<1>7. CASE TakeLine
  BY <1>7, TakeLineStep
<1>8. CASE UNCHANGED vars
  <2>1. UNCHANGED <<dir, sent, written, newlines, calls, closed, read, start, lines, gone,
                    edge, reading>>
    BY <1>8 DEF vars, writer, reader
  <2>2. TypeOK'
    BY <2>1 DEF IInv, TypeOK, Held, Room
  <2>3. \A i \in DOMAIN sent : Good(sent[i]) =>
          \/ start' < sent[i].first
          \/ start' >= sent[i].last /\ (sent[i].done \/ CutClean(sent[i]))
    BY <2>1 DEF IInv, MessagesAreInPlace, Unbroken
  <2>4. MessagesAreInPlace' /\ NewlinesEndMessages' /\ DownIsWhole' /\ CallsAreInOrder'
    BY <2>1, <2>3, ReaderKeepsPlace DEF IInv
  <2>5. LinesAreMessages'
    BY <2>1, LinesKeep DEF IInv
  <2>6. QED
    BY <2>2, <2>4, <2>5 DEF IInv
<1>9. QED
  BY <1>1, <1>2, <1>3, <1>4, <1>5, <1>6, <1>7, <1>8 DEF Next
-----------------------------------------------------------------------------
(***************************************************************************)
(* The buffers are never overrun, whatever is sent and however it arrives. *)
(***************************************************************************)
THEOREM WireTypeCorrect == Spec => []TypeOK
<1>1. IInv => TypeOK
  BY DEF IInv
<1>2. QED
  BY <1>1, InitIInv, NextIInv, PTL DEF Spec

(***************************************************************************)
(* Every line that is handed on is one whole message, or damaged: for      *)
(* every size of messages and buffers, any number of threads, and however  *)
(* send() and recv() divide the bytes.                                     *)
(***************************************************************************)
THEOREM LinesCarryMessages == Spec => []LinesAreMessages
<1>1. IInv => LinesAreMessages
  BY DEF IInv
<1>2. QED
  BY <1>1, InitIInv, NextIInv, PTL DEF Spec

-----------------------------------------------------------------------------
(***************************************************************************)
(* The promise of Channel.  That a line is a message does not say that no  *)
(* message is passed over, nor that they come in their order: messages     *)
(* that are not torn lie in the stream as they are numbered, the last byte *)
(* of a finished one is a newline, and the start of the buffer tells which *)
(* of the intact ones were handed on.                                      *)
(***************************************************************************)
MessagesAreInOrder ==
  /\ \A i \in DOMAIN sent :
       sent[i].size >= 2 /\ (sent[i].done => sent[i].last \in newlines)
  /\ \A i, j \in DOMAIN sent :
       i < j /\ ~Torn(sent[i]) => sent[i].last < sent[j].first

LinesAreBehind == \A n \in DOMAIN lines : lines[n].last <= start

PassedAreDelivered ==
  \A i \in DOMAIN sent : Intact(sent[i]) /\ sent[i].last <= start => i \in Delivered

\* One of the delivered messages is the last.
LastIsKnown == Delivered = {} \/ \E i \in Delivered : \A j \in Delivered : j <= i

PInv ==
  /\ IInv
  /\ MessagesAreInOrder
  /\ LinesAreBehind
  /\ PassedAreDelivered
  /\ LastIsKnown

(***************************************************************************)
(* What the fate of a message says.                                        *)
(***************************************************************************)
LEMMA FateSays ==
  ASSUME NEW m \in Message
  PROVE  /\ Fate(m) \in {"pending", "intact", "damaged"}
         /\ Fate(m) = "damaged" <=> Damaged(m)
         /\ Fate(m) = "intact" <=> Intact(m)
         /\ Fate(m) = "pending" => ~m.done /\ ~Torn(m)
         /\ Intact(m) => ~Torn(m) /\ m.done
<1>1. Fate(m) = IF Damaged(m) THEN "damaged" ELSE IF m.done THEN "intact" ELSE "pending"
  BY DEF Fate
<1>2. m.done \in BOOLEAN /\ m.torn \in BOOLEAN /\ m.clean \in BOOLEAN /\ m.size \in Nat
  BY DEF Message
<1>3. Intact(m) <=> ~Damaged(m) /\ m.done
  BY <1>2, Typed, WireAssumption DEF Intact, Damaged, Torn, Room, Smaller
<1>4. Intact(m) => ~Torn(m) /\ m.done
  BY DEF Intact, Torn
<1>5. ~Damaged(m) => ~Torn(m)
  BY DEF Damaged
<1>6. QED
  BY <1>1, <1>3, <1>4, <1>5

(***************************************************************************)
(* The delivered messages are the intact ones that the start of the buffer *)
(* has passed.                                                             *)
(***************************************************************************)
LEMMA DeliveredIs ==
  ASSUME LinesAreBehind, PassedAreDelivered
  PROVE  Delivered = {i \in DOMAIN sent : Intact(sent[i]) /\ sent[i].last <= start}
<1>1. \A i \in Delivered : i \in DOMAIN sent /\ Intact(sent[i]) /\ sent[i].last <= start
  BY DEF LinesAreBehind, Delivered, Carries
<1>2. QED
  BY <1>1 DEF PassedAreDelivered

(***************************************************************************)
(* At most one message is pending, the last in the stream.                 *)
(***************************************************************************)
LEMMA OnePending ==
  ASSUME TypeOK, MessagesAreInPlace, MessagesAreInOrder,
         NEW i \in DOMAIN sent, Fate(sent[i]) = "pending",
         NEW j \in DOMAIN sent, Fate(sent[j]) = "pending"
  PROVE  i = j
<1>1. \A l \in {i, j} : /\ sent[l] \in Message /\ Placed(sent[l])
                        /\ ~Torn(sent[l]) /\ sent[l].last = written
  <2>1. \A l \in {i, j} : sent[l] \in Message /\ Placed(sent[l])
    BY Typed DEF MessagesAreInPlace
  <2>2. \A l \in {i, j} : ~sent[l].done /\ ~Torn(sent[l])
    BY <2>1, FateSays
  <2>3. QED
    BY <2>1, <2>2 DEF Torn
<1>2. \A l \in {i, j} : sent[l].first <= written /\ sent[l].first \in Nat
  BY <1>1 DEF Placed, Message
<1>3. ~(i < j) /\ ~(j < i)
  BY <1>1, <1>2, Typed DEF MessagesAreInOrder
<1>4. i \in Nat /\ j \in Nat
  BY DEF TypeOK
<1>5. QED
  BY <1>3, <1>4

(***************************************************************************)
(* Bytes of another message are written: what was pending is damaged, the  *)
(* rest keeps its fate.                                                    *)
(***************************************************************************)
LEMMA FateOfOthers ==
  ASSUME TypeOK, MessagesAreInPlace, NEW k \in Nat \ {0}, dir' = dir, written' = written + k,
         NEW i \in DOMAIN sent, sent'[i] = sent[i]
  PROVE  /\ Fate(sent[i])' = IF Fate(sent[i]) = "intact" THEN "intact" ELSE "damaged"
         /\ Intact(sent[i])' <=> Intact(sent[i])
         /\ ~Torn(sent[i])' => ~Torn(sent[i])
<1> DEFINE m == sent[i]
<1>1. m \in Message /\ m.last \in Nat /\ m.last <= written /\ written \in Nat
  BY Typed DEF MessagesAreInPlace, Placed, Message
<1>2. m' = m /\ Room' = Room
  BY DEF Room
<1>3. Torn(m)' <=> m.torn \/ ~m.done
  BY <1>1, <1>2 DEF Torn
<1>4. Torn(m) => Torn(m)'
  BY <1>3 DEF Torn
<1>5. Intact(m)' <=> Intact(m)
  BY <1>2 DEF Intact
<1>6. Damaged(m)' <=> m.torn \/ ~m.done \/ ~m.clean \/ m.size > Room
  BY <1>2, <1>3 DEF Damaged
<1>7. Damaged(m)' <=> ~Intact(m)
  BY <1>1, <1>6, Typed DEF Intact, Message
<1>8. Fate(m)' = IF Intact(m) THEN "intact" ELSE "damaged"
  <2>1. Fate(m)' = IF Damaged(m)' THEN "damaged" ELSE IF m.done THEN "intact" ELSE "pending"
    BY <1>2 DEF Fate
  <2>2. Intact(m) => m.done
    BY DEF Intact
  <2>3. QED
    BY <1>7, <2>1, <2>2
<1>9. Fate(m) = "intact" <=> Intact(m)
  BY <1>1, FateSays
<1>10. QED
  BY <1>4, <1>5, <1>8, <1>9


(***************************************************************************)
(* A sequence that is longer by one.                                       *)
(***************************************************************************)
LEMMA LongerByOne ==
  ASSUME NEW S, NEW n \in Nat, NEW f, f \in [1..n -> S], NEW g, g \in [1..(n + 1) -> S],
         \A i \in 1..n : g[i] = f[i]
  PROVE  g = Append(f, g[n + 1])
<1>1. f \in Seq(S) /\ Len(f) = n /\ g \in Seq(S) /\ Len(g) = n + 1
  OBVIOUS
<1>2. g[n + 1] \in S
  OBVIOUS
<1>3. PICK h : h = Append(f, g[n + 1])
  OBVIOUS
<1>4. h \in Seq(S) /\ Len(h) = n + 1 /\ h[n + 1] = g[n + 1] /\ \A i \in 1..n : h[i] = f[i]
  BY <1>1, <1>2, <1>3
<1>5. \A i \in 1..(n + 1) : h[i] = g[i]
  BY <1>4
<1>6. QED
  BY <1>1, <1>3, <1>4, <1>5

LEMMA FortunesTyped ==
  ASSUME TypeOK
  PROVE  /\ Fortunes \in [DOMAIN sent -> Promise!Fates]
         /\ \A l \in DOMAIN sent : Fortunes[l] = Fate(sent[l])
         /\ DOMAIN sent = 1..Len(sent) /\ Len(sent) \in Nat
         /\ Fortunes \in Seq(Promise!Fates) /\ Len(Fortunes) = Len(sent)
<1>1. \A i \in DOMAIN sent : Fate(sent[i]) \in Promise!Fates
  BY Typed, FateSays DEF Promise!Fates
<1>2. DOMAIN sent = 1..Len(sent) /\ Len(sent) \in Nat
  BY DEF TypeOK
<1>3. Fortunes \in [DOMAIN sent -> Promise!Fates]
      /\ \A l \in DOMAIN sent : Fortunes[l] = Fate(sent[l])
  BY <1>1 DEF Fortunes
<1>4. Fortunes \in Seq(Promise!Fates) /\ Len(Fortunes) = Len(sent)
  BY <1>2, <1>3
<1>5. QED
  BY <1>2, <1>3, <1>4

\* The same of the next state.
LEMMA FortunesTypedNext ==
  ASSUME TypeOK'
  PROVE  (/\ Fortunes \in [DOMAIN sent -> Promise!Fates]
          /\ \A l \in DOMAIN sent : Fortunes[l] = Fate(sent[l]))'
BY FortunesTyped, PTL

(***************************************************************************)
(* A message is begun: one more is offered, and the pending one, if there  *)
(* is one, is spoiled.                                                     *)
(***************************************************************************)
LEMMA BeginKeepsPromise ==
  ASSUME PInv, TypeOK', NEW size \in Nat \ {0, 1}, NEW k \in 1..size,
         sent' = Append(sent, Begun(size, k)), Flow(k, k = size),
         UNCHANGED <<dir, reader>>
  PROVE  /\ (MessagesAreInOrder /\ LinesAreBehind /\ PassedAreDelivered /\ LastIsKnown)'
         /\ Promise!Offer \/ Promise!Spoil
<1>p. PICK m, n : m = Begun(size, k) /\ n = Len(sent)
  OBVIOUS
<1>i. IInv /\ TypeOK /\ MessagesAreInPlace
  BY DEF PInv, IInv
<1>1. /\ n \in Nat /\ DOMAIN sent = 1..n /\ written \in Nat /\ read \in Nat /\ start \in Nat
      /\ start <= written
  BY <1>i, <1>p, Typed DEF TypeOK
<1>2. m \in Message
  BY <1>p, <1>1 DEF Begun, Message, AtLineStart
<1>3. /\ DOMAIN sent' = 1..(n + 1) /\ Len(sent') = n + 1
      /\ sent'[n + 1] = m /\ \A j \in 1..n : sent'[j] = sent[j]
  BY <1>i, <1>p, <1>2 DEF TypeOK
<1>4. /\ written' = written + k /\ newlines \subseteq newlines'
      /\ k = size => written + k \in newlines'
  BY DEF Flow
<1>5. dir' = dir /\ start' = start /\ lines' = lines /\ k \in Nat \ {0}
  BY DEF reader
<1>6. /\ m.size = size /\ m.first = written + 1 /\ m.last = written + k /\ (m.done <=> k = size)
  BY <1>p DEF Begun
<1>7. ASSUME NEW i \in 1..n
      PROVE  /\ sent[i] \in Message /\ Placed(sent[i])
             /\ Fate(sent[i])' = IF Fate(sent[i]) = "intact" THEN "intact" ELSE "damaged"
             /\ Intact(sent[i])' <=> Intact(sent[i])
             /\ ~Torn(sent[i])' => ~Torn(sent[i])
  <2>1. i \in DOMAIN sent /\ sent'[i] = sent[i]
    BY <1>1, <1>3
  <2>2. sent[i] \in Message /\ Placed(sent[i])
    BY <1>i, <2>1, Typed DEF MessagesAreInPlace
  <2>3. QED
    BY <1>4, <1>5, <1>i, <2>1, <2>2, FateOfOthers
<1>8. MessagesAreInOrder'
  <2>1. ASSUME NEW i \in 1..(n + 1)
        PROVE  sent'[i].size >= 2 /\ (sent'[i].done => sent'[i].last \in newlines')
    BY <1>1, <1>3, <1>4, <1>6, <2>1 DEF PInv, MessagesAreInOrder
  <2>2. ASSUME NEW i \in 1..(n + 1), NEW j \in 1..(n + 1), i < j, ~Torn(sent[i])'
        PROVE  sent'[i].last < sent'[j].first
    <3>1. i \in 1..n /\ i \in DOMAIN sent /\ sent'[i] = sent[i] /\ ~Torn(sent[i])
      BY <1>1, <1>3, <1>7, <2>2
    <3>2. CASE j \in 1..n
      BY <1>1, <1>3, <2>2, <3>1, <3>2 DEF PInv, MessagesAreInOrder
    <3>3. CASE j = n + 1
      <4>1. sent[i].last <= written /\ sent[i].last \in Nat
        BY <1>7, <3>1 DEF Placed, Message
      <4>2. QED
        BY <1>1, <1>3, <1>6, <3>1, <3>3, <4>1
    <3>4. j \in 1..n \/ j = n + 1
      BY <1>1, <2>2
    <3>5. QED
      BY <3>2, <3>3, <3>4
  <2>3. QED
    BY <1>3, <2>1, <2>2 DEF MessagesAreInOrder
<1>9. Delivered' = Delivered
  <2>1. ASSUME NEW i \in 1..n
        PROVE  i \in Delivered' <=> i \in Delivered
    BY <1>1, <1>3, <1>5, <1>7 DEF Delivered, Carries
  <2>2. n + 1 \notin Delivered' /\ n + 1 \notin Delivered
    <3>1. \A l \in DOMAIN lines : lines[l] \in Line
      BY <1>i DEF TypeOK
    <3>2. \A l \in DOMAIN lines : lines[l].last <= start /\ lines[l].last \in Nat
      BY <3>1 DEF PInv, LinesAreBehind, Line
    <3>3. \A l \in DOMAIN lines : lines[l].last # written + k
      BY <1>1, <1>5, <3>2
    <3>4. QED
      BY <1>1, <1>3, <1>5, <1>6, <3>3 DEF Delivered, Carries
  <2>3. Delivered \subseteq 1..n /\ Delivered' \subseteq 1..(n + 1)
    BY <1>1, <1>3 DEF Delivered
  <2>4. \A i \in 1..(n + 1) : i \in 1..n \/ i = n + 1
    BY <1>1
  <2>5. \A i : i \in Delivered' <=> i \in Delivered
    BY <2>1, <2>2, <2>3, <2>4
  <2>6. QED
    BY <2>5
<1>10. LinesAreBehind'
  BY <1>5 DEF PInv, LinesAreBehind
<1>11. PassedAreDelivered'
  <2>1. ASSUME NEW i \in 1..(n + 1), Intact(sent[i])', sent'[i].last <= start
        PROVE  i \in Delivered
    <3>1. i \in 1..n
      BY <1>1, <1>3, <1>6, <2>1
    <3>2. i \in DOMAIN sent /\ Intact(sent[i]) /\ sent[i].last <= start
      BY <1>1, <1>3, <1>7, <2>1, <3>1
    <3>3. QED
      BY <3>2 DEF PInv, PassedAreDelivered
  <2>2. QED
    BY <1>3, <1>5, <1>9, <2>1 DEF PassedAreDelivered
<1>12. LastIsKnown'
  BY <1>9 DEF PInv, LastIsKnown
<1>13. LastDelivered' = LastDelivered
  BY <1>9 DEF LastDelivered
<1>14. /\ Fortunes \in [1..n -> Promise!Fates] /\ Fortunes' \in [1..(n + 1) -> Promise!Fates]
       /\ \A i \in 1..n : Fortunes[i] = Fate(sent[i]) /\ Fortunes'[i] = Fate(sent[i])'
  <2>1. (/\ Fortunes \in [DOMAIN sent -> Promise!Fates]
         /\ \A l \in DOMAIN sent : Fortunes[l] = Fate(sent[l]))'
    BY FortunesTypedNext
  <2>2. QED
    BY <1>1, <1>3, <1>i, <2>1, FortunesTyped DEF Promise!Fates
<1>15. PICK f \in Promise!Fates : f = Fortunes'[n + 1]
  BY <1>1, <1>14
<1>16. CASE \E i \in 1..n : Fortunes[i] = "pending"
  <2>1. PICK i \in 1..n : Fortunes[i] = "pending"
    BY <1>16
  <2>2. PICK g : g = [Fortunes EXCEPT ![i] = "damaged"]
    OBVIOUS
  <2>3. g \in [1..n -> Promise!Fates]
    BY <1>14, <2>2 DEF Promise!Fates
  <2>4. \A j \in 1..n : Fortunes'[j] = g[j]
    <3>1. ASSUME NEW j \in 1..n
          PROVE  Fortunes'[j] = g[j]
      <4>1. j # i => Fortunes[j] # "pending"
        BY <1>1, <1>14, <1>i, <2>1, OnePending DEF PInv
      <4>2. g[j] = IF j = i THEN "damaged" ELSE Fortunes[j]
        BY <1>14, <2>2
      <4>3. Fortunes'[j] = IF Fortunes[j] = "intact" THEN "intact" ELSE "damaged"
        BY <1>7, <1>14
      <4>4. Fortunes[j] \in {"pending", "intact", "damaged"}
        BY <1>14 DEF Promise!Fates
      <4>5. QED
        BY <2>1, <4>1, <4>2, <4>3, <4>4
    <3>2. QED
      BY <3>1
  <2>5. Fortunes' = Append(g, f)
    BY <1>1, <1>14, <1>15, <2>3, <2>4, LongerByOne
  <2>6. i \in DOMAIN Fortunes
    BY <1>14
  <2>7. QED
    BY <1>8, <1>10, <1>11, <1>12, <1>13, <2>1, <2>2, <2>5, <2>6 DEF Promise!Spoil
<1>17. CASE \A i \in 1..n : Fortunes[i] # "pending"
  <2>1. ASSUME NEW i \in 1..n
        PROVE  Fortunes'[i] = Fortunes[i]
    <3>1. Fortunes'[i] = IF Fortunes[i] = "intact" THEN "intact" ELSE "damaged"
      BY <1>7, <1>14
    <3>2. Fortunes[i] \in {"pending", "intact", "damaged"} /\ Fortunes[i] # "pending"
      BY <1>14, <1>17 DEF Promise!Fates
    <3>3. QED
      BY <3>1, <3>2
  <2>2. Fortunes' = Append(Fortunes, f)
    BY <1>1, <1>14, <1>15, <2>1, LongerByOne
  <2>3. QED
    BY <1>8, <1>10, <1>11, <1>12, <1>13, <2>2 DEF Promise!Offer
<1>18. QED
  BY <1>16, <1>17


(***************************************************************************)
(* A message is continued.  It was not intact before; others that were     *)
(* pending are damaged, and whatever it becomes, no line carries it yet.   *)
(***************************************************************************)
LEMMA ContinueKeepsPromise ==
  ASSUME PInv, TypeOK', NEW t \in Threads, SendMore(t)
  PROVE  /\ (MessagesAreInOrder /\ LinesAreBehind /\ PassedAreDelivered /\ LastIsKnown)'
         /\ Promise!Resolve
<1>i. IInv /\ TypeOK /\ MessagesAreInPlace /\ CallsAreInOrder
  BY DEF PInv, IInv
<1>k. PICK k \in Taken(calls[t].left) :
        /\ sent' = [sent EXCEPT ![calls[t].msg] = Continued(@, k, k = calls[t].left)]
        /\ Flow(k, k = calls[t].left)
  BY DEF SendMore
<1>q. PICK i, n, left, old, m :
        /\ i = calls[t].msg /\ n = Len(sent) /\ left = calls[t].left
        /\ old = sent[i] /\ m = Continued(old, k, k = left)
  OBVIOUS
<1>p. /\ i = calls[t].msg /\ n = Len(sent) /\ left = calls[t].left
      /\ old = sent[i] /\ m = Continued(old, k, k = left)
      /\ k \in Taken(left) /\ sent' = [sent EXCEPT ![i] = m]
      /\ Flow(k, k = left)
  BY <1>k, <1>q
<1>0. dir' = dir /\ start' = start /\ lines' = lines
  BY DEF SendMore, reader
<1>1. /\ n \in Nat /\ DOMAIN sent = 1..n /\ written \in Nat /\ read \in Nat /\ start \in Nat
      /\ start <= written
  BY <1>i, <1>p, Typed DEF TypeOK
<1>2. /\ i \in 1..n /\ ~old.done /\ left \in Nat /\ left >= 1
  BY <1>i, <1>p, <1>1 DEF CallsAreInOrder, CallInOrder, SendMore, TypeOK, Call
<1>3. k \in Nat \ {0} /\ k <= left
  BY <1>2, <1>p DEF Taken
<1>4. old \in Message /\ Placed(old) /\ old.last \in Nat /\ old.first \in Nat /\ old.last <= written
      /\ old.first <= old.last
  BY <1>i, <1>p, <1>1, <1>2, Typed DEF MessagesAreInPlace, Placed, Message
<1>5. /\ m.size = old.size /\ m.first = old.first /\ m.last = written + k
      /\ (m.done <=> k = left) /\ (m.torn <=> old.torn \/ old.last # written)
      /\ (m.clean <=> old.clean)
  BY <1>p, <1>4 DEF Continued, Message
<1>6. /\ DOMAIN sent' = 1..n /\ Len(sent') = n /\ sent'[i] = m
      /\ \A j \in 1..n : j # i => sent'[j] = sent[j]
  BY <1>i, <1>p, <1>1, <1>2 DEF TypeOK
<1>7. /\ written' = written + k /\ newlines \subseteq newlines'
      /\ k = left => written + k \in newlines'
  BY <1>p DEF Flow
<1>8. ASSUME NEW j \in 1..n, j # i
      PROVE  /\ sent[j] \in Message /\ Placed(sent[j])
             /\ Fate(sent[j])' = IF Fate(sent[j]) = "intact" THEN "intact" ELSE "damaged"
             /\ Intact(sent[j])' <=> Intact(sent[j])
             /\ ~Torn(sent[j])' => ~Torn(sent[j])
  <2>1. j \in DOMAIN sent /\ sent'[j] = sent[j]
    BY <1>1, <1>6, <1>8
  <2>2. sent[j] \in Message /\ Placed(sent[j])
    BY <1>i, <2>1, Typed DEF MessagesAreInPlace
  <2>3. QED
    BY <1>0, <1>3, <1>7, <1>i, <2>1, <2>2, FateOfOthers
<1>9. Torn(sent[i])' <=> old.torn \/ old.last # written
  BY <1>5, <1>6, <1>7 DEF Torn
<1>10. ~Intact(old) /\ (Fate(old) = "damaged" => Fate(sent[i])' = "damaged")
  <2>1. Fate(old) = "damaged" => Damaged(old)
    BY <1>4, FateSays
  <2>2. Damaged(old) => Damaged(sent[i])'
    BY <1>0, <1>2, <1>5, <1>6, <1>9 DEF Damaged, Torn, Room
  <2>3. Damaged(sent[i])' => Fate(sent[i])' = "damaged"
    BY DEF Fate
  <2>4. ~Intact(old)
    BY <1>2 DEF Intact
  <2>5. QED
    BY <2>1, <2>2, <2>3, <2>4
<1>11. MessagesAreInOrder'
  <2>1. ASSUME NEW j \in 1..n
        PROVE  sent'[j].size >= 2 /\ (sent'[j].done => sent'[j].last \in newlines')
    <3>1. CASE j = i
      BY <1>1, <1>2, <1>5, <1>6, <1>7, <1>p, <3>1 DEF PInv, MessagesAreInOrder
    <3>2. CASE j # i
      BY <1>1, <1>6, <1>7, <3>2 DEF PInv, MessagesAreInOrder
    <3>3. QED
      BY <3>1, <3>2
  <2>2. ASSUME NEW h \in 1..n, NEW j \in 1..n, h < j, ~Torn(sent[h])'
        PROVE  sent'[h].last < sent'[j].first
    <3>1. ~Torn(sent[h]) /\ (h = i => old.last = written)
      BY <1>1, <1>2, <1>8, <1>9, <1>p, <2>2 DEF Torn
    <3>2. sent[h].last < sent[j].first
      BY <1>1, <2>2, <3>1 DEF PInv, MessagesAreInOrder
    <3>3. sent[j].first <= written /\ sent[j].first \in Nat
      <4>1. sent[j] \in Message /\ Placed(sent[j])
        BY <1>1, <1>i, Typed DEF MessagesAreInPlace
      <4>2. QED
        BY <1>1, <4>1 DEF Placed, Message
    <3>4. h # i
      BY <1>1, <1>p, <3>1, <3>2, <3>3
    <3>5. sent'[j].first = sent[j].first
      BY <1>5, <1>6, <1>p
    <3>6. QED
      BY <1>6, <3>2, <3>4, <3>5
  <2>3. QED
    BY <1>6, <2>1, <2>2 DEF MessagesAreInOrder
<1>12. Delivered' = Delivered
  <2>1. ASSUME NEW j \in 1..n, j # i
        PROVE  j \in Delivered' <=> j \in Delivered
    BY <1>0, <1>1, <1>6, <1>8, <2>1 DEF Delivered, Carries
  <2>2. i \notin Delivered
    BY <1>10, <1>p DEF Delivered
  <2>3. i \notin Delivered'
    <3>1. \A l \in DOMAIN lines : lines[l].last <= start /\ lines[l].last \in Nat
      <4>1. \A l \in DOMAIN lines : lines[l] \in Line
        BY <1>i DEF TypeOK
      <4>2. QED
        BY <4>1 DEF PInv, LinesAreBehind, Line
    <3>2. \A l \in DOMAIN lines : lines[l].last # written + k
      BY <1>1, <1>3, <3>1
    <3>3. QED
      BY <1>0, <1>5, <1>6, <3>2 DEF Delivered, Carries
  <2>4. Delivered \subseteq 1..n /\ Delivered' \subseteq 1..n
    BY <1>1, <1>6 DEF Delivered
  <2>5. \A j : j \in Delivered' <=> j \in Delivered
    BY <2>1, <2>2, <2>3, <2>4
  <2>6. QED
    BY <2>5
<1>13. LinesAreBehind'
  BY <1>0 DEF PInv, LinesAreBehind
<1>14. PassedAreDelivered'
  <2>1. ASSUME NEW j \in 1..n, Intact(sent[j])', sent'[j].last <= start
        PROVE  j \in Delivered
    <3>1. j # i
      BY <1>1, <1>3, <1>5, <1>6, <2>1
    <3>2. j \in DOMAIN sent /\ Intact(sent[j]) /\ sent[j].last <= start
      BY <1>1, <1>6, <1>8, <2>1, <3>1
    <3>3. QED
      BY <3>2 DEF PInv, PassedAreDelivered
  <2>2. QED
    BY <1>0, <1>6, <1>12, <2>1 DEF PassedAreDelivered
<1>15. LastIsKnown'
  BY <1>12 DEF PInv, LastIsKnown
<1>16. LastDelivered' = LastDelivered
  BY <1>12 DEF LastDelivered
<1>17. /\ DOMAIN Fortunes = 1..n /\ Len(Fortunes) = n /\ Len(Fortunes') = n
       /\ \A j \in 1..n : Fortunes[j] = Fate(sent[j]) /\ Fortunes'[j] = Fate(sent[j])'
       /\ \A j \in 1..n : Fortunes[j] \in {"pending", "intact", "damaged"}
  <2>1. (/\ Fortunes \in [DOMAIN sent -> Promise!Fates]
         /\ \A l \in DOMAIN sent : Fortunes[l] = Fate(sent[l]))'
    BY FortunesTypedNext
  <2>2. Len(Fortunes') = n
    BY <1>1, <1>6, <2>1
  <2>3. QED
    BY <1>1, <1>6, <1>i, <1>p, <2>1, <2>2, FortunesTyped DEF Promise!Fates
<1>18. ASSUME NEW j \in 1..n
       PROVE  Fortunes'[j] = Fortunes[j] \/ Fortunes[j] = "pending"
  <2>1. CASE j = i
    <3>1. Fortunes[j] # "intact"
      BY <1>4, <1>10, <1>17, <1>p, <2>1, FateSays
    <3>2. QED
      BY <1>10, <1>17, <1>p, <2>1, <3>1
  <2>2. CASE j # i
    BY <1>8, <1>17, <2>2
  <2>3. QED
    BY <2>1, <2>2
<1>19. QED
  BY <1>11, <1>13, <1>14, <1>15, <1>16, <1>17, <1>18 DEF Promise!Resolve


(***************************************************************************)
(* A line is taken.  If it ends where an intact message ends it is that    *)
(* message, and the next to be delivered: an intact one before it ends in  *)
(* a newline, which was the end of an earlier line.                        *)
(***************************************************************************)
LEMMA LineKeepsPromise ==
  ASSUME PInv, TypeOK', TakeLine
  PROVE  /\ (MessagesAreInOrder /\ LinesAreBehind /\ PassedAreDelivered /\ LastIsKnown)'
         /\ Promise!Deliver \/ UNCHANGED Promise!vars
<1>i. IInv /\ TypeOK /\ MessagesAreInPlace /\ MessagesAreInOrder
  BY DEF PInv, IInv
<1>1. PICK p \in Ends : /\ \A q \in Ends : p <= q
                        /\ start' = After(p)
                        /\ lines' = IF p = start + 1 THEN lines
                                    ELSE Append(lines, [first |-> start + 1, last |-> p])
  BY DEF TakeLine
<1>2. UNCHANGED <<dir, sent, written, newlines, read>>
  BY DEF TakeLine, writer
<1>3. /\ start' = p /\ start < p /\ p <= read /\ p \in newlines /\ p \in Nat /\ start \in Nat
      /\ read \in Nat /\ written \in Nat /\ p <= written
  <2>1. start' = p /\ start < p /\ p <= read /\ p \in newlines
    BY <1>1 DEF Ends, After
  <2>2. /\ newlines \subseteq 1..written /\ read <= written
        /\ read \in Nat /\ written \in Nat /\ start \in Nat
    BY <1>i, Typed
  <2>3. QED
    BY <2>1, <2>2
<1>4. \A i \in DOMAIN sent :
        /\ Intact(sent[i])' <=> Intact(sent[i])
        /\ Torn(sent[i])' <=> Torn(sent[i])
        /\ Fate(sent[i])' = Fate(sent[i])
  BY <1>2 DEF Intact, Torn, Fate, Damaged, Room
<1>5. ASSUME NEW i \in DOMAIN sent, Intact(sent[i])
      PROVE  /\ sent[i] \in Message /\ Placed(sent[i]) /\ sent[i].last \in newlines
             /\ sent[i].first \in Nat /\ sent[i].last \in Nat /\ sent[i].first <= sent[i].last
             /\ sent[i].last - sent[i].first + 1 >= 2
             /\ ~Torn(sent[i]) /\ sent[i].done
  <2>1. sent[i] \in Message /\ Placed(sent[i])
    BY <1>i, Typed DEF MessagesAreInPlace
  <2>2. ~Torn(sent[i]) /\ sent[i].done
    BY <1>5, <2>1, FateSays
  <2>3. sent[i].last - sent[i].first + 1 = sent[i].size
    BY <2>1, <2>2 DEF Placed
  <2>4. sent[i].size >= 2 /\ sent[i].last \in newlines
    BY <1>i, <2>2 DEF MessagesAreInOrder
  <2>5. QED
    BY <2>1, <2>2, <2>3, <2>4 DEF Placed, Message
<1>6. ASSUME NEW i \in DOMAIN sent, Intact(sent[i]), start < sent[i].last, sent[i].last <= p
      PROVE  sent[i].last = p
  <2>1. sent[i].last \in Ends
    BY <1>3, <1>5, <1>6 DEF Ends
  <2>2. QED
    BY <1>1, <1>3, <1>5, <1>6, <2>1
<1>7. ASSUME NEW i \in DOMAIN sent, Intact(sent[i]), sent[i].last = p
      PROVE  /\ p # start + 1
             /\ \E n \in DOMAIN lines' : Carries(lines'[n], sent[i])
  <2>1. sent[i].first = start + 1
    BY <1>1, <1>7, <1>i, LineIsMessage
  <2>2. p # start + 1
    BY <1>3, <1>5, <1>7, <2>1
  <2>3. PICK line : line = [first |-> start + 1, last |-> p]
    OBVIOUS
  <2>4. line \in Line /\ line.first = start + 1 /\ line.last = p
    BY <1>3, <2>3 DEF Line
  <2>5. lines' = Append(lines, line)
    BY <1>1, <2>2, <2>3
  <2>6. Len(lines) + 1 \in DOMAIN lines' /\ lines'[Len(lines) + 1] = line
    BY <1>i, <2>4, <2>5 DEF TypeOK
  <2>7. QED
    BY <1>7, <2>1, <2>2, <2>4, <2>6 DEF Carries
<1>8. /\ DOMAIN lines \subseteq DOMAIN lines'
      /\ \A n \in DOMAIN lines : lines'[n] = lines[n] /\ lines[n] \in Line
      /\ \A n \in DOMAIN lines' : n \in DOMAIN lines \/ lines'[n].last = p
  <2>1. \A n \in DOMAIN lines : lines[n] \in Line
    BY <1>i DEF TypeOK
  <2>2. CASE p = start + 1
    BY <1>1, <2>1, <2>2
  <2>3. CASE p # start + 1
    <3>1. PICK line : line = [first |-> start + 1, last |-> p]
      OBVIOUS
    <3>2. line \in Line /\ line.last = p /\ lines' = Append(lines, line)
      BY <1>1, <1>3, <2>3, <3>1 DEF Line
    <3>3. /\ Len(lines) \in Nat /\ DOMAIN lines = 1..Len(lines)
          /\ DOMAIN lines' = 1..(Len(lines) + 1) /\ lines'[Len(lines) + 1] = line
          /\ \A n \in 1..Len(lines) : lines'[n] = lines[n]
      BY <1>i, <3>2 DEF TypeOK
    <3>4. \A n \in 1..(Len(lines) + 1) : n \in 1..Len(lines) \/ n = Len(lines) + 1
      BY <3>3
    <3>5. QED
      BY <2>1, <3>2, <3>3, <3>4
  <2>4. QED
    BY <2>2, <2>3
<1>9. LinesAreBehind'
  <2>1. \A n \in DOMAIN lines : lines[n].last <= start /\ lines[n].last \in Nat
    BY <1>8 DEF PInv, LinesAreBehind, Line
  <2>2. QED
    BY <1>3, <1>8, <2>1 DEF LinesAreBehind
<1>10. Delivered \subseteq Delivered'
  BY <1>2, <1>4, <1>8 DEF Delivered, Carries
<1>11. PassedAreDelivered'
  <2>1. ASSUME NEW i \in DOMAIN sent, Intact(sent[i]), sent[i].last <= p
        PROVE  i \in Delivered'
    <3>1. CASE sent[i].last <= start
      BY <1>10, <2>1, <3>1 DEF PInv, PassedAreDelivered
    <3>2. CASE start < sent[i].last
      <4>1. \E n \in DOMAIN lines' : Carries(lines'[n], sent[i])
        BY <1>6, <1>7, <2>1, <3>2
      <4>2. QED
        BY <1>2, <1>4, <2>1, <4>1 DEF Delivered, Carries
    <3>3. QED
      BY <1>3, <1>5, <2>1, <3>1, <3>2
  <2>2. QED
    BY <1>2, <1>3, <1>4, <2>1 DEF PassedAreDelivered
<1>12. MessagesAreInOrder'
  BY <1>2, <1>4, <1>i DEF MessagesAreInOrder
<1>13. Delivered = {i \in DOMAIN sent : Intact(sent[i]) /\ sent[i].last <= start}
  BY DeliveredIs DEF PInv
<1>14. Delivered' = {i \in DOMAIN sent : Intact(sent[i]) /\ sent[i].last <= p}
  <2>1. (Delivered = {i \in DOMAIN sent : Intact(sent[i]) /\ sent[i].last <= start})'
    BY <1>9, <1>11, DeliveredIs, PTL
  <2>2. QED
    BY <1>2, <1>3, <1>4, <2>1
<1>15. Fortunes' = Fortunes
  BY <1>2, <1>4 DEF Fortunes
<1>16. CASE \A i \in DOMAIN sent : Intact(sent[i]) => sent[i].last # p
  <2>1. \A i \in DOMAIN sent : Intact(sent[i]) => (sent[i].last <= p <=> sent[i].last <= start)
    BY <1>3, <1>5, <1>6, <1>16
  <2>2. Delivered' = Delivered
    BY <1>13, <1>14, <2>1
  <2>3. LastIsKnown' /\ LastDelivered' = LastDelivered
    BY <2>2 DEF PInv, LastIsKnown, LastDelivered
  <2>4. QED
    BY <1>9, <1>11, <1>12, <1>15, <2>3 DEF Promise!vars
<1>17. CASE \E i \in DOMAIN sent : Intact(sent[i]) /\ sent[i].last = p
  <2>1. PICK i \in DOMAIN sent : Intact(sent[i]) /\ sent[i].last = p
    BY <1>17
  <2>2. DOMAIN sent \subseteq Nat /\ i \in Nat
    <3>1. DOMAIN sent = 1..Len(sent) /\ Len(sent) \in Nat
      BY <1>i, FortunesTyped
    <3>2. QED
      BY <3>1
  <2>3. ASSUME NEW j \in DOMAIN sent, Intact(sent[j]), sent[j].last <= p
        PROVE  j = i \/ (j < i /\ sent[j].last <= start)
    <3>1. CASE j < i
      <4>1. sent[j].last < sent[i].first
        BY <1>5, <1>i, <2>3, <3>1 DEF MessagesAreInOrder
      <4>2. sent[j].last # p
        BY <1>5, <2>1, <2>3, <4>1
      <4>3. ~(start < sent[j].last)
        BY <1>6, <2>3, <4>2
      <4>4. QED
        BY <1>3, <1>5, <2>3, <3>1, <4>3
    <3>2. CASE i < j
      <4>1. sent[i].last < sent[j].first
        BY <1>5, <1>i, <2>1, <3>2 DEF MessagesAreInOrder
      <4>2. QED
        BY <1>3, <1>5, <2>1, <2>3, <4>1
    <3>3. QED
      BY <2>2, <3>1, <3>2
  <2>4. i \in Delivered' /\ \A j \in Delivered' : j = i \/ (j \in Delivered /\ j < i)
    BY <1>3, <1>13, <1>14, <2>1, <2>3
  <2>5. \A j \in Delivered : j < i
    <3>1. i \notin Delivered
      BY <1>3, <1>13, <2>1
    <3>2. QED
      BY <1>10, <2>4, <3>1
  <2>6. LastIsKnown' /\ LastDelivered' = i
    <3>1. \A j \in Delivered' : j <= i /\ j \in Nat
      BY <2>2, <2>4, <1>13
    <3>2. \A l \in Delivered' : (\A j \in Delivered' : j <= l) => l = i
      BY <2>2, <2>4, <3>1
    <3>3. LastIsKnown'
      BY <2>4, <3>1 DEF LastIsKnown
    <3>4. LastDelivered' = CHOOSE l \in Delivered' : \A j \in Delivered' : j <= l
      BY <2>4 DEF LastDelivered
    <3>5. QED
      BY <2>4, <3>1, <3>2, <3>3, <3>4
  <2>7. LastDelivered < i /\ \A j \in Delivered : j <= LastDelivered
    <3>1. CASE Delivered = {}
      <4>1. LastDelivered = 0 /\ i \in 1..Len(sent)
        BY <1>i, <3>1 DEF LastDelivered, TypeOK
      <4>2. QED
        BY <2>2, <3>1, <4>1
    <3>2. CASE Delivered # {}
      <4>1. \E l \in Delivered : \A j \in Delivered : j <= l
        BY <3>2 DEF PInv, LastIsKnown
      <4>2. LastDelivered = CHOOSE l \in Delivered : \A j \in Delivered : j <= l
        BY <3>2 DEF LastDelivered
      <4>3. LastDelivered \in Delivered /\ \A j \in Delivered : j <= LastDelivered
        BY <4>1, <4>2
      <4>4. QED
        BY <2>5, <4>3
    <3>3. QED
      BY <3>1, <3>2
  <2>8. \A j \in DOMAIN sent : Fortunes[j] = Fate(sent[j]) /\ DOMAIN Fortunes = DOMAIN sent
    BY <1>i, FortunesTyped
  <2>9. Fortunes[i] = "intact"
    <3>1. Fate(sent[i]) = "intact"
      BY <1>5, <2>1, FateSays
    <3>2. QED
      BY <2>8, <3>1
  <2>10. ASSUME NEW j \in DOMAIN sent, LastDelivered < j, j < i
         PROVE  Fortunes[j] = "damaged"
    <3>1. sent[j] \in Message
      BY <1>i, Typed
    <3>2. Fate(sent[j]) # "intact"
      <4>1. ASSUME Intact(sent[j])
            PROVE  FALSE
        <5>1. sent[j].last < sent[i].first
          BY <1>5, <1>i, <2>10, <4>1 DEF MessagesAreInOrder
        <5>2. sent[j].last <= p
          BY <1>3, <1>5, <2>1, <4>1, <5>1
        <5>3. j # i
          BY <2>2, <2>10
        <5>4. j \in Delivered
          BY <1>13, <2>3, <4>1, <5>2, <5>3
        <5>5. LastDelivered \in Nat
          <6>1. \A l \in Delivered : l \in Nat
            BY <1>13, <2>2
          <6>2. \E l \in Delivered : \A h \in Delivered : h <= l
            BY <5>4 DEF PInv, LastIsKnown
          <6>3. LastDelivered = CHOOSE l \in Delivered : \A h \in Delivered : h <= l
            BY <5>4 DEF LastDelivered
          <6>4. QED
            BY <6>1, <6>2, <6>3
        <5>6. QED
          BY <2>2, <2>7, <2>10, <5>4, <5>5
      <4>2. QED
        BY <3>1, <4>1, FateSays
    <3>3. Fate(sent[j]) # "pending"
      <4>1. ASSUME ~sent[j].done, ~Torn(sent[j])
            PROVE  FALSE
        <5>1. sent[j].last = written
          BY <4>1 DEF Torn
        <5>2. sent[j].last < sent[i].first
          BY <1>i, <2>10, <4>1 DEF MessagesAreInOrder
        <5>3. QED
          BY <1>3, <1>5, <2>1, <5>1, <5>2
      <4>2. QED
        BY <3>1, <4>1, FateSays
    <3>4. QED
      BY <2>8, <3>1, <3>2, <3>3, FateSays
  <2>11. Promise!Deliver
    BY <1>15, <2>1, <2>6, <2>7, <2>8, <2>9, <2>10 DEF Promise!Deliver
  <2>12. QED
    BY <1>9, <1>11, <1>12, <2>6, <2>11
<1>18. QED
  BY <1>16, <1>17


(***************************************************************************)
(* The reader does something else, or nobody does anything: nothing is     *)
(* promised, and nothing is lost.  An emptied buffer held no intact one.   *)
(***************************************************************************)
LEMMA OthersKeepPromise ==
  ASSUME PInv, TypeOK',
         UNCHANGED <<dir, sent, written, newlines, lines>>,
         start' = start \/ (dir = "down" /\ Split /\ start' = Kept)
  PROVE  /\ (MessagesAreInOrder /\ LinesAreBehind /\ PassedAreDelivered /\ LastIsKnown)'
         /\ UNCHANGED Promise!vars
<1>i. IInv /\ TypeOK /\ MessagesAreInPlace
  BY DEF PInv, IInv
<1>1. \A i \in DOMAIN sent :
        /\ Intact(sent[i])' <=> Intact(sent[i])
        /\ Torn(sent[i])' <=> Torn(sent[i])
        /\ Fate(sent[i])' = Fate(sent[i])
  BY DEF Intact, Torn, Fate, Damaged, Room
<1>2. MessagesAreInOrder'
  BY <1>1 DEF PInv, MessagesAreInOrder
<1>3. Delivered' = Delivered
  BY <1>1 DEF Delivered, Carries
<1>4. Fortunes' = Fortunes /\ LastDelivered' = LastDelivered /\ LastIsKnown'
  BY <1>1, <1>3 DEF PInv, Fortunes, LastDelivered, LastIsKnown
<1>5. start <= start' /\ start \in Nat /\ start' \in Nat /\ read \in Nat /\ start <= read
  BY <1>i, Typed DEF Kept
<1>6. LinesAreBehind'
  <2>1. \A n \in DOMAIN lines : lines[n].last <= start /\ lines[n] \in Line
    BY <1>i DEF PInv, LinesAreBehind, TypeOK
  <2>2. \A n \in DOMAIN lines : lines[n].last <= start'
    BY <1>5, <2>1 DEF Line
  <2>3. QED
    BY <2>2 DEF LinesAreBehind
<1>7. ASSUME NEW i \in DOMAIN sent, Intact(sent[i]), sent[i].last <= start'
      PROVE  sent[i].last <= start
  <2>1. CASE start' = start
    BY <1>7, <2>1
  <2>2. CASE Split /\ start' = read
    <3>1. sent[i] \in Message /\ sent[i].done
      BY <1>7, <1>i, Typed, FateSays
    <3>2. sent[i].last \in newlines
      BY <3>1 DEF PInv, MessagesAreInOrder
    <3>3. ~(start < sent[i].last /\ sent[i].last <= read)
      BY <2>2, <3>2 DEF Split, Ends
    <3>4. QED
      BY <1>5, <1>7, <2>2, <3>1, <3>3 DEF Message
  <2>3. QED
    BY <2>1, <2>2 DEF Kept
<1>8. PassedAreDelivered'
  BY <1>1, <1>3, <1>7 DEF PInv, PassedAreDelivered
<1>9. QED
  BY <1>2, <1>4, <1>6, <1>8 DEF Promise!vars

(***************************************************************************)
(* Every step keeps the invariant, and is one of Channel or none.          *)
(***************************************************************************)
LEMMA StepKeepsPromise ==
  ASSUME PInv, [Next]_vars
  PROVE  PInv' /\ [Promise!Next]_(Promise!vars)
<1>0. IInv /\ IInv' /\ TypeOK'
  <2>1. IInv
    BY DEF PInv
  <2>2. IInv'
    BY <2>1, NextIInv
  <2>3. QED
    BY <2>1, <2>2 DEF IInv
<1> SUFFICES /\ (MessagesAreInOrder /\ LinesAreBehind /\ PassedAreDelivered /\ LastIsKnown)'
             /\ [Promise!Next]_(Promise!vars)
  BY <1>0 DEF PInv
<1>1. ASSUME NEW size \in Sizes, NEW k \in 1..size,
             sent' = Append(sent, Begun(size, k)), Flow(k, k = size), UNCHANGED <<dir, reader>>
      PROVE  /\ (MessagesAreInOrder /\ LinesAreBehind /\ PassedAreDelivered /\ LastIsKnown)'
             /\ [Promise!Next]_(Promise!vars)
  <2>1. size \in Nat \ {0, 1}
    BY WireAssumption
  <2>2. QED
    BY <1>0, <1>1, <2>1, BeginKeepsPromise DEF Promise!Next
<1>2. ASSUME NEW size \in Sizes, SendToClient(size)
      PROVE  /\ (MessagesAreInOrder /\ LinesAreBehind /\ PassedAreDelivered /\ LastIsKnown)'
             /\ [Promise!Next]_(Promise!vars)
  <2>1. PICK k \in Taken(Fitted(size)) :
          sent' = Append(sent, Begun(size, k)) /\ Flow(k, k = size)
    BY <1>2 DEF SendToClient
  <2>2. UNCHANGED <<dir, reader>>
    BY <1>2 DEF SendToClient
  <2>3. k \in 1..size
    BY WireAssumption DEF Taken, Fitted, Smaller
  <2>4. QED
    BY <1>1, <2>1, <2>2, <2>3
<1>3. ASSUME NEW t \in Threads, NEW size \in Sizes, ClientSendJson(t, size)
      PROVE  /\ (MessagesAreInOrder /\ LinesAreBehind /\ PassedAreDelivered /\ LastIsKnown)'
             /\ [Promise!Next]_(Promise!vars)
  <2>1. PICK k \in Taken(size) : sent' = Append(sent, Begun(size, k)) /\ Flow(k, k = size)
    BY <1>3 DEF ClientSendJson
  <2>2. UNCHANGED <<dir, reader>>
    BY <1>3 DEF ClientSendJson
  <2>3. k \in 1..size
    BY WireAssumption DEF Taken
  <2>4. QED
    BY <1>1, <2>1, <2>2, <2>3
<1>4. ASSUME NEW t \in Threads, SendMore(t)
      PROVE  /\ (MessagesAreInOrder /\ LinesAreBehind /\ PassedAreDelivered /\ LastIsKnown)'
             /\ [Promise!Next]_(Promise!vars)
  BY <1>0, <1>4, ContinueKeepsPromise DEF Promise!Next
<1>5. CASE TakeLine
  BY <1>0, <1>5, LineKeepsPromise DEF Promise!Next
<1>6. CASE ServerReads \/ PageReads \/ PageLeaves
  <2>1. UNCHANGED <<dir, sent, written, newlines, lines>>
    BY <1>6 DEF ServerReads, Wake, HandleClientRead, ReadNothing, ReadOverflow, PageReads,
                ProcessMessages, ProcessNothing, PageLeaves, writer, reader
  <2>2. start' = start \/ (dir = "down" /\ Split /\ start' = Kept)
    BY <1>6 DEF ServerReads, Wake, HandleClientRead, ReadNothing, ReadOverflow, PageReads,
                ProcessMessages, ProcessNothing, PageLeaves, Polling, reader
  <2>3. QED
    BY <1>0, <2>1, <2>2, OthersKeepPromise
<1>7. ASSUME \/ \E t \in Threads : SendLater(t) \/ SendFails(t)
             \/ Close
             \/ UNCHANGED vars
      PROVE  /\ (MessagesAreInOrder /\ LinesAreBehind /\ PassedAreDelivered /\ LastIsKnown)'
             /\ [Promise!Next]_(Promise!vars)
  <2>1. UNCHANGED <<dir, sent, written, newlines, lines, start>>
    BY <1>7 DEF SendLater, SendFails, Close, vars, writer, reader
  <2>2. QED
    BY <1>0, <2>1, OthersKeepPromise
<1>8. QED
  BY <1>2, <1>3, <1>4, <1>5, <1>6, <1>7 DEF Next

LEMMA InitKeepsPromise == Init => PInv /\ Promise!Init
<1> SUFFICES ASSUME Init PROVE PInv /\ Promise!Init
  OBVIOUS
<1>1. sent = << >> /\ lines = << >> /\ DOMAIN sent = {} /\ DOMAIN lines = {}
  BY DEF Init
<1>2. Delivered = {} /\ LastDelivered = 0
  BY <1>1 DEF Delivered, LastDelivered
<1>3. Fortunes = << >>
  BY <1>1 DEF Fortunes
<1>4. MessagesAreInOrder /\ LinesAreBehind /\ PassedAreDelivered /\ LastIsKnown
  BY <1>1, <1>2 DEF MessagesAreInOrder, LinesAreBehind, PassedAreDelivered, LastIsKnown
<1>5. QED
  BY <1>2, <1>3, <1>4, InitIInv DEF PInv, Promise!Init

(***************************************************************************)
(* The stream implements Channel: what was written whole and at the start  *)
(* of a line is handed on once, in its turn, and none is passed over.      *)
(***************************************************************************)
THEOREM PromiseIsKept == Spec => KeepsPromise
<1>1. PInv /\ [Next]_vars => PInv' /\ [Promise!Next]_(Promise!vars)
  BY StepKeepsPromise
<1>2. QED
  BY <1>1, InitKeepsPromise, PTL DEF Spec, KeepsPromise, Promise!Spec
================================================================================
