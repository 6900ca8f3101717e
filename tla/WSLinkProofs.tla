---------------------------- MODULE WSLinkProofs ----------------------------
(***************************************************************************)
(* Theorems of WSLink, for every choice of its constants and every order   *)
(* in which the tasks of a peer are resumed: type correctness, with a      *)
(* window that never closes; the sender's accounts and its send times; the *)
(* genuineness of every frame; and, while no file is resumed, that no      *)
(* answer goes unnoticed.                                                  *)
(***************************************************************************)
EXTENDS WSLink, LinkPacketsProofs

-----------------------------------------------------------------------------
(***************************************************************************)
(* The inductive invariant, in the parts that actions disturb separately.  *)
(***************************************************************************)
\* The batch index counts the files already closed, the queue holds the rest in order, and
\* only blocks of the current file that were sent are unacknowledged.
Books(p, s) ==
  LET taken == s.batch + (IF s.cur = None THEN 0 ELSE 1) IN
  /\ taken + Len(s.queue) = Len(Queue[p])
  /\ \A i \in 1..Len(s.queue) : s.queue[i] = Queue[p][taken + i]
  /\ s.cur = None => s.unacked = {}
  /\ s.cur # None => s.cur = Queue[p][s.batch + 1] /\ s.total = Blocks(s.cur)
  /\ IsFiniteSet(s.unacked) /\ s.unacked \subseteq s.timed
  /\ \A k \in s.unacked : k < s.next /\ k < s.total

\* What the send task may rely on after the await at which it stands, whatever the other
\* task has done in the meantime.
Relies(place, s) ==
  /\ place \in {"opening", "ending"} => s.cur = None
  /\ place = "opening" => s.queue # <<>>
  /\ place \in {"resent", "flushed", "closing"} => s.cur # None
  /\ place = "closing" => s.unacked = {}

Places == {"wait", "opening", "resent", "flushed", "closing", "ending"}

LinkOK ==
  /\ buf \in [Peers -> Seq(Frames)] /\ wire \in [Peers -> Seq(Frames)]
  /\ \A p \in Peers : buf[p] \in Seq(Wire(p)) /\ wire[p] \in Seq(Wire(p))
SndOK ==
  /\ snd \in [Peers -> Senders] /\ sending \in [Peers -> Places]
  /\ \A p \in Peers : Books(p, snd[p]) /\ Relies(sending[p], snd[p])
RecvOK ==
  /\ rcv \in [Peers -> Receivers] /\ receiving \in [Peers -> {"read", "reply", "verify"}]
  /\ disk \in [Peers -> [Names -> Seq(Unit) \cup {Absent}]]
  /\ \A p \in Peers : rcv[p].fd # None => disk[p][rcv[p].fd] # Absent
  /\ \A p \in Peers : receiving[p] = "verify" =>
       rcv[p].file # None /\ disk[p][rcv[p].file] # Absent
StateOK ==
  /\ state \in [Peers -> {"INIT", "TRANSFERRING", "DONE"}]
  /\ event \in [Peers -> BOOLEAN]
  /\ reported \in [Peers -> SUBSET Files]
BudgetsOK ==
  /\ losses \in 0..MaxLosses /\ early \in 0..MaxEarly
  /\ reconnects \in 0..MaxReconnects

Inv == LinkOK /\ SndOK /\ RecvOK /\ StateOK /\ BudgetsOK

\* Each OPEN or DATA frame on its way, and each one buffered, is the one that its batch and
\* block numbers stand for.
GenuineFrames ==
  \A p \in Peers : /\ \A i \in 1..Len(wire[p]) : Genuine(p, wire[p][i])
                   /\ \A i \in 1..Len(buf[p]) : Genuine(p, buf[p][i])
SenderAccounts == \A p \in Peers : Books(p, snd[p])

\* The invariant implies what the theorems state.
LEMMA InvImplies == Inv => TypeOK /\ SenderAccounts /\ UnackedIsTimed /\ GenuineFrames
<1>1. Inv => TypeOK
  BY DEF Inv, LinkOK, SndOK, RecvOK, StateOK, BudgetsOK, TypeOK, Places
<1>2. Inv => SenderAccounts /\ UnackedIsTimed
  BY DEF Inv, SndOK, SenderAccounts, UnackedIsTimed, Books
<1>3. ASSUME Inv PROVE GenuineFrames
  <2>1. SUFFICES ASSUME NEW p \in Peers
                 PROVE  /\ \A i \in 1..Len(wire[p]) : Genuine(p, wire[p][i])
                        /\ \A i \in 1..Len(buf[p]) : Genuine(p, buf[p][i])
    BY DEF GenuineFrames
  <2>2. wire[p] \in Seq(Wire(p)) /\ buf[p] \in Seq(Wire(p))
    BY <1>3 DEF Inv, LinkOK
  <2>3. \A q \in Seq(Wire(p)) : \A i \in 1..Len(q) : q[i] \in Wire(p)
    BY ElementOfSeq
  <2> QED  BY <2>2, <2>3 DEF Wire
<1> QED  BY <1>1, <1>2, <1>3

\* A part whose variables do not change is kept.
LEMMA Kept ==
  ASSUME Inv
  PROVE  /\ UNCHANGED links => LinkOK'
         /\ UNCHANGED <<sending, snd>> => SndOK'
         /\ UNCHANGED <<receiving, rcv, disk>> => RecvOK'
         /\ UNCHANGED <<state, event, reported>> => StateOK'
         /\ UNCHANGED budgets => BudgetsOK'
BY DEF Inv, links, LinkOK, SndOK, RecvOK, StateOK, BudgetsOK, budgets

\* What a peer writes is added to frames that are already its own.
LEMMA WriteOK ==
  ASSUME LinkOK, NEW p \in Peers, NEW frames \in Seq(Wire(p)), Write(p, frames),
         buf' = buf \/ buf' = [buf EXCEPT ![p] = <<>>]
  PROVE  LinkOK'
<1>1. wire[p] \o frames \in Seq(Wire(p)) /\ <<>> \in Seq(Wire(p)) /\ <<>> \in Seq(Frames)
  BY ConcatProperties, EmptySeq DEF LinkOK
<1>2. Seq(Wire(p)) \subseteq Seq(Frames)
  BY SeqMonotonic DEF Wire
<1>3. wire' = [wire EXCEPT ![p] = wire[p] \o frames]
  BY DEF Write
<1> DEFINE w == wire[p] \o frames
<1> HIDE DEF w
<1>4. wire' = [wire EXCEPT ![p] = w] /\ w \in Seq(Wire(p)) /\ w \in Seq(Frames)
  BY <1>1, <1>2, <1>3 DEF w
<1>5. wire' \in [Peers -> Seq(Frames)] /\ \A q \in Peers : wire'[q] \in Seq(Wire(q))
  BY <1>4 DEF LinkOK
<1>6. buf' \in [Peers -> Seq(Frames)] /\ \A q \in Peers : buf'[q] \in Seq(Wire(q))
  BY <1>1 DEF LinkOK
<1> QED  BY <1>5, <1>6 DEF LinkOK

\* Taking a frame off the link and writing an answer: the frame was genuine.
LEMMA AnswerOK ==
  ASSUME LinkOK, NEW p \in Peers, wire[Other(p)] # <<>>, NEW frames \in Seq(Wire(p)),
         wire' = [wire EXCEPT ![Other(p)] = Tail(@), ![p] = @ \o frames], UNCHANGED buf
  PROVE  LinkOK' /\ Packet(p) \in Frames /\ Genuine(Other(p), Packet(p))
<1> DEFINE q == Other(p)
           t == Tail(wire[q])
           w == wire[p] \o frames
<1>1. q \in Peers /\ q # p
  BY OtherPeer
<1>2. Head(wire[q]) \in Wire(q) /\ t \in Seq(Wire(q))
  BY <1>1, HeadTailProperties DEF LinkOK
<1>3. w \in Seq(Wire(p))
  BY ConcatProperties DEF LinkOK
<1>4. Seq(Wire(p)) \subseteq Seq(Frames) /\ Seq(Wire(q)) \subseteq Seq(Frames)
  BY SeqMonotonic DEF Wire
<1>5. wire' = [wire EXCEPT ![q] = t, ![p] = w]
  BY <1>1 DEF LinkOK
<1>6. Packet(p) = Head(wire[q])
  BY DEF Packet
<1> HIDE DEF q, t, w
<1>7. wire' \in [Peers -> Seq(Frames)] /\ \A x \in Peers : wire'[x] \in Seq(Wire(x))
  BY <1>1, <1>2, <1>3, <1>4, <1>5 DEF LinkOK
<1> QED  BY <1>2, <1>6, <1>7 DEF LinkOK, Wire, q

\* The same without an answer.
LEMMA NoAnswerOK ==
  ASSUME LinkOK, NEW p \in Peers, wire[Other(p)] # <<>>, NoAnswer(p)
  PROVE  LinkOK' /\ Packet(p) \in Frames /\ Genuine(Other(p), Packet(p))
<1> DEFINE q == Other(p)
           t == Tail(wire[q])
<1>1. q \in Peers /\ q # p
  BY OtherPeer
<1>2. Head(wire[q]) \in Wire(q) /\ t \in Seq(Wire(q))
  BY <1>1, HeadTailProperties DEF LinkOK
<1>3. Seq(Wire(q)) \subseteq Seq(Frames)
  BY SeqMonotonic DEF Wire
<1>4. wire' = [wire EXCEPT ![q] = t] /\ buf' = buf
  BY DEF NoAnswer
<1>5. Packet(p) = Head(wire[q])
  BY DEF Packet
<1> HIDE DEF q, t
<1>6. wire' \in [Peers -> Seq(Frames)] /\ \A x \in Peers : wire'[x] \in Seq(Wire(x))
  BY <1>1, <1>2, <1>3, <1>4 DEF LinkOK
<1> QED  BY <1>2, <1>4, <1>5, <1>6 DEF LinkOK, Wire, q

\* A new state of one sender whose accounts balance keeps all of them balanced.
LEMMA SndUpdate ==
  ASSUME SndOK, NEW p \in Peers, NEW s \in Senders, NEW place \in Places,
         Books(p, s), Relies(place, s),
         snd' = [snd EXCEPT ![p] = s], sending' = [sending EXCEPT ![p] = place]
  PROVE  SndOK'
<1>1. snd' \in [Peers -> Senders] /\ sending' \in [Peers -> Places]
  BY DEF SndOK
<1>2. \A q \in Peers : /\ snd'[q] = IF q = p THEN s ELSE snd[q]
                       /\ sending'[q] = IF q = p THEN place ELSE sending[q]
  BY DEF SndOK
<1>3. \A q \in Peers : Books(q, snd'[q]) /\ Relies(sending'[q], snd'[q])
  BY <1>2 DEF SndOK
<1> QED  BY <1>1, <1>3 DEF SndOK

-----------------------------------------------------------------------------
(***************************************************************************)
(* The stretches of _pump_sender().                                        *)
(***************************************************************************)
\* Popping the next file into current_file.
LEMMA OpenedOK ==
  ASSUME NEW p \in Peers, NEW s \in Senders, Books(p, s), Relies("opening", s)
  PROVE  Opened(s) \in Senders /\ Books(p, Opened(s)) /\ Opened(s).cur # None
<1> DEFINE h == Head(s.queue)
           q == Tail(s.queue)
           n == Blocks(h)
           o == [s EXCEPT !.queue = q, !.cur = h, !.total = n, !.next = 0,
                          !.unacked = {}, !.timed = {}]
<1>1. Opened(s) = o
  BY DEF Opened
<1>2. /\ s.queue \in Seq(Files) /\ s.queue # <<>> /\ s.cur = None /\ s.batch \in Nat
      /\ s.sentZ \in BOOLEAN /\ s.oldest \in Nat /\ s.window \in Nat \ {0}
  BY DEF Senders, Relies
<1>3. /\ h \in Files /\ h = s.queue[1] /\ q \in Seq(Files) /\ Len(q) = Len(s.queue) - 1
      /\ \A i \in 1..Len(q) : q[i] = s.queue[i + 1]
  BY <1>2, HeadTailProperties
<1>4. n = Blocks(h) /\ n \in Nat /\ h # None
  BY <1>3, BlocksType, FilesAssumption
<1> HIDE DEF h, q, n
<1>5. /\ o \in Senders /\ o.queue = q /\ o.cur = h /\ o.total = n /\ o.next = 0
      /\ o.unacked = {} /\ o.timed = {} /\ o.batch = s.batch
  BY <1>2, <1>3, <1>4 DEF Senders
<1> HIDE DEF o
<1>6. /\ s.batch + Len(s.queue) = Len(Queue[p])
      /\ \A i \in 1..Len(s.queue) : s.queue[i] = Queue[p][s.batch + i]
  BY <1>2 DEF Books
<1>7. Len(s.queue) \in Nat /\ Len(s.queue) > 0
  BY <1>2
<1>8. s.batch + 1 + Len(q) = Len(Queue[p])
  <2>1. s.batch + 1 + (Len(s.queue) - 1) = s.batch + Len(s.queue)
    BY <1>2, <1>7
  <2>2. Len(q) = Len(s.queue) - 1 /\ s.batch + Len(s.queue) = Len(Queue[p])
    BY <1>3, <1>6
  <2> QED  BY <2>1, <2>2
<1>9. ASSUME NEW i \in 1..Len(q)
      PROVE  q[i] = Queue[p][s.batch + 1 + i]
  <2>1. i + 1 \in 1..Len(s.queue) /\ i \in Nat
    BY <1>3, <1>7
  <2>2. q[i] = Queue[p][s.batch + (i + 1)]
    BY <1>3, <1>6, <2>1
  <2> QED  BY <1>2, <2>1, <2>2
<1>10. h = Queue[p][s.batch + 1]
  BY <1>3, <1>6, <1>7
<1>11. Books(p, o)
  BY <1>4, <1>5, <1>8, <1>9, <1>10, FS_EmptySet DEF Books
<1> QED  BY <1>1, <1>4, <1>5, <1>11

\* The window is halved and never closes.
LEMMA HalvedOK ==
  ASSUME NEW p \in Peers, NEW s \in Senders, Books(p, s)
  PROVE  LET h == Halved(s) IN
         /\ h \in Senders /\ Books(p, h) /\ h.window <= s.window
         /\ h.cur = s.cur /\ h.queue = s.queue /\ h.unacked = s.unacked
         /\ h.next = s.next /\ h.total = s.total /\ h.batch = s.batch /\ h.timed = s.timed
<1> DEFINE w == IF s.window \div 2 < 1 THEN 1 ELSE s.window \div 2
           h == [s EXCEPT !.window = w]
<1>1. s.window \in Nat \ {0}
  BY DEF Senders
<1>2. w \in Nat \ {0} /\ w <= s.window
  BY <1>1
<1>3. Halved(s) = h
  BY DEF Halved
<1> HIDE DEF w
<1>4. /\ h \in Senders /\ h.window = w
      /\ h.cur = s.cur /\ h.queue = s.queue /\ h.unacked = s.unacked
      /\ h.next = s.next /\ h.total = s.total /\ h.batch = s.batch /\ h.timed = s.timed
  BY <1>2 DEF Senders
<1> HIDE DEF h
<1>5. Books(p, h)
  BY <1>4 DEF Books
<1> QED  BY <1>2, <1>3, <1>4, <1>5

\* The end of a file, or of a call of _pump_sender().
LEMMA FinishOK ==
  ASSUME Inv, NEW p \in Peers, NEW s \in Senders, Books(p, s), s.cur # None, Finish(p, s)
  PROVE  LinkOK' /\ SndOK' /\ reported' \in [Peers -> SUBSET Files]
<1>1. snd' = [snd EXCEPT ![p] = s] /\ buf' = buf
  BY DEF Finish
<1>2. LinkOK /\ SndOK /\ reported \in [Peers -> SUBSET Files] /\ s.cur \in Files
  BY DEF Inv, StateOK, Senders
<1>3. CASE Finished(s)
  <2>1. /\ reported' = [reported EXCEPT ![p] = reported[p] \cup {s.cur}]
        /\ Write(p, <<Close>>) /\ sending' = [sending EXCEPT ![p] = "closing"]
    BY <1>3 DEF Finish, SendGoes
  <2>2. Relies("closing", s) /\ "closing" \in Places
    BY <1>3 DEF Relies, Finished, Places
  <2>3. SndOK'
    BY <1>1, <1>2, <2>1, <2>2, SndUpdate
  <2>4. <<Close>> \in Seq(Wire(p))
    BY ControlFrames
  <2>5. LinkOK'
    BY <1>1, <1>2, <2>1, <2>4, WriteOK
  <2> QED  BY <1>2, <2>1, <2>3, <2>5
<1>4. CASE ~Finished(s)
  <2>1. wire' = wire /\ reported' = reported /\ sending' = [sending EXCEPT ![p] = "wait"]
    BY <1>4 DEF Finish, SendGoes
  <2>2. Relies("wait", s) /\ "wait" \in Places
    BY DEF Relies, Places
  <2>3. SndOK'
    BY <1>1, <1>2, <2>1, <2>2, SndUpdate
  <2> QED  BY <1>1, <1>2, <2>1, <2>3 DEF LinkOK
<1> QED  BY <1>3, <1>4

\* The sender after it has sent n new blocks.
More(s, n) ==
  [s EXCEPT !.next = @ + n, !.unacked = @ \cup (s.next .. s.next + n - 1),
            !.timed = @ \cup (s.next .. s.next + n - 1)]

\* What the window admits lies between next_block_num and total_blocks, and fills it.
LEMMA MoreOK ==
  ASSUME NEW p \in Peers, NEW s \in Senders, Books(p, s), s.cur # None, Unsent(s) > 0
  PROVE  LET n == Unsent(s)
             m == More(s, n) IN
         /\ n \in Nat /\ s.next + n <= s.total
         /\ m \in Senders /\ Books(p, m) /\ m.cur # None /\ Unsent(m) <= 0
<1> DEFINE n == Unsent(s)
           new == s.next .. s.next + n - 1
           u == s.unacked \cup new
           t == s.timed \cup new
           m == [s EXCEPT !.next = s.next + n, !.unacked = u, !.timed = t]
<1>1. /\ s.next \in Nat /\ s.total \in Nat /\ s.unacked \in SUBSET Nat
      /\ s.timed \in SUBSET Nat /\ s.window \in Nat
      /\ IsFiniteSet(s.unacked) /\ s.unacked \subseteq s.timed
      /\ \A k \in s.unacked : k < s.next /\ k < s.total
  BY DEF Senders, Books
<1>2. Cardinality(s.unacked) \in Nat
  BY <1>1, FS_CardinalityType
<1>3. /\ n \in Nat /\ n > 0 /\ n <= s.total - s.next
      /\ n <= s.window - Cardinality(s.unacked)
      /\ n = s.total - s.next \/ n = s.window - Cardinality(s.unacked)
  BY <1>1, <1>2 DEF Minimum, Unsent
<1>4. More(s, n) = m
  BY DEF More
<1> HIDE DEF n
<1>5. s.next + n \in Nat /\ s.next + n <= s.total
  BY <1>1, <1>3
<1>6. new \in SUBSET Nat /\ \A k \in new : k < s.next + n /\ k >= s.next
  BY <1>1, <1>3
<1>7. IsFiniteSet(new) /\ Cardinality(new) = n
  <2>1. s.next \in Int /\ s.next + n - 1 \in Int /\ ~(s.next > s.next + n - 1)
    BY <1>1, <1>3
  <2>2. /\ IsFiniteSet(new)
        /\ Cardinality(new) = IF s.next > s.next + n - 1 THEN 0 ELSE (s.next + n - 1) - s.next + 1
    BY <2>1, FS_Interval
  <2> QED  BY <1>1, <1>3, <2>1, <2>2
<1>8. s.unacked \cap new = {}
  BY <1>1, <1>6
<1> HIDE DEF new
<1>9. IsFiniteSet(u) /\ Cardinality(u) = Cardinality(s.unacked) + n
  <2>1. /\ IsFiniteSet(u)
        /\ Cardinality(u) = Cardinality(s.unacked) + Cardinality(new) - Cardinality(s.unacked \cap new)
    BY <1>1, <1>7, FS_Union
  <2>2. Cardinality(s.unacked \cap new) = 0
    BY <1>8, FS_EmptySet
  <2> QED  BY <1>2, <1>3, <1>7, <2>1, <2>2
<1>10. /\ u \in SUBSET Nat /\ t \in SUBSET Nat /\ u \subseteq t
       /\ \A k \in u : k < s.next + n /\ k < s.total
  <2>1. u \in SUBSET Nat /\ t \in SUBSET Nat /\ u \subseteq t
    BY <1>1, <1>6
  <2>2. ASSUME NEW k \in s.unacked PROVE k < s.next + n /\ k < s.total
    BY <1>1, <1>3
  <2>3. ASSUME NEW k \in new PROVE k < s.next + n /\ k < s.total
    <3>1. k \in Nat /\ k < s.next + n
      BY <1>6
    <3> QED  BY <1>1, <1>5, <3>1
  <2> QED  BY <2>1, <2>2, <2>3
<1> HIDE DEF u, t
<1>11. /\ m \in Senders /\ m.next = s.next + n /\ m.unacked = u /\ m.timed = t
       /\ m.cur = s.cur /\ m.batch = s.batch /\ m.queue = s.queue /\ m.total = s.total
       /\ m.window = s.window
  BY <1>5, <1>10 DEF Senders
<1> HIDE DEF m
<1>12. Books(p, m)
  BY <1>9, <1>10, <1>11 DEF Books
<1>13. Unsent(m) <= 0
  <2>1. Unsent(m) = Minimum(s.total - (s.next + n), s.window - (Cardinality(s.unacked) + n))
    BY <1>9, <1>11 DEF Unsent
  <2> QED  BY <1>1, <1>2, <1>3, <2>1 DEF Minimum
<1> QED  BY <1>3, <1>4, <1>5, <1>11, <1>12, <1>13 DEF n

\* From "Fill Window" on: what is flushed is genuine, with whatever was buffered.
LEMMA FillOK ==
  ASSUME Inv, NEW p \in Peers, NEW s \in Senders, Books(p, s), s.cur # None, FillFrom(p, s)
  PROVE  LinkOK' /\ SndOK' /\ reported' \in [Peers -> SUBSET Files]
<1>1. CASE Unsent(s) <= 0
  BY <1>1, FinishOK DEF FillFrom
<1>2. CASE ~(Unsent(s) <= 0)
  <2> DEFINE n == Unsent(s)
             frames == [i \in 1..n |-> Data(s.cur, s.batch, s.next + i - 1)]
             m == More(s, n)
  <2>1. Unsent(s) > 0
    <3>1. s.unacked \in SUBSET Nat /\ IsFiniteSet(s.unacked)
      BY DEF Senders, Books
    <3>2. /\ s.total \in Nat /\ s.next \in Nat /\ s.window \in Nat
          /\ Cardinality(s.unacked) \in Nat
      BY <3>1, FS_CardinalityType DEF Senders
    <3>3. Unsent(s) \in Int
      BY <3>2 DEF Unsent, Minimum
    <3> QED  BY <1>2, <3>3
  <2>2. /\ n \in Nat /\ s.next + n <= s.total
        /\ m \in Senders /\ Books(p, m) /\ m.cur # None
    BY <2>1, MoreOK
  <2>3. /\ snd' = [snd EXCEPT ![p] = m] /\ Write(p, buf[p] \o frames)
        /\ buf' = [buf EXCEPT ![p] = <<>>]
        /\ sending' = [sending EXCEPT ![p] = "flushed"] /\ reported' = reported
    BY <1>2 DEF FillFrom, SendGoes, More
  <2> HIDE DEF n, m
  <2>4. /\ s.batch \in Nat /\ s.batch < Len(Queue[p]) /\ s.next \in Nat /\ s.total \in Nat
        /\ s.cur = Queue[p][s.batch + 1] /\ s.total = Blocks(s.cur)
    <3>1. s.batch \in Nat /\ s.next \in Nat /\ s.total \in Nat /\ Len(s.queue) \in Nat
      BY DEF Senders
    <3>2. s.batch + 1 + Len(s.queue) = Len(Queue[p])
      BY DEF Books
    <3> QED  BY <3>1, <3>2 DEF Books
  <2>5. \A k \in Nat : k < s.total => Data(s.cur, s.batch, k) \in Wire(p)
    BY <2>4, FileFrames
  <2>6. ASSUME NEW i \in 1..n PROVE Data(s.cur, s.batch, s.next + i - 1) \in Wire(p)
    <3>1. s.next + i - 1 \in Nat /\ s.next + i - 1 < s.total
      BY <2>2, <2>4
    <3> QED  BY <2>5, <3>1
  <2>7. frames \in Seq(Wire(p))
    BY <2>2, <2>6, IsASeq
  <2>8. buf[p] \o frames \in Seq(Wire(p))
    <3> HIDE DEF frames
    <3>1. buf[p] \in Seq(Wire(p))
      BY DEF Inv, LinkOK
    <3> QED  BY <2>7, <3>1, ConcatProperties
  <2> DEFINE out == buf[p] \o frames
  <2>9. out \in Seq(Wire(p)) /\ Write(p, out)
    BY <2>3, <2>8
  <2> HIDE DEF out
  <2>10. LinkOK'
    BY <2>3, <2>9, WriteOK DEF Inv
  <2>11. Relies("flushed", m) /\ "flushed" \in Places
    BY <2>2 DEF Relies, Places
  <2>12. SndOK'
    BY <2>2, <2>3, <2>11, SndUpdate DEF Inv
  <2> QED  BY <2>3, <2>10, <2>12 DEF Inv, StateOK
<1> QED  BY <1>1, <1>2

\* Clearing the event is all a wake-up does to the state of the session.
LEMMA Woken ==
  ASSUME Inv, NEW p \in Peers, UNCHANGED state,
         event' = event \/ event' = [event EXCEPT ![p] = FALSE] \/ event' = [event EXCEPT ![p] = TRUE],
         reported' \in [Peers -> SUBSET Files]
  PROVE  StateOK'
BY DEF Inv, StateOK

-----------------------------------------------------------------------------
(***************************************************************************)
(* The actions of the send task.                                           *)
(***************************************************************************)
\* TRANSMIT_DONE, and sent_z.
LEMMA AllSentOK == ASSUME Inv, NEW p \in Peers, AllSent(p) \/ DoneSent(p) PROVE Inv'
<1> DEFINE s == [snd[p] EXCEPT !.sentZ = TRUE]
<1>1. snd[p] \in Senders /\ Books(p, snd[p]) /\ Relies(sending[p], snd[p]) /\ SndOK /\ LinkOK
  BY DEF Inv, SndOK
<1>2. s \in Senders /\ Books(p, s) /\ Relies("wait", s) /\ (snd[p].cur = None => Relies("ending", snd[p]))
  BY <1>1 DEF Senders, Books, Relies
<1>3. {"wait", "ending"} \subseteq Places
  BY DEF Places
<1>4. UNCHANGED reported /\ StateOK'
  BY Woken DEF Inv, StateOK, AllSent, DoneSent, Wakes, AtAwait
<1>5. RecvOK' /\ BudgetsOK'
  BY Kept DEF AllSent, DoneSent
<1>6. CASE AllSent(p) /\ snd[p].batch > 0
  <2>1. Write(p, <<Done>>) /\ sending' = [sending EXCEPT ![p] = "ending"] /\ snd' = snd /\ buf' = buf
    BY <1>6 DEF AllSent, SendGoes
  <2>2. <<Done>> \in Seq(Wire(p))
    BY ControlFrames
  <2>3. LinkOK'
    BY <1>1, <2>1, <2>2, WriteOK
  <2>4. snd' = [snd EXCEPT ![p] = snd[p]]
    BY <2>1 DEF Inv, SndOK
  <2>5. snd[p].cur = None
    BY <1>6 DEF AllSent
  <2>6. SndOK'
    BY <1>1, <1>2, <1>3, <2>1, <2>4, <2>5, SndUpdate
  <2> QED  BY <1>4, <1>5, <2>3, <2>6 DEF Inv
<1>7. CASE AllSent(p) /\ ~(snd[p].batch > 0)
  <2>1. snd' = [snd EXCEPT ![p] = s] /\ sending' = sending /\ wire' = wire /\ buf' = buf
    BY <1>7 DEF AllSent
  <2>2. sending[p] = "wait"
    BY <1>7 DEF AllSent, Wakes
  <2>3. sending' = [sending EXCEPT ![p] = "wait"]
    BY <2>1, <2>2 DEF Inv, SndOK
  <2>4. SndOK'
    BY <1>1, <1>2, <1>3, <2>1, <2>3, SndUpdate
  <2> QED  BY <1>4, <1>5, <2>1, <2>4, Kept DEF Inv, links
<1>8. CASE DoneSent(p)
  <2>1. snd' = [snd EXCEPT ![p] = s] /\ sending' = [sending EXCEPT ![p] = "wait"] /\ UNCHANGED links
    BY <1>8 DEF DoneSent, SendGoes
  <2>2. SndOK'
    BY <1>1, <1>2, <1>3, <2>1, SndUpdate
  <2> QED  BY <1>4, <1>5, <2>1, <2>2, Kept DEF Inv
<1> QED  BY <1>6, <1>7, <1>8

\* The write of OPEN.
LEMMA OpenNextOK == ASSUME Inv, NEW p \in Peers, OpenNext(p) PROVE Inv'
<1> DEFINE s == snd[p]
           h == Head(s.queue)
<1>1. s \in Senders /\ Books(p, s) /\ s.cur = None /\ s.queue # <<>> /\ SndOK /\ LinkOK
  BY DEF Inv, SndOK, OpenNext
<1>2. s.queue \in Seq(Files) /\ s.batch \in Nat
  BY <1>1 DEF Senders
<1>3. Len(s.queue) \in Nat /\ Len(s.queue) > 0 /\ h = s.queue[1]
  BY <1>1, <1>2
<1>4. /\ s.batch + Len(s.queue) = Len(Queue[p])
      /\ \A i \in 1..Len(s.queue) : s.queue[i] = Queue[p][s.batch + i]
  BY <1>1, <1>2 DEF Books
<1>5. s.batch < Len(Queue[p]) /\ h = Queue[p][s.batch + 1]
  BY <1>2, <1>3, <1>4
<1>6. <<Open(h, s.batch)>> \in Seq(Wire(p))
  BY <1>2, <1>5, FileFrames
<1>7. Write(p, <<Open(h, s.batch)>>) /\ buf' = buf /\ sending' = [sending EXCEPT ![p] = "opening"]
      /\ snd' = snd
  BY DEF OpenNext, SendGoes
<1> HIDE DEF h
<1>8. LinkOK'
  BY <1>1, <1>6, <1>7, WriteOK
<1>9. Relies("opening", s) /\ "opening" \in Places /\ snd' = [snd EXCEPT ![p] = s]
  BY <1>1, <1>7 DEF Relies, Places, SndOK
<1>10. SndOK'
  BY <1>1, <1>7, <1>9, SndUpdate
<1>11. StateOK'
  BY Woken DEF OpenNext, Wakes, Inv, StateOK
<1> QED  BY <1>8, <1>10, <1>11, Kept DEF OpenNext, Inv

\* The stretches that go on into the window.
LEMMA FillActionsOK ==
  ASSUME Inv, NEW p \in Peers, OpenSent(p) \/ Pump(p) \/ Resent(p) \/ Flushed(p)
  PROVE  Inv'
<1>1. snd[p] \in Senders /\ Books(p, snd[p]) /\ Relies(sending[p], snd[p])
  BY DEF Inv, SndOK
<1>2. LinkOK' /\ SndOK' /\ reported' \in [Peers -> SUBSET Files]
  <2>1. CASE OpenSent(p)
    <3>1. Relies("opening", snd[p])
      BY <1>1, <2>1 DEF OpenSent, AtAwait
    <3>2. Opened(snd[p]) \in Senders /\ Books(p, Opened(snd[p])) /\ Opened(snd[p]).cur # None
      BY <1>1, <3>1, OpenedOK
    <3> QED  BY <2>1, <3>2, FillOK DEF OpenSent
  <2>2. CASE Pump(p)
    BY <1>1, <2>2, FillOK DEF Pump
  <2>3. CASE Resent(p)
    <3> DEFINE t == snd[p].timed \cup {snd[p].oldest}
               s == [snd[p] EXCEPT !.timed = t, !.oldest = 0]
    <3>1. t \in SUBSET Nat /\ snd[p].timed \subseteq t /\ snd[p].cur # None
      BY <1>1, <2>3 DEF Senders, Relies, Resent, AtAwait
    <3>2. FillFrom(p, s)
      BY <2>3 DEF Resent
    <3> HIDE DEF t
    <3>3. /\ s \in Senders /\ s.timed = t /\ s.cur = snd[p].cur /\ s.queue = snd[p].queue
          /\ s.unacked = snd[p].unacked /\ s.next = snd[p].next /\ s.total = snd[p].total
          /\ s.batch = snd[p].batch
      BY <1>1, <3>1 DEF Senders
    <3> HIDE DEF s
    <3>4. Books(p, s)
      BY <1>1, <3>1, <3>3 DEF Books
    <3> QED  BY <3>1, <3>2, <3>3, <3>4, FillOK
  <2>4. CASE Flushed(p)
    <3>1. snd[p].cur # None
      BY <1>1, <2>4 DEF Flushed, AtAwait, Relies
    <3> QED  BY <1>1, <2>4, <3>1, FinishOK DEF Flushed
  <2> QED  BY <2>1, <2>2, <2>3, <2>4
<1>3. StateOK'
  BY <1>2, Woken DEF OpenSent, Pump, Resent, Flushed, Wakes, AtAwait
<1>4. RecvOK' /\ BudgetsOK'
  BY Kept DEF OpenSent, Pump, Resent, Flushed
<1> QED  BY <1>2, <1>3, <1>4 DEF Inv

\* The resend of the oldest block.
LEMMA TimeoutOK == ASSUME Inv, NEW p \in Peers, Timeout(p) PROVE Inv'
<1> DEFINE s == snd[p]
           k == Oldest(s.unacked)
           h == Halved(s)
           t == [h EXCEPT !.oldest = k]
<1>1. s \in Senders /\ Books(p, s) /\ SndOK /\ LinkOK
  BY DEF Inv, SndOK
<1>2. s.unacked # {} /\ s.unacked \in SUBSET Nat
  BY <1>1 DEF Timeout, Senders
<1>3. k \in s.unacked /\ k \in Nat
  BY <1>2, OldestType
<1>4. s.cur # None /\ k < s.total
  BY <1>1, <1>2, <1>3 DEF Books
<1>5. /\ s.batch \in Nat /\ s.batch < Len(Queue[p])
      /\ s.cur = Queue[p][s.batch + 1] /\ s.total = Blocks(s.cur)
  <2>1. s.batch \in Nat /\ Len(s.queue) \in Nat
    BY <1>1 DEF Senders
  <2>2. s.batch + 1 + Len(s.queue) = Len(Queue[p])
    BY <1>1, <1>4 DEF Books
  <2> QED  BY <1>1, <1>4, <2>1, <2>2 DEF Books
<1>6. <<Data(s.cur, s.batch, k)>> \in Seq(Wire(p))
  BY <1>3, <1>4, <1>5, FileFrames
<1>7. /\ h \in Senders /\ Books(p, h) /\ h.cur = s.cur
  BY <1>1, HalvedOK
<1>8. /\ Write(p, <<Data(s.cur, s.batch, k)>>) /\ buf' = buf
      /\ sending' = [sending EXCEPT ![p] = "resent"] /\ snd' = [snd EXCEPT ![p] = t]
  BY DEF Timeout, SendGoes
<1>9. /\ UNCHANGED <<state, receiving, rcv, disk, reported, losses, reconnects>>
      /\ event' = [event EXCEPT ![p] = FALSE]
      /\ early' = early \/ (early < MaxEarly /\ early' = early + 1)
  BY DEF Timeout, Wakes
<1> HIDE DEF k, h
<1>10. LinkOK'
  BY <1>1, <1>6, <1>8, WriteOK
<1>11. t \in Senders /\ Books(p, t) /\ t.cur = s.cur
  BY <1>3, <1>7 DEF Senders, Books
<1>12. Relies("resent", t) /\ "resent" \in Places
  BY <1>4, <1>11 DEF Relies, Places
<1> HIDE DEF t
<1>13. SndOK'
  BY <1>1, <1>8, <1>11, <1>12, SndUpdate
<1>14. StateOK'
  BY <1>9, Woken DEF Inv, StateOK
<1>15. BudgetsOK'
  BY <1>9, WindowAssumption DEF Inv, BudgetsOK
<1> QED  BY <1>9, <1>10, <1>13, <1>14, <1>15, Kept DEF Inv

\* The file is closed once CLOSE is written.
LEMMA CloseSentOK == ASSUME Inv, NEW p \in Peers, CloseSent(p) PROVE Inv'
<1> DEFINE s == snd[p]
           c == [s EXCEPT !.cur = None, !.batch = s.batch + 1]
<1>1. s \in Senders /\ Books(p, s) /\ s.cur # None /\ s.unacked = {} /\ SndOK
  BY DEF Inv, SndOK, CloseSent, AtAwait, Relies
<1>2. s.batch \in Nat /\ s.batch + 1 \in Nat /\ Len(s.queue) \in Nat
  BY <1>1 DEF Senders
<1>3. /\ c \in Senders /\ c.cur = None /\ c.batch = s.batch + 1 /\ c.next = s.next
      /\ c.unacked = {} /\ c.timed = s.timed /\ c.queue = s.queue /\ c.total = s.total
  BY <1>1, <1>2 DEF Senders
<1>4. /\ snd' = [snd EXCEPT ![p] = c] /\ sending' = [sending EXCEPT ![p] = "wait"]
      /\ event' = event
  BY DEF CloseSent, AtAwait, SendGoes
<1> HIDE DEF c
<1>5. /\ s.batch + 1 + Len(s.queue) = Len(Queue[p])
      /\ \A i \in 1..Len(s.queue) : s.queue[i] = Queue[p][s.batch + 1 + i]
  BY <1>1 DEF Books
<1>6. c.batch + (IF c.cur = None THEN 0 ELSE 1) = s.batch + 1
  BY <1>2, <1>3
<1>7. IsFiniteSet(c.unacked) /\ c.unacked = {}
  BY <1>3, FS_EmptySet
<1>8. Books(p, c)
  BY <1>3, <1>5, <1>6, <1>7, Zenon DEF Books
<1>9. Relies("wait", c) /\ "wait" \in Places
  BY DEF Relies, Places
<1>10. SndOK'
  BY <1>1, <1>3, <1>4, <1>8, <1>9, SndUpdate
<1> QED  BY <1>4, <1>10, Kept DEF CloseSent, Inv

-----------------------------------------------------------------------------
(***************************************************************************)
(* The actions of the receive task.                                        *)
(***************************************************************************)
\* A handler of the sender half leaves the send task where it stands.
LEMMA SndHandled ==
  ASSUME SndOK, NEW p \in Peers, NEW s \in Senders, Books(p, s),
         s.cur = snd[p].cur, s.queue = snd[p].queue,
         snd[p].unacked = {} => s.unacked = {},
         snd' = [snd EXCEPT ![p] = s], UNCHANGED sending
  PROVE  SndOK'
<1>1. sending[p] \in Places /\ Relies(sending[p], snd[p]) /\ sending' = [sending EXCEPT ![p] = sending[p]]
  BY DEF SndOK
<1>2. Relies(sending[p], s)
  BY <1>1 DEF Relies
<1> QED  BY <1>1, <1>2, SndUpdate

\* So does one of the receiver half, which may wait to write an answer.
LEMMA RecvHandled ==
  ASSUME RecvOK, NEW p \in Peers, UNCHANGED <<rcv, disk>>,
         receiving' = receiving \/ receiving' = [receiving EXCEPT ![p] = "reply"]
                                \/ receiving' = [receiving EXCEPT ![p] = "read"]
  PROVE  RecvOK'
BY DEF RecvOK

\* The window that _update_rtt() leaves is one that admits a block.
LEMMA WindowsType ==
  ASSUME NEW s \in Senders, NEW w \in Windows(s) PROVE w \in Nat \ {0}
<1> DEFINE n == s.window
<1>1. n \in Nat \ {0} /\ MaxWindow \in Nat \ {0}
  BY WindowAssumption DEF Senders
<1>2. \/ w = n \/ w = Minimum(MaxWindow, n + 1)
      \/ w = IF (n * 9) \div 10 < 1 THEN 1 ELSE (n * 9) \div 10
  BY DEF Windows
<1> HIDE DEF n
<1>3. (n * 9) \div 10 \in Int
  BY <1>1
<1>4. Minimum(MaxWindow, n + 1) \in Nat \ {0}
  BY <1>1 DEF Minimum
<1> QED  BY <1>1, <1>2, <1>3, <1>4

\* An exact ACK, with the window that its round trip gives.
LEMMA HandleAckOK == ASSUME Inv, NEW p \in Peers, HandleAck(p) PROVE Inv'
<1> DEFINE s == snd[p]
           k == Packet(p).block
           u == s.unacked \ {k}
           d == s.timed \ {k}
<1>1. s \in Senders /\ Books(p, s) /\ SndOK
  BY DEF Inv, SndOK
<1>2. LinkOK'
  BY NoAnswerOK DEF HandleAck, Transferring, Arrives, Inv
<1>3. PICK w \in IF k \in s.timed THEN Windows(s) ELSE {s.window} :
        snd' = [snd EXCEPT ![p] = [s EXCEPT !.window = w, !.unacked = u, !.timed = d]]
  BY DEF HandleAck
<1>4. w \in Nat \ {0}
  BY <1>1, <1>3, WindowsType DEF Senders
<1>5. /\ u \in SUBSET Nat /\ d \in SUBSET Nat /\ u \subseteq d /\ u \subseteq s.unacked
      /\ IsFiniteSet(u)
  <2>1. s.unacked \in SUBSET Nat /\ s.timed \in SUBSET Nat
    BY <1>1 DEF Senders
  <2>2. IsFiniteSet(s.unacked) /\ s.unacked \subseteq s.timed
    BY <1>1 DEF Books
  <2> QED  BY <2>1, <2>2, FS_Subset
<1> HIDE DEF u, d
<1> DEFINE t == [s EXCEPT !.window = w, !.unacked = u, !.timed = d]
<1>6. /\ t \in Senders /\ t.cur = s.cur /\ t.queue = s.queue /\ t.unacked = u /\ t.timed = d
      /\ t.next = s.next /\ t.total = s.total /\ t.batch = s.batch
  BY <1>1, <1>4, <1>5 DEF Senders
<1>7. snd' = [snd EXCEPT ![p] = t] /\ sending' = sending
  BY <1>3 DEF HandleAck, Transferring
<1> HIDE DEF t
<1>8. Books(p, t)
  BY <1>1, <1>5, <1>6 DEF Books
<1>9. SndOK'
  BY <1>1, <1>5, <1>6, <1>7, <1>8, SndHandled
<1>10. StateOK'
  BY Woken DEF HandleAck, Transferring, WakeSender, Inv, StateOK
<1>11. RecvOK' /\ BudgetsOK'
  BY Kept DEF HandleAck, Transferring, NoAnswer
<1> QED  BY <1>2, <1>9, <1>10, <1>11 DEF Inv

\* A NAK is answered by its block, if that is still in the window.
LEMMA HandleNakOK == ASSUME Inv, NEW p \in Peers, HandleNak(p) PROVE Inv'
<1> DEFINE s == snd[p]
           k == Packet(p).block
           h == Halved(s)
<1>1. s \in Senders /\ Books(p, s) /\ SndOK /\ LinkOK /\ RecvOK
  BY DEF Inv, SndOK
<1>2. k \in s.unacked
  BY DEF HandleNak
<1>3. s.cur # None /\ k \in Nat /\ k < s.total
  BY <1>1, <1>2 DEF Books, Senders
<1>4. /\ s.batch \in Nat /\ s.batch < Len(Queue[p])
      /\ s.cur = Queue[p][s.batch + 1] /\ s.total = Blocks(s.cur)
  <2>1. s.batch \in Nat /\ Len(s.queue) \in Nat
    BY <1>1 DEF Senders
  <2>2. s.batch + 1 + Len(s.queue) = Len(Queue[p])
    BY <1>1, <1>3 DEF Books
  <2> QED  BY <1>1, <1>3, <2>1, <2>2 DEF Books
<1>5. <<Data(s.cur, s.batch, k)>> \in Seq(Wire(p))
  BY <1>3, <1>4, FileFrames
<1>6. /\ h \in Senders /\ Books(p, h) /\ h.cur = s.cur /\ h.queue = s.queue
      /\ h.unacked = s.unacked
  BY <1>1, HalvedOK
<1>7. /\ snd' = [snd EXCEPT ![p] = h] /\ UNCHANGED <<state, sending, event, reported, budgets, rcv, disk>>
      /\ wire[Other(p)] # <<>>
      /\ receiving' = [receiving EXCEPT ![p] = "reply"]
      /\ UNCHANGED buf
      /\ wire' = [wire EXCEPT ![Other(p)] = Tail(@), ![p] = @ \o <<Data(s.cur, s.batch, k)>>]
  BY DEF HandleNak, Transferring, Arrives, Answer, RecvGoes
<1> HIDE DEF k, h
<1>8. LinkOK'
  BY <1>1, <1>5, <1>7, AnswerOK
<1>9. SndOK'
  BY <1>1, <1>6, <1>7, SndHandled
<1>10. RecvOK'
  BY <1>1, <1>7, RecvHandled
<1> QED  BY <1>7, <1>8, <1>9, <1>10, Kept DEF Inv

\* SKIP: there is nothing left to send of the current file.
LEMMA HandleSkipOK == ASSUME Inv, NEW p \in Peers, HandleSkip(p) PROVE Inv'
<1> DEFINE s == snd[p]
           t == [s EXCEPT !.unacked = {}, !.timed = {}, !.next = s.total]
<1>1. s \in Senders /\ Books(p, s) /\ SndOK
  BY DEF Inv, SndOK
<1>2. LinkOK'
  BY NoAnswerOK DEF HandleSkip, Transferring, Arrives, Inv
<1>3. /\ t \in Senders /\ t.cur = s.cur /\ t.queue = s.queue /\ t.unacked = {}
      /\ t.total = s.total /\ t.batch = s.batch
  BY <1>1 DEF Senders
<1>4. snd' = [snd EXCEPT ![p] = t] /\ sending' = sending
  BY DEF HandleSkip, Transferring
<1> HIDE DEF t
<1>5. Books(p, t)
  BY <1>1, <1>3, FS_EmptySet DEF Books
<1>6. SndOK'
  BY <1>1, <1>3, <1>4, <1>5, SndHandled
<1>7. StateOK'
  BY Woken DEF HandleSkip, Transferring, WakeSender, Inv, StateOK
<1>8. RecvOK' /\ BudgetsOK'
  BY Kept DEF HandleSkip, Transferring, NoAnswer
<1> QED  BY <1>2, <1>6, <1>7, <1>8 DEF Inv

\* VERIFY is answered by SEEK.
LEMMA HandleVerifyOK == ASSUME Inv, NEW p \in Peers, HandleVerify(p) PROVE Inv'
<1> DEFINE s == snd[p]
           n == Verified(Packet(p).crcs, s.cur)
           t == [s EXCEPT !.next = n, !.unacked = {}, !.timed = {}]
<1>1. s \in Senders /\ Books(p, s) /\ SndOK /\ LinkOK /\ RecvOK
  BY DEF Inv, SndOK
<1>2. n \in Nat
  <2>1. wire[Other(p)] \in Seq(Frames) /\ wire[Other(p)] # <<>> /\ Packet(p).type = "V"
    BY <1>1, OtherPeer DEF HandleVerify, Transferring, Arrives, LinkOK
  <2>2. Packet(p) \in Frames
    BY <2>1, HeadTailProperties DEF Packet
  <2>3. Packet(p).crcs \in Seq(Seq(Unit))
    BY <2>1, <2>2, FrameFields
  <2> QED  BY <2>3, VerifiedType
<1>3. /\ snd' = [snd EXCEPT ![p] = t] /\ UNCHANGED <<state, sending, event, reported, budgets, rcv, disk>>
      /\ wire[Other(p)] # <<>>
      /\ receiving' = [receiving EXCEPT ![p] = "reply"]
      /\ UNCHANGED buf
      /\ wire' = [wire EXCEPT ![Other(p)] = Tail(@), ![p] = @ \o <<Seek(s.batch, n)>>]
  BY DEF HandleVerify, Transferring, Arrives, Answer, RecvGoes
<1> HIDE DEF n
<1>4. /\ t \in Senders /\ t.cur = s.cur /\ t.queue = s.queue /\ t.unacked = {}
      /\ t.total = s.total /\ t.batch = s.batch /\ s.batch \in Nat
  BY <1>1, <1>2 DEF Senders
<1> HIDE DEF t
<1>5. Books(p, t)
  BY <1>1, <1>4, FS_EmptySet DEF Books
<1>6. <<Seek(s.batch, n)>> \in Seq(Wire(p))
  BY <1>2, <1>4, ControlFrames
<1>7. LinkOK'
  BY <1>1, <1>3, <1>6, AnswerOK
<1>8. SndOK'
  BY <1>1, <1>3, <1>4, <1>5, SndHandled
<1>9. RecvOK'
  BY <1>1, <1>3, RecvHandled
<1> QED  BY <1>3, <1>7, <1>8, <1>9, Kept DEF Inv

\* READY and READY_RECV.
LEMMA HandshakeOK == ASSUME Inv, NEW p \in Peers, Handshake(p) PROVE Inv'
<1>1. LinkOK'
  BY NoAnswerOK DEF Handshake, Arrives, Inv
<1>2. StateOK'
  BY DEF Handshake, WakeSender, Inv, StateOK
<1> QED  BY <1>1, <1>2, Kept DEF Handshake, NoAnswer, Inv

\* Packets without effect, and damaged ones, are only taken off the link.
LEMMA IgnoreOK == ASSUME Inv, NEW p \in Peers, Ignore(p) \/ Lose(p) PROVE Inv'
<1>1. LinkOK'
  BY NoAnswerOK DEF Ignore, Lose, Inv
<1>2. CASE Ignore(p)
  BY <1>1, <1>2, Kept DEF Ignore, NoAnswer, Inv
<1>3. CASE Lose(p)
  <2>1. BudgetsOK'
    BY <1>3, WindowAssumption DEF Lose, Inv, BudgetsOK
  <2> QED  BY <1>1, <1>3, <2>1, Kept DEF Lose, NoAnswer, Inv
<1> QED  BY <1>2, <1>3

\* A new receiver state with nothing open, or with something that exists.
LEMMA RecvUpdate ==
  ASSUME RecvOK, NEW p \in Peers, NEW r \in Receivers,
         r.fd # None => r.fd = rcv[p].fd, r.file # None => r.file = rcv[p].file,
         rcv' = [rcv EXCEPT ![p] = r], UNCHANGED <<receiving, disk>>, receiving[p] # "verify"
  PROVE  RecvOK'
BY DEF RecvOK

\* SEEK sets the block number that is expected, CLOSE closes the file.
LEMMA SeekCloseOK ==
  ASSUME Inv, NEW p \in Peers, HandleSeek(p) \/ HandleClose(p) PROVE Inv'
<1>1. LinkOK' /\ Packet(p) \in Frames
  BY NoAnswerOK DEF HandleSeek, HandleClose, Transferring, Arrives, Inv
<1>2. RecvOK /\ rcv[p] \in Receivers /\ receiving[p] # "verify"
  BY DEF Inv, RecvOK, HandleSeek, HandleClose, Transferring, Arrives
<1>3. CASE HandleSeek(p)
  <2> DEFINE r == [rcv[p] EXCEPT !.expected = Packet(p).block]
  <2>1. Packet(p).block \in Nat
    BY <1>1, <1>3, FrameFields DEF HandleSeek, Transferring, Arrives
  <2>2. r \in Receivers /\ r.fd = rcv[p].fd /\ r.file = rcv[p].file
    BY <1>2, <2>1 DEF Receivers
  <2>3. rcv' = [rcv EXCEPT ![p] = r] /\ UNCHANGED <<receiving, disk>>
    BY <1>3 DEF HandleSeek, NoAnswer
  <2> HIDE DEF r
  <2>4. RecvOK'
    BY <1>2, <2>2, <2>3, RecvUpdate
  <2> QED  BY <1>1, <1>3, <2>4, Kept DEF HandleSeek, Transferring, Inv
<1>4. CASE HandleClose(p)
  <2> DEFINE r == [rcv[p] EXCEPT !.fd = None, !.file = None]
  <2>1. r \in Receivers /\ r.fd = None /\ r.file = None
    BY <1>2 DEF Receivers
  <2>2. rcv' = [rcv EXCEPT ![p] = r] /\ UNCHANGED <<receiving, disk>>
    BY <1>4 DEF HandleClose, NoAnswer
  <2> HIDE DEF r
  <2>3. RecvOK'
    BY <1>2, <2>1, <2>2, RecvUpdate
  <2> QED  BY <1>1, <1>4, <2>3, Kept DEF HandleClose, Transferring, Inv
<1> QED  BY <1>3, <1>4

\* A new state of one receiver, with what is open or to be opened in its directory.
LEMMA RecvSet ==
  ASSUME RecvOK, NEW p \in Peers, NEW r \in Receivers,
         NEW d \in [Names -> Seq(Unit) \cup {Absent}],
         NEW place \in {"read", "reply", "verify"},
         r.fd # None => d[r.fd] # Absent,
         place = "verify" => r.file # None /\ d[r.file] # Absent,
         rcv' = [rcv EXCEPT ![p] = r], disk' = [disk EXCEPT ![p] = d],
         receiving' = [receiving EXCEPT ![p] = place]
  PROVE  RecvOK'
<1>1. /\ rcv' \in [Peers -> Receivers] /\ receiving' \in [Peers -> {"read", "reply", "verify"}]
      /\ disk' \in [Peers -> [Names -> Seq(Unit) \cup {Absent}]]
  BY DEF RecvOK
<1>2. \A q \in Peers : /\ rcv'[q] = IF q = p THEN r ELSE rcv[q]
                       /\ disk'[q] = IF q = p THEN d ELSE disk[q]
                       /\ receiving'[q] = IF q = p THEN place ELSE receiving[q]
  BY DEF RecvOK
<1>3. \A q \in Peers : rcv'[q].fd # None => disk'[q][rcv'[q].fd] # Absent
  BY <1>2 DEF RecvOK
<1>4. \A q \in Peers : receiving'[q] = "verify" =>
        rcv'[q].file # None /\ disk'[q][rcv'[q].file] # Absent
  BY <1>2 DEF RecvOK
<1> QED  BY <1>1, <1>3, <1>4 DEF RecvOK

\* OPEN: refused, skipped, to be resumed when VERIFY is written, or begun anew.
LEMMA OpenOK == ASSUME Inv, NEW p \in Peers, HandleOpen(p) PROVE Inv'
<1> DEFINE m == Packet(p)
           c == Existing(p)
           r == Named(p)
<1>1. /\ LinkOK /\ RecvOK /\ rcv[p] \in Receivers /\ receiving[p] \in {"read", "reply", "verify"}
      /\ disk[p] \in [Names -> Seq(Unit) \cup {Absent}]
      /\ rcv[p].fd # None => disk[p][rcv[p].fd] # Absent
  BY DEF Inv, RecvOK
<1>2. /\ wire[Other(p)] # <<>> /\ m.type = "O" /\ receiving[p] = "read"
      /\ UNCHANGED <<state, sending, event, snd, reported, budgets>>
  BY DEF HandleOpen, OpenUnsafe, OpenSkip, OpenResume, OpenFresh, Transferring, Arrives
<1>3. m.name \in Names /\ m.batch \in Nat
  <2>1. wire[Other(p)] \in Seq(Frames)
    BY <1>1, OtherPeer DEF LinkOK
  <2>2. m \in Frames
    BY <1>2, <2>1, HeadTailProperties DEF Packet
  <2> QED  BY <1>2, <2>2, FrameFields
<1>4. c = disk[p][m.name] /\ c \in Seq(Unit) \cup {Absent}
  BY <1>1, <1>3 DEF Existing
<1>5. r \in Receivers /\ r.file = m.name /\ r.fd = rcv[p].fd /\ m.name # None
  BY <1>1, <1>3, FilesAssumption DEF Receivers, Named
<1>6. SndOK' /\ StateOK' /\ BudgetsOK'
  BY <1>2, Kept
<1>7. disk = [disk EXCEPT ![p] = disk[p]]
  BY <1>1 DEF RecvOK
<1>8. <<Skip>> \in Seq(Wire(p))
  BY ControlFrames
<1>9. CASE OpenUnsafe(p)
  <2>1. UNCHANGED <<receiving, rcv, disk>>
    BY <1>9 DEF OpenUnsafe
  <2>2. LinkOK'
    <3> DEFINE q == Other(p)
               t == Tail(wire[q])
               u == Append(buf[p], Skip)
    <3>1. q \in Peers /\ t \in Seq(Wire(q))
      BY <1>1, <1>2, OtherPeer, HeadTailProperties DEF LinkOK
    <3>2. u \in Seq(Wire(p))
      <4>1. buf[p] \in Seq(Wire(p)) /\ Skip \in Wire(p)
        BY <1>1, ControlFrames DEF LinkOK
      <4> QED  BY <4>1, AppendProperties
    <3>3. Seq(Wire(p)) \subseteq Seq(Frames) /\ Seq(Wire(q)) \subseteq Seq(Frames)
      BY SeqMonotonic DEF Wire
    <3>4. wire' = [wire EXCEPT ![q] = t] /\ buf' = [buf EXCEPT ![p] = u]
      BY <1>9 DEF OpenUnsafe
    <3> HIDE DEF q, t, u
    <3> QED  BY <1>1, <3>1, <3>2, <3>3, <3>4 DEF LinkOK
  <2> QED  BY <1>6, <2>1, <2>2, Kept DEF Inv
<1>10. CASE OpenSkip(p)
  <2>1. /\ rcv' = [rcv EXCEPT ![p] = r] /\ disk' = [disk EXCEPT ![p] = disk[p]]
        /\ receiving' = [receiving EXCEPT ![p] = "reply"] /\ UNCHANGED buf
        /\ wire' = [wire EXCEPT ![Other(p)] = Tail(@), ![p] = @ \o <<Skip>>]
    BY <1>7, <1>10 DEF OpenSkip, Answer, RecvGoes
  <2>2. LinkOK'
    BY <1>1, <1>2, <1>8, <2>1, AnswerOK
  <2> HIDE DEF r
  <2>3. "reply" \in {"read", "reply", "verify"} /\ "reply" # "verify"
    OBVIOUS
  <2>4. RecvOK'
    BY <1>1, <1>5, <2>1, <2>3, RecvSet
  <2> QED  BY <1>6, <2>2, <2>4 DEF Inv
<1>11. CASE OpenResume(p)
  <2>1. c \in Seq(Unit) /\ c # Absent
    BY <1>4, <1>11 DEF OpenResume, Resumable
  <2>2. <<Verify(c)>> \in Seq(Wire(p))
    BY <2>1, ControlFrames
  <2>3. /\ rcv' = [rcv EXCEPT ![p] = r] /\ disk' = [disk EXCEPT ![p] = disk[p]]
        /\ receiving' = [receiving EXCEPT ![p] = "verify"] /\ UNCHANGED buf
        /\ wire' = [wire EXCEPT ![Other(p)] = Tail(@), ![p] = @ \o <<Verify(c)>>]
    BY <1>7, <1>11 DEF OpenResume, Answer, RecvGoes
  <2> HIDE DEF c
  <2>4. LinkOK'
    BY <1>1, <1>2, <2>2, <2>3, AnswerOK
  <2> HIDE DEF r, m
  <2>5. r.file # None /\ disk[p][r.file] # Absent /\ "verify" \in {"read", "reply", "verify"}
    BY <1>4, <1>5, <2>1
  <2>6. RecvOK'
    BY <1>1, <1>5, <2>3, <2>5, RecvSet
  <2> QED  BY <1>6, <2>4, <2>6 DEF Inv
<1>12. CASE OpenFresh(p)
  <2> DEFINE e == <<>>
             d == [disk[p] EXCEPT ![m.name] = e]
             o == [r EXCEPT !.fd = m.name]
  <2>1. e \in Seq(Unit) /\ e # Absent
    BY EmptySeq, FilesAssumption
  <2>2. rcv' = [rcv EXCEPT ![p] = o] /\ disk' = [disk EXCEPT ![p][m.name] = e]
    BY <1>12 DEF OpenFresh
  <2>3. LinkOK' /\ receiving' = receiving
    BY <1>1, <1>2, <1>12, NoAnswerOK DEF OpenFresh, NoAnswer
  <2> HIDE DEF e, m, r
  <2>4. disk' = [disk EXCEPT ![p] = d]
    BY <1>1, <2>2 DEF RecvOK
  <2>5. d \in [Names -> Seq(Unit) \cup {Absent}] /\ d[m.name] = e
    BY <1>1, <1>3, <2>1
  <2>6. o \in Receivers /\ o.fd = m.name
    BY <1>3, <1>5 DEF Receivers
  <2> HIDE DEF d, o
  <2>7. receiving' = [receiving EXCEPT ![p] = "read"]
    BY <1>1, <1>2, <2>3 DEF RecvOK
  <2>8. "read" \in {"read", "reply", "verify"} /\ "read" # "verify"
    OBVIOUS
  <2>9. RecvOK'
    BY <1>1, <2>1, <2>2, <2>4, <2>5, <2>6, <2>7, <2>8, RecvSet
  <2> QED  BY <1>6, <2>3, <2>9 DEF Inv
<1> QED  BY <1>9, <1>10, <1>11, <1>12 DEF HandleOpen

\* DATA: written if it is the block that is expected and a file is open, and answered.
LEMMA DataOK ==
  ASSUME Inv, NEW p \in Peers, DataExpected(p) \/ DataUnexpected(p) PROVE Inv'
<1> DEFINE m == Packet(p)
           answer == IF m.block > rcv[p].expected THEN <<Nak(m.batch, rcv[p].expected)>>
                                                  ELSE <<Ack(m.batch, m.block)>>
<1>1. /\ LinkOK /\ RecvOK /\ rcv[p] \in Receivers
      /\ disk[p] \in [Names -> Seq(Unit) \cup {Absent}]
      /\ rcv[p].fd # None => disk[p][rcv[p].fd] # Absent
  BY DEF Inv, RecvOK
<1>2. /\ wire[Other(p)] # <<>> /\ m.type = "D" /\ receiving[p] = "read"
      /\ UNCHANGED <<state, sending, event, snd, reported, budgets>>
      /\ receiving' = [receiving EXCEPT ![p] = "reply"] /\ UNCHANGED buf
  BY DEF DataExpected, DataUnexpected, Transferring, Arrives, Answer, RecvGoes
<1>3. m.batch \in Nat /\ m.block \in Nat /\ m.data \in Seq(Unit)
  <2>1. wire[Other(p)] \in Seq(Frames)
    BY <1>1, OtherPeer DEF LinkOK
  <2>2. m \in Frames
    BY <1>2, <2>1, HeadTailProperties DEF Packet
  <2> QED  BY <1>2, <2>2, FrameFields
<1>4. rcv[p].expected \in Nat /\ rcv[p].fd \in Names \cup {None}
  BY <1>1 DEF Receivers
<1>5. /\ <<Ack(m.batch, m.block)>> \in Seq(Wire(p))
      /\ <<Nak(m.batch, rcv[p].expected)>> \in Seq(Wire(p))
  BY <1>3, <1>4, ControlFrames
<1>6. answer \in Seq(Wire(p))
  BY <1>5
<1>7. SndOK' /\ StateOK' /\ BudgetsOK'
  BY <1>2, Kept
<1>8. CASE DataUnexpected(p)
  <2>1. /\ UNCHANGED <<rcv, disk>>
        /\ wire' = [wire EXCEPT ![Other(p)] = Tail(@), ![p] = @ \o answer]
    BY <1>8 DEF DataUnexpected, Answer
  <2> HIDE DEF answer
  <2>2. LinkOK'
    BY <1>1, <1>2, <1>6, <2>1, AnswerOK
  <2>3. RecvOK'
    BY <1>1, <1>2, <2>1, RecvHandled
  <2> QED  BY <1>7, <2>2, <2>3 DEF Inv
<1>9. CASE DataExpected(p)
  <2> DEFINE r == [rcv[p] EXCEPT !.expected = rcv[p].expected + 1]
             c == disk[p][rcv[p].fd] \o m.data
             d == IF rcv[p].fd = None THEN disk[p] ELSE [disk[p] EXCEPT ![rcv[p].fd] = c]
  <2>1. r \in Receivers /\ r.fd = rcv[p].fd /\ rcv' = [rcv EXCEPT ![p] = r]
    <3>1. rcv[p].expected + 1 \in Nat
      BY <1>4
    <3>2. rcv' = [rcv EXCEPT ![p] = r]
      BY <1>9 DEF DataExpected
    <3> QED  BY <1>1, <3>1, <3>2 DEF Receivers
  <2>2. wire' = [wire EXCEPT ![Other(p)] = Tail(@), ![p] = @ \o <<Ack(m.batch, m.block)>>]
    BY <1>9 DEF DataExpected, Answer
  <2>3. LinkOK'
    BY <1>1, <1>2, <1>5, <2>2, AnswerOK
  <2>4. /\ d \in [Names -> Seq(Unit) \cup {Absent}] /\ disk' = [disk EXCEPT ![p] = d]
        /\ r.fd # None => d[r.fd] # Absent
    <3>1. CASE rcv[p].fd = None
      <4>1. d = disk[p] /\ disk' = disk
        BY <1>9, <3>1 DEF DataExpected
      <4> QED  BY <1>1, <2>1, <3>1, <4>1 DEF RecvOK
    <3>2. CASE rcv[p].fd # None
      <4>1. disk[p][rcv[p].fd] \in Seq(Unit) /\ rcv[p].fd \in Names
        BY <1>1, <1>4, <3>2
      <4>2. c \in Seq(Unit) /\ c # Absent
        <5> DEFINE b == disk[p][rcv[p].fd]
                   t == m.data
        <5>1. b \in Seq(Unit) /\ t \in Seq(Unit)
          BY <1>3, <4>1
        <5> HIDE DEF b, t
        <5>2. b \o t \in Seq(Unit)
          BY <5>1, ConcatProperties
        <5>3. b \o t # Absent
          BY <5>2, FilesAssumption
        <5> QED  BY <5>2, <5>3 DEF b, t
      <4>3. disk' = [disk EXCEPT ![p][rcv[p].fd] = c] /\ d = [disk[p] EXCEPT ![rcv[p].fd] = c]
        BY <1>9, <3>2 DEF DataExpected
      <4> HIDE DEF c, d, r
      <4>4. disk' = [disk EXCEPT ![p] = d]
        BY <1>1, <4>3 DEF RecvOK
      <4> QED  BY <1>1, <2>1, <4>1, <4>2, <4>3, <4>4
    <3> QED  BY <3>1, <3>2
  <2> HIDE DEF r, d
  <2>5. "reply" \in {"read", "reply", "verify"} /\ "reply" # "verify"
    OBVIOUS
  <2>6. RecvOK'
    BY <1>1, <1>2, <2>1, <2>4, <2>5, RecvSet
  <2> QED  BY <1>7, <2>3, <2>6 DEF Inv
<1> QED  BY <1>8, <1>9

\* The receive task goes on behind its write; behind VERIFY it opens the partial copy.
LEMMA AnsweredOK ==
  ASSUME Inv, NEW p \in Peers, Answered(p) \/ VerifySent(p) PROVE Inv'
<1>1. /\ RecvOK /\ rcv[p] \in Receivers /\ disk[p] \in [Names -> Seq(Unit) \cup {Absent}]
  BY DEF Inv, RecvOK
<1>2. CASE Answered(p)
  <2>1. receiving' = [receiving EXCEPT ![p] = "read"] /\ UNCHANGED <<rcv, disk>>
    BY <1>2 DEF Answered, RecvGoes
  <2>2. RecvOK'
    BY <1>1, <2>1, RecvHandled
  <2> QED  BY <1>2, <2>2, Kept DEF Answered, Inv
<1>3. CASE VerifySent(p)
  <2> DEFINE c == disk[p][rcv[p].file]
             n == FullBlocks(c)
             r == [rcv[p] EXCEPT !.fd = rcv[p].file, !.expected = n]
  <2>1. rcv[p].file # None /\ c # Absent
    BY <1>1, <1>3 DEF VerifySent, RecvOK
  <2>2. rcv[p].file \in Names /\ c \in Seq(Unit)
    BY <1>1, <2>1 DEF Receivers
  <2>3. n \in Nat
    BY <2>2, FullBlocksType
  <2>4. rcv' = [rcv EXCEPT ![p] = r] /\ disk' = disk
        /\ receiving' = [receiving EXCEPT ![p] = "read"]
    BY <1>3 DEF VerifySent, RecvGoes
  <2> HIDE DEF n
  <2>5. r \in Receivers /\ r.fd = rcv[p].file
    BY <1>1, <2>2, <2>3 DEF Receivers
  <2> HIDE DEF r
  <2>6. disk' = [disk EXCEPT ![p] = disk[p]]
    BY <1>1, <2>4 DEF RecvOK
  <2>7. r.fd # None => disk[p][r.fd] # Absent
    BY <2>1, <2>5
  <2>8. "read" \in {"read", "reply", "verify"} /\ "read" # "verify"
    OBVIOUS
  <2>9. RecvOK'
    BY <1>1, <2>4, <2>5, <2>6, <2>7, <2>8, RecvSet
  <2> QED  BY <1>3, <2>9, Kept DEF VerifySent, Inv
<1> QED  BY <1>2, <1>3

\* Every step of the receive task preserves the invariant.
LEMMA RecvTaskOK == ASSUME Inv, NEW p \in Peers, RecvTask(p) PROVE Inv'
BY HandshakeOK, HandleAckOK, HandleNakOK, HandleSkipOK, HandleVerifyOK, OpenOK, DataOK,
   SeekCloseOK, IgnoreOK, AnsweredOK DEF RecvTask

\* So does every step of the send task.
LEMMA SendTaskOK == ASSUME Inv, NEW p \in Peers, SendTask(p) PROVE Inv'
BY AllSentOK, OpenNextOK, FillActionsOK, CloseSentOK DEF SendTask

-----------------------------------------------------------------------------
(***************************************************************************)
(* The end of the tasks, and the environment.                              *)
(***************************************************************************)
\* idle_timeout, and a connection that the peer has closed.
LEMMA EndOK == ASSUME Inv, NEW p \in Peers, IdleTimeout(p) \/ ConnectionClosed(p) PROVE Inv'
<1>1. /\ state' = [state EXCEPT ![p] = "DONE"]
      /\ UNCHANGED <<tasks, event, snd, rcv, disk, links, reported, budgets>>
  BY DEF IdleTimeout, ConnectionClosed
<1>2. StateOK'
  BY <1>1 DEF Inv, StateOK
<1> QED  BY <1>1, <1>2, Kept DEF Inv, tasks

\* A sender that has not started yet: every file is in the queue.
LEMMA NewSenderOK ==
  ASSUME NEW p \in Peers
  PROVE  NewSender(p) \in Senders /\ Books(p, NewSender(p)) /\ Relies("wait", NewSender(p))
<1> DEFINE s == NewSender(p)
<1>1. Queue[p] \in Seq(Files) /\ InitialWindow \in Nat \ {0}
  BY FilesAssumption, WindowAssumption
<1>2. /\ s \in Senders /\ s.queue = Queue[p] /\ s.cur = None /\ s.unacked = {} /\ s.batch = 0
      /\ s.timed = {}
  BY <1>1 DEF NewSender, Senders
<1> HIDE DEF s
<1>3. Books(p, s)
  BY <1>1, <1>2, FS_EmptySet DEF Books
<1>4. Relies("wait", s)
  BY DEF Relies
<1> QED  BY <1>2, <1>3, <1>4 DEF s

\* Both links, and both receivers, when the programs start.
LEMMA NewLinksOK ==
  LET b == [p \in Peers |-> <<>>]
      w == [p \in Peers |-> <<RQ>>]
  IN /\ b \in [Peers -> Seq(Frames)] /\ w \in [Peers -> Seq(Frames)]
     /\ \A p \in Peers : b[p] \in Seq(Wire(p)) /\ w[p] \in Seq(Wire(p))
<1>1. \A S : <<>> \in Seq(S)
  BY EmptySeq
<1>2. \A p \in Peers : RQ \in Wire(p) /\ RQ \in Frames
  BY ControlFrames DEF Wire
<1>3. \A p \in Peers : <<RQ>> \in Seq(Wire(p)) /\ <<RQ>> \in Seq(Frames)
  BY <1>2
<1> QED  BY <1>1, <1>3

\* A receiver that has nothing open.
LEMMA NewReceiverOK == NewReceiver \in Receivers /\ NewReceiver.fd = None
BY DEF NewReceiver, Receivers

\* The first session.
LEMMA InitOK == Init => Inv
<1> SUFFICES ASSUME Init PROVE Inv
  OBVIOUS
<1>1. LinkOK
  BY NewLinksOK, Zenon DEF Init, Start, LinkOK
<1>2. SndOK
  BY NewSenderOK DEF Init, Start, SndOK, Places
<1>3. RecvOK
  BY NewReceiverOK, FilesAssumption DEF Init, Start, RecvOK
<1>4. StateOK
  BY DEF Init, Start, StateOK
<1>5. BudgetsOK
  BY WindowAssumption DEF Init, BudgetsOK
<1> QED  BY <1>1, <1>2, <1>3, <1>4, <1>5 DEF Inv

\* A later session, with the directories that the last one left.
LEMMA ReconnectOK == ASSUME Inv, Reconnect PROVE Inv'
<1>1. LinkOK'
  BY NewLinksOK, Zenon DEF Reconnect, LinkOK
<1>2. SndOK'
  BY NewSenderOK DEF Reconnect, SndOK, Places
<1>3. RecvOK'
  BY NewReceiverOK DEF Reconnect, Inv, RecvOK
<1>4. StateOK'
  BY DEF Reconnect, Inv, StateOK
<1>5. BudgetsOK'
  BY WindowAssumption DEF Reconnect, Inv, BudgetsOK
<1> QED  BY <1>1, <1>2, <1>3, <1>4, <1>5 DEF Inv

\* Every step preserves the invariant.
LEMMA NextOK == Inv /\ [Next]_vars => Inv'
<1> SUFFICES ASSUME Inv, [Next]_vars PROVE Inv'
  OBVIOUS
<1>1. CASE UNCHANGED vars
  BY <1>1, Kept DEF vars, tasks, Inv
<1>2. CASE Next
  BY <1>1, <1>2, SendTaskOK, TimeoutOK, RecvTaskOK, EndOK, IgnoreOK, ReconnectOK
     DEF Next, Terminated
<1> QED  BY <1>1, <1>2

\* The invariant holds in every reachable state.
LEMMA Invariance == Spec => []Inv
<1> QED  BY InitOK, NextOK, PTL DEF Spec

-----------------------------------------------------------------------------
\* Every variable keeps its type, the window of a sender never closes altogether, and a file
\* that a receiver has open is in its directory.
THEOREM TypeCorrect == Spec => []TypeOK
<1> QED  BY Invariance, InvImplies, PTL

\* Every block that waits for its ACK has the send time that its ARQ timeout needs, although
\* a handler may have taken the entry away during the write of a resend.
THEOREM UnackedTimed == Spec => []UnackedIsTimed
<1> QED  BY Invariance, InvImplies, PTL

\* The sender's books balance, at every await of the send task and whatever the receive task
\* does there: what is closed, what is current and what is queued are the files the session
\* was started with, in order, and only sent blocks of the current file are unacknowledged.
THEOREM AccountsBalance == Spec => []SenderAccounts
<1> QED  BY Invariance, InvImplies, PTL

\* A frame on its way, or in the write buffer, that calls itself block k of file b of the
\* batch is that block.
THEOREM FramesGenuine == Spec => []GenuineFrames
<1> QED  BY Invariance, InvImplies, PTL

-----------------------------------------------------------------------------
(***************************************************************************)
(* No answer goes unnoticed while no file is resumed.  (VERIFY moves the   *)
(* sender on without waking it, and an ARQ timeout has to.)                *)
(***************************************************************************)
NoVerify == \A p \in Peers : \A i \in 1..Len(wire[p]) : wire[p][i].type # "V"

\* The send task at its await: what it could do at once, it will be woken for.  Behind the
\* flush it looks only whether the file is finished, so an answer that opens the window during
\* the flush must have set the event.
Alert(place, st, s, set) ==
  /\ st = "TRANSFERRING" /\ s.cur # None
  /\ \/ place = "wait" /\ (Unsent(s) > 0 \/ Finished(s))
     \/ place = "flushed" /\ Unsent(s) > 0
  => set

Noticed == \A p \in Peers : Alert(sending[p], state[p], snd[p], event[p])

\* What the window admits is a number.
LEMMA UnsentType ==
  ASSUME NEW p \in Peers, NEW s \in Senders, Books(p, s) PROVE Unsent(s) \in Int
<1>1. s.unacked \in SUBSET Nat /\ IsFiniteSet(s.unacked)
  BY DEF Senders, Books
<1>2. s.total \in Nat /\ s.next \in Nat /\ s.window \in Nat /\ Cardinality(s.unacked) \in Nat
  BY <1>1, FS_CardinalityType DEF Senders
<1> QED  BY <1>2 DEF Unsent, Minimum

\* A step of one peer that leaves its own send task alert leaves all of them so.
LEMMA NoticedStep ==
  ASSUME Inv, Noticed, NEW p \in Peers, NEW place, NEW s, NEW set,
         snd' = [snd EXCEPT ![p] = s], sending' = [sending EXCEPT ![p] = place],
         event' = [event EXCEPT ![p] = set], UNCHANGED state, Alert(place, state[p], s, set)
  PROVE  Noticed'
<1>1. /\ \A q \in Peers \ {p} : /\ snd'[q] = snd[q] /\ sending'[q] = sending[q]
                                /\ event'[q] = event[q]
      /\ snd'[p] = s /\ sending'[p] = place /\ event'[p] = set
  BY DEF Inv, SndOK, StateOK
<1>2. ASSUME NEW q \in Peers PROVE Alert(sending'[q], state'[q], snd'[q], event'[q])
  <2>1. CASE q = p
    BY <1>1, <2>1
  <2>2. CASE q # p
    BY <1>1, <2>2 DEF Noticed
  <2> QED  BY <2>1, <2>2
<1>3. \A q \in Peers : Alert(sending'[q], state'[q], snd'[q], event'[q])
  BY <1>2
<1> QED  BY <1>3 DEF Noticed, Alert, Unsent, Finished

\* A step that does not concern any send task leaves them alert.
LEMMA NoticedKept ==
  ASSUME Noticed, UNCHANGED <<snd, sending, event, state>> PROVE Noticed'
BY DEF Noticed, Alert, Unsent, Finished

\* The send task leaves the event set where it found it set, and clears it only when it looks
\* at the window itself.
LEMMA FinishAlert ==
  ASSUME Inv, Noticed, NEW p \in Peers, NEW s \in Senders, Books(p, s), Finish(p, s),
         NEW set, event' = [event EXCEPT ![p] = set], UNCHANGED state,
         Unsent(s) > 0 /\ state[p] = "TRANSFERRING" /\ s.cur # None => set
  PROVE  Noticed'
<1>1. snd' = [snd EXCEPT ![p] = s]
  BY DEF Finish
<1>2. CASE Finished(s)
  <2>1. sending' = [sending EXCEPT ![p] = "closing"]
    BY <1>2 DEF Finish, SendGoes
  <2>2. Alert("closing", state[p], s, set)
    BY DEF Alert
  <2> QED  BY <1>1, <2>1, <2>2, NoticedStep
<1>3. CASE ~Finished(s)
  <2>1. sending' = [sending EXCEPT ![p] = "wait"]
    BY <1>3 DEF Finish, SendGoes
  <2>2. Alert("wait", state[p], s, set)
    BY <1>3 DEF Alert
  <2> QED  BY <1>1, <2>1, <2>2, NoticedStep
<1> QED  BY <1>2, <1>3

\* Behind "Fill Window" there is nothing that the window admits.
LEMMA FillAlert ==
  ASSUME Inv, Noticed, NEW p \in Peers, NEW s \in Senders, Books(p, s), s.cur # None,
         FillFrom(p, s), NEW set, event' = [event EXCEPT ![p] = set], UNCHANGED state
  PROVE  Noticed'
<1>1. Unsent(s) \in Int
  BY UnsentType
<1>2. CASE Unsent(s) <= 0
  <2>1. Finish(p, s)
    BY <1>2 DEF FillFrom
  <2>2. ~(Unsent(s) > 0)
    BY <1>1, <1>2
  <2> QED  BY <2>1, <2>2, FinishAlert
<1>3. CASE ~(Unsent(s) <= 0)
  <2> DEFINE m == More(s, Unsent(s))
  <2>1. Unsent(s) > 0
    BY <1>1, <1>3
  <2>2. m \in Senders /\ Books(p, m) /\ Unsent(m) <= 0
    BY <2>1, MoreOK
  <2>3. snd' = [snd EXCEPT ![p] = m] /\ sending' = [sending EXCEPT ![p] = "flushed"]
    BY <1>3 DEF FillFrom, SendGoes, More
  <2> HIDE DEF m
  <2>4. ~(Unsent(m) > 0)
    <3>1. Unsent(m) \in Int
      BY <2>2, UnsentType
    <3> QED  BY <2>2, <3>1
  <2>5. Alert("flushed", state[p], m, set)
    BY <2>4 DEF Alert
  <2> QED  BY <2>3, <2>5, NoticedStep
<1> QED  BY <1>2, <1>3

\* The send task.
LEMMA SendTaskAlert ==
  ASSUME Inv, Noticed, NEW p \in Peers, SendTask(p) \/ Timeout(p) PROVE Noticed'
<1> DEFINE s == snd[p]
           same == event[p]
           off == FALSE
<1>1. s \in Senders /\ Books(p, s) /\ Relies(sending[p], s) /\ SndOK
  BY DEF Inv, SndOK
<1>2. event = [event EXCEPT ![p] = same]
  BY DEF Inv, StateOK
<1>3. Wakes(p) => event' = [event EXCEPT ![p] = off]
  BY DEF Wakes
<1>4. \A place : AtAwait(p, place) => event' = [event EXCEPT ![p] = same]
  BY <1>2 DEF AtAwait
<1> HIDE DEF same, off
<1>5. CASE AllSent(p) /\ s.batch > 0
  <2>1. /\ UNCHANGED <<state, snd>> /\ event' = [event EXCEPT ![p] = off]
        /\ sending' = [sending EXCEPT ![p] = "ending"]
    BY <1>3, <1>5 DEF AllSent, SendGoes
  <2>2. snd' = [snd EXCEPT ![p] = s] /\ Alert("ending", state[p], s, off)
    BY <2>1 DEF Inv, SndOK, Alert
  <2> QED  BY <2>1, <2>2, NoticedStep
<1>6. CASE AllSent(p) /\ ~(s.batch > 0)
  <2> DEFINE t == [s EXCEPT !.sentZ = TRUE]
  <2>1. /\ UNCHANGED <<state, sending>> /\ event' = [event EXCEPT ![p] = off]
        /\ snd' = [snd EXCEPT ![p] = t] /\ s.cur = None
    BY <1>3, <1>6 DEF AllSent
  <2>2. t.cur = None
    BY <1>1, <2>1 DEF Senders
  <2> HIDE DEF t
  <2>3. sending' = [sending EXCEPT ![p] = sending[p]] /\ Alert(sending[p], state[p], t, off)
    BY <2>1, <2>2 DEF Inv, SndOK, Alert
  <2> QED  BY <2>1, <2>3, NoticedStep
<1>7. CASE DoneSent(p)
  <2> DEFINE t == [s EXCEPT !.sentZ = TRUE]
  <2>1. /\ UNCHANGED state /\ event' = [event EXCEPT ![p] = same]
        /\ sending' = [sending EXCEPT ![p] = "wait"] /\ snd' = [snd EXCEPT ![p] = t]
    BY <1>4, <1>7 DEF DoneSent, SendGoes
  <2>2. s.cur = None
    BY <1>1, <1>7 DEF DoneSent, AtAwait, Relies
  <2>3. t.cur = None
    BY <1>1, <2>2 DEF Senders
  <2> HIDE DEF t
  <2>4. Alert("wait", state[p], t, same)
    BY <2>3 DEF Alert
  <2> QED  BY <2>1, <2>4, NoticedStep
<1>8. CASE OpenNext(p)
  <2>1. /\ UNCHANGED <<state, snd>> /\ event' = [event EXCEPT ![p] = off]
        /\ sending' = [sending EXCEPT ![p] = "opening"]
    BY <1>3, <1>8 DEF OpenNext, SendGoes
  <2>2. snd' = [snd EXCEPT ![p] = s] /\ Alert("opening", state[p], s, off)
    BY <2>1 DEF Inv, SndOK, Alert
  <2> QED  BY <2>1, <2>2, NoticedStep
<1>9. CASE OpenSent(p)
  <2>1. /\ UNCHANGED state /\ event' = [event EXCEPT ![p] = same]
        /\ FillFrom(p, Opened(s)) /\ Relies("opening", s)
    BY <1>1, <1>4, <1>9 DEF OpenSent, AtAwait
  <2>2. Opened(s) \in Senders /\ Books(p, Opened(s)) /\ Opened(s).cur # None
    BY <1>1, <2>1, OpenedOK
  <2> QED  BY <2>1, <2>2, FillAlert
<1>10. CASE Pump(p)
  <2>1. /\ UNCHANGED state /\ event' = [event EXCEPT ![p] = off]
        /\ FillFrom(p, s) /\ s.cur # None
    BY <1>3, <1>10 DEF Pump
  <2> QED  BY <1>1, <2>1, FillAlert
<1>11. CASE Resent(p)
  <2> DEFINE d == s.timed \cup {s.oldest}
             t == [s EXCEPT !.timed = d, !.oldest = 0]
  <2>1. /\ UNCHANGED state /\ event' = [event EXCEPT ![p] = same]
        /\ FillFrom(p, t) /\ s.cur # None
    BY <1>1, <1>4, <1>11 DEF Resent, AtAwait, Relies
  <2>2. d \in SUBSET Nat /\ s.timed \subseteq d
    BY <1>1 DEF Senders
  <2> HIDE DEF d
  <2>3. /\ t \in Senders /\ t.timed = d /\ t.cur = s.cur /\ t.queue = s.queue
        /\ t.unacked = s.unacked /\ t.next = s.next /\ t.total = s.total /\ t.batch = s.batch
    BY <1>1, <2>2 DEF Senders
  <2> HIDE DEF t
  <2>4. Books(p, t)
    BY <1>1, <2>2, <2>3 DEF Books
  <2> QED  BY <2>1, <2>3, <2>4, FillAlert
<1>12. CASE Flushed(p)
  <2>1. /\ UNCHANGED state /\ event' = [event EXCEPT ![p] = same]
        /\ Finish(p, s) /\ sending[p] = "flushed"
    BY <1>4, <1>12 DEF Flushed, AtAwait
  <2>2. Unsent(s) > 0 /\ state[p] = "TRANSFERRING" /\ s.cur # None => same
    BY <2>1 DEF Noticed, Alert, same
  <2> QED  BY <1>1, <2>1, <2>2, FinishAlert
<1>13. CASE CloseSent(p)
  <2> DEFINE t == [s EXCEPT !.cur = None, !.batch = s.batch + 1]
  <2>1. /\ UNCHANGED state /\ event' = [event EXCEPT ![p] = same]
        /\ sending' = [sending EXCEPT ![p] = "wait"] /\ snd' = [snd EXCEPT ![p] = t]
    BY <1>4, <1>13 DEF CloseSent, SendGoes
  <2>2. t.cur = None
    BY <1>1 DEF Senders
  <2> HIDE DEF t
  <2>3. Alert("wait", state[p], t, same)
    BY <2>2 DEF Alert
  <2> QED  BY <2>1, <2>3, NoticedStep
<1>14. CASE Timeout(p)
  <2> DEFINE t == [Halved(s) EXCEPT !.oldest = Oldest(s.unacked)]
  <2>1. /\ UNCHANGED state /\ event' = [event EXCEPT ![p] = off]
        /\ sending' = [sending EXCEPT ![p] = "resent"] /\ snd' = [snd EXCEPT ![p] = t]
    BY <1>3, <1>14 DEF Timeout, SendGoes
  <2> HIDE DEF t
  <2>2. Alert("resent", state[p], t, off)
    BY DEF Alert
  <2> QED  BY <2>1, <2>2, NoticedStep
<1> QED  BY <1>5, <1>6, <1>7, <1>8, <1>9, <1>10, <1>11, <1>12, <1>13, <1>14 DEF SendTask

\* The receive task wakes the sender with every ACK and every SKIP; a NAK only narrows the
\* window.
LEMMA RecvTaskAlert ==
  ASSUME Inv, Noticed, NoVerify, NEW p \in Peers, RecvTask(p) PROVE Noticed'
<1> DEFINE s == snd[p]
           on == TRUE
<1>1. s \in Senders /\ Books(p, s) /\ Relies(sending[p], s) /\ SndOK
  BY DEF Inv, SndOK
<1>2. sending = [sending EXCEPT ![p] = sending[p]]
  BY DEF Inv, SndOK
<1>3. WakeSender(p) => event' = [event EXCEPT ![p] = on]
  BY DEF WakeSender
<1>4. \A place, t : Alert(place, state[p], t, on)
  BY DEF Alert
<1> HIDE DEF on
<1>5. CASE HandleAck(p)
  <2> DEFINE k == Packet(p).block
  <2>1. PICK w \in IF k \in s.timed THEN Windows(s) ELSE {s.window} :
          snd' = [snd EXCEPT ![p] = [s EXCEPT !.window = w, !.unacked = @ \ {k},
                                              !.timed = @ \ {k}]]
    BY <1>5 DEF HandleAck
  <2> DEFINE t == [s EXCEPT !.window = w, !.unacked = @ \ {k}, !.timed = @ \ {k}]
  <2>2. /\ UNCHANGED <<state, sending>> /\ event' = [event EXCEPT ![p] = on]
        /\ snd' = [snd EXCEPT ![p] = t]
    BY <1>3, <1>5, <2>1 DEF HandleAck, Transferring
  <2> HIDE DEF t
  <2> QED  BY <1>2, <1>4, <2>2, NoticedStep
<1>6. CASE HandleNak(p)
  <2> DEFINE h == Halved(s)
             same == event[p]
  <2>1. /\ UNCHANGED <<state, sending, event>> /\ snd' = [snd EXCEPT ![p] = h]
    BY <1>6 DEF HandleNak, Transferring
  <2>2. /\ h \in Senders /\ Books(p, h) /\ h.window <= s.window
        /\ h.cur = s.cur /\ h.unacked = s.unacked /\ h.next = s.next /\ h.total = s.total
    BY <1>1, HalvedOK
  <2> HIDE DEF h
  <2>3. Unsent(h) > 0 => Unsent(s) > 0
    <3>1. s.unacked \in SUBSET Nat /\ IsFiniteSet(s.unacked)
      BY <1>1 DEF Senders, Books
    <3>2. /\ s.total \in Nat /\ s.next \in Nat /\ s.window \in Nat /\ h.window \in Nat
          /\ Cardinality(s.unacked) \in Nat
      BY <1>1, <2>2, <3>1, FS_CardinalityType DEF Senders
    <3> QED  BY <2>2, <3>2 DEF Unsent, Minimum
  <2>4. Finished(h) <=> Finished(s)
    BY <2>2 DEF Finished
  <2>5. Alert(sending[p], state[p], h, same)
    BY <2>2, <2>3, <2>4 DEF Noticed, Alert
  <2>6. event' = [event EXCEPT ![p] = same]
    BY <2>1 DEF Inv, StateOK
  <2> HIDE DEF same
  <2> QED  BY <1>2, <2>1, <2>5, <2>6, NoticedStep
<1>7. CASE HandleSkip(p)
  <2> DEFINE t == [s EXCEPT !.unacked = {}, !.timed = {}, !.next = s.total]
  <2>1. /\ UNCHANGED <<state, sending>> /\ event' = [event EXCEPT ![p] = on]
        /\ snd' = [snd EXCEPT ![p] = t]
    BY <1>3, <1>7 DEF HandleSkip, Transferring
  <2> HIDE DEF t
  <2> QED  BY <1>2, <1>4, <2>1, NoticedStep
<1>8. CASE HandleVerify(p)
  <2>1. wire[Other(p)] \in Seq(Frames) /\ wire[Other(p)] # <<>> /\ Packet(p).type = "V"
    BY <1>8, OtherPeer DEF HandleVerify, Transferring, Arrives, Inv, LinkOK
  <2>2. 1 \in 1..Len(wire[Other(p)]) /\ Packet(p) = wire[Other(p)][1]
    BY <2>1 DEF Packet
  <2> QED  BY <2>1, <2>2, OtherPeer DEF NoVerify
<1>9. CASE Handshake(p)
  <2>1. /\ state' = [state EXCEPT ![p] = "TRANSFERRING"] /\ UNCHANGED <<snd, sending>>
        /\ event' = [event EXCEPT ![p] = on] /\ on
    BY <1>3, <1>9 DEF Handshake, on
  <2>2. ASSUME NEW q \in Peers PROVE Alert(sending'[q], state'[q], snd'[q], event'[q])
    <3>1. CASE q = p
      BY <2>1, <3>1 DEF Alert, Inv, StateOK
    <3>2. CASE q # p
      <4>1. state'[q] = state[q] /\ event'[q] = event[q]
        BY <2>1, <3>2 DEF Inv, StateOK
      <4> QED  BY <2>1, <4>1 DEF Noticed
    <3> QED  BY <3>1, <3>2
  <2>3. \A q \in Peers : Alert(sending'[q], state'[q], snd'[q], event'[q])
    BY <2>2
  <2> QED  BY <2>3 DEF Noticed, Alert, Unsent, Finished
<1>10. CASE HandleOpen(p) \/ DataExpected(p) \/ DataUnexpected(p) \/ HandleSeek(p)
            \/ HandleClose(p)
  <2>1. UNCHANGED <<snd, sending, event, state>>
    BY <1>10 DEF HandleOpen, OpenUnsafe, OpenSkip, OpenResume, OpenFresh, DataExpected,
                 DataUnexpected, HandleSeek, HandleClose, Transferring
  <2> QED  BY <2>1, NoticedKept
<1>11. CASE Ignore(p) \/ Answered(p) \/ VerifySent(p)
  <2>1. UNCHANGED <<snd, sending, event, state>>
    BY <1>11 DEF Ignore, Answered, VerifySent
  <2> QED  BY <2>1, NoticedKept
<1> QED  BY <1>5, <1>6, <1>7, <1>8, <1>9, <1>10, <1>11 DEF RecvTask

\* Every step, while no VERIFY is on its way.
LEMMA NoticedNext == Inv /\ Noticed /\ NoVerify /\ [Next]_vars => Noticed'
<1> SUFFICES ASSUME Inv, Noticed, NoVerify, [Next]_vars PROVE Noticed'
  OBVIOUS
<1>1. ASSUME NEW p \in Peers, IdleTimeout(p) \/ ConnectionClosed(p) PROVE Noticed'
  <2>1. state' = [state EXCEPT ![p] = "DONE"] /\ UNCHANGED <<sending, event, snd>>
    BY <1>1 DEF IdleTimeout, ConnectionClosed, tasks
  <2>2. \A q \in Peers : state'[q] = "TRANSFERRING" => state[q] = "TRANSFERRING"
    BY <2>1 DEF Inv, StateOK
  <2>3. \A q \in Peers : Alert(sending'[q], state'[q], snd'[q], event'[q])
    BY <2>1, <2>2 DEF Noticed, Alert
  <2> QED  BY <2>3 DEF Noticed, Alert, Unsent, Finished
<1>2. ASSUME NEW p \in Peers, Lose(p) PROVE Noticed'
  BY <1>2, NoticedKept DEF Lose
<1>3. CASE Reconnect
  <2>1. \A q \in Peers : state'[q] = "INIT"
    BY <1>3 DEF Reconnect
  <2> QED  BY <2>1 DEF Noticed, Alert
<1>4. CASE UNCHANGED vars
  BY <1>4, NoticedKept DEF vars, tasks
<1>5. CASE Next
  BY <1>1, <1>2, <1>3, <1>4, <1>5, SendTaskAlert, RecvTaskAlert DEF Next, Terminated
<1> QED  BY <1>4, <1>5

\* While no file is resumed, every ACK and SKIP is noticed, in whatever write of the send task
\* it arrives: the task never sleeps over a window it could fill or a file it could close.
THEOREM Wakeups == Spec /\ []NoVerify => []NoLostWakeup
<1>1. Init => Noticed
  BY DEF Init, Start, Noticed, Alert
<1>2. Inv /\ Noticed => NoLostWakeup
  BY DEF Noticed, Alert, NoLostWakeup
<1> QED  BY <1>1, <1>2, Invariance, NoticedNext, PTL DEF Spec
=============================================================================
