---------------------------- MODULE HSLinkProofs ----------------------------
(***************************************************************************)
(* Theorems of HSLink, for every choice of its constants.                  *)
(*                                                                         *)
(* Whatever is lost: type correctness, the sender's accounts, and the      *)
(* genuineness of every frame in transit.  The three hold together as one  *)
(* inductive invariant, since a frame that a peer resends is only as right *)
(* as the accounts it is built from.  And a session that ends has          *)
(* exchanged everything.                                                   *)
(*                                                                         *)
(* Where the frames that are sent once and never acknowledged get through, *)
(* the files are delivered block by block, a reported one is whole and     *)
(* final, and the session implements FileTransfer.                         *)
(***************************************************************************)
EXTENDS HSLink, LinkPacketsProofs

-----------------------------------------------------------------------------
(***************************************************************************)
(* The inductive invariant, in the parts that actions disturb separately.  *)
(***************************************************************************)
OutOK == outbuf \in [Peers -> Seq(Frames)] /\ \A p \in Peers : outbuf[p] \in Seq(Wire(p))
InOK == inbox \in [Peers -> Seq(Frames)] /\ \A p \in Peers : inbox[p] \in Seq(Wire(Other(p)))
SndOK == snd \in [Peers -> Senders] /\ SenderAccounts
RecvOK ==
  /\ rcv \in [Peers -> Receivers]
  /\ disk \in [Peers -> [Names -> Seq(Unit) \cup {Absent}]]
  /\ \A p \in Peers : rcv[p].fd # None => disk[p][rcv[p].fd] # Absent
StateOK ==
  /\ state \in [Peers -> {"INIT", "TRANSFERRING", "DONE"}]
  /\ alive \in [Peers -> BOOLEAN]
  /\ reported \in [Peers -> SUBSET Files]
  /\ losses \in 0..MaxLosses /\ early \in 0..MaxEarly
  /\ reconnects \in 0..MaxReconnects

Inv == OutOK /\ InOK /\ SndOK /\ RecvOK /\ StateOK

\* The invariant, written per peer, has the three properties the theorems state.
LEMMA InvImplies == Inv => TypeOK /\ SenderAccounts /\ GenuineFrames
<1>1. Inv => TypeOK
  BY DEF Inv, OutOK, InOK, SndOK, RecvOK, StateOK, TypeOK
<1>2. ASSUME Inv PROVE GenuineFrames
  <2>1. SUFFICES ASSUME NEW p \in Peers
                 PROVE  /\ \A i \in 1..Len(outbuf[p]) : Genuine(p, outbuf[p][i])
                        /\ \A i \in 1..Len(inbox[Other(p)]) : Genuine(p, inbox[Other(p)][i])
    BY DEF GenuineFrames
  <2>2. outbuf[p] \in Seq(Wire(p)) /\ inbox[Other(p)] \in Seq(Wire(p))
    BY <1>2, OtherPeer DEF Inv, OutOK, InOK
  <2>3. \A q \in Seq(Wire(p)) : \A i \in 1..Len(q) : q[i] \in Wire(p)
    BY ElementOfSeq
  <2> QED  BY <2>2, <2>3 DEF Wire
<1> QED  BY <1>1, <1>2 DEF Inv, SndOK

\* What a peer queues is added to frames that are already its own.
LEMMA SendOK ==
  ASSUME OutOK, NEW p \in Peers, NEW frames \in Seq(Wire(p)), Send(p, frames)
  PROVE  OutOK'
<1>1. outbuf[p] \o frames \in Seq(Wire(p))
  BY ConcatProperties DEF OutOK
<1>2. Seq(Wire(p)) \subseteq Seq(Frames)
  BY SeqMonotonic DEF Wire
<1> QED  BY <1>1, <1>2 DEF OutOK, Send, Wire

\* Taking a frame from the inbox leaves a queue of genuine frames, and it was one.
LEMMA TakenOK ==
  ASSUME InOK, NEW p \in Peers, inbox[p] # <<>>, Taken(p)
  PROVE  InOK' /\ Packet(p) \in Frames /\ Genuine(Other(p), Packet(p))
<1>1. Head(inbox[p]) \in Wire(Other(p)) /\ Tail(inbox[p]) \in Seq(Wire(Other(p)))
  BY HeadTailProperties DEF InOK
<1>2. Seq(Wire(Other(p))) \subseteq Seq(Frames)
  BY SeqMonotonic DEF Wire
<1> QED  BY <1>1, <1>2 DEF InOK, Taken, Wire, Packet

\* A new state of one sender whose accounts balance keeps all of them balanced.
LEMMA SndUpdate ==
  ASSUME SndOK, NEW p \in Peers, NEW s \in Senders, Books(p, s),
         snd' = [snd EXCEPT ![p] = s]
  PROVE  SndOK'
<1>1. snd' \in [Peers -> Senders]
  BY DEF SndOK
<1>2. \A q \in Peers : snd'[q] = IF q = p THEN s ELSE snd[q]
  BY DEF SndOK
<1>3. \A q \in Peers : Books(q, snd'[q])
  BY <1>2 DEF SndOK, SenderAccounts
<1> QED  BY <1>1, <1>3 DEF SndOK, SenderAccounts

-----------------------------------------------------------------------------
(***************************************************************************)
(* The stages of _pump_sender().                                           *)
(***************************************************************************)
LEMMA OpenedOK ==
  ASSUME NEW p \in Peers, NEW s \in Senders, Books(p, s),
         s.cur # None \/ s.queue # <<>>
  PROVE  LET o == Opened(s) IN
         /\ o \in Senders /\ Books(p, o) /\ o.cur # None /\ o.batch = s.batch
         /\ s.cur # None => o = s
<1>1. CASE s.cur # None
  BY <1>1 DEF Opened
<1>2. CASE s.cur = None
  <2> DEFINE h == Head(s.queue)
             o == [queue |-> Tail(s.queue), cur |-> h, total |-> Blocks(h), next |-> 0,
                   unacked |-> {}, batch |-> s.batch, sentZ |-> s.sentZ]
  <2>1. Opened(s) = o
    BY <1>2 DEF Opened, Senders
  <2>2. /\ s.queue \in Seq(Files) /\ s.queue # <<>> /\ s.batch \in Nat
        /\ s.sentZ \in BOOLEAN
    BY <1>2 DEF Senders
  <2>3. /\ h \in Files /\ h = s.queue[1] /\ Tail(s.queue) \in Seq(Files)
        /\ Len(Tail(s.queue)) = Len(s.queue) - 1
        /\ \A i \in 1..Len(Tail(s.queue)) : Tail(s.queue)[i] = s.queue[i + 1]
    BY <2>2, HeadTailProperties
  <2>4. Blocks(h) \in Nat /\ h # None
    BY <2>3, BlocksType, FilesAssumption
  <2>5. o \in Senders
    BY <2>2, <2>3, <2>4 DEF Senders
  <2>6. /\ s.batch + Len(s.queue) = Len(Queue[p])
        /\ \A i \in 1..Len(s.queue) : s.queue[i] = Queue[p][s.batch + i]
    BY <1>2, <2>2 DEF Books
  <2>7. Len(s.queue) \in Nat /\ Len(s.queue) > 0
    BY <2>2
  <2>8. s.batch + 1 + Len(Tail(s.queue)) = Len(Queue[p])
    BY <2>2, <2>3, <2>6, <2>7
  <2>9. ASSUME NEW i \in 1..Len(Tail(s.queue))
        PROVE  Tail(s.queue)[i] = Queue[p][s.batch + 1 + i]
    <3>1. i + 1 \in 1..Len(s.queue) /\ i \in Nat
      BY <2>3, <2>7
    <3>2. Tail(s.queue)[i] = Queue[p][s.batch + (i + 1)]
      BY <2>3, <2>6, <3>1
    <3> QED  BY <2>2, <3>1, <3>2
  <2>10. h = Queue[p][s.batch + 1]
    BY <2>3, <2>6, <2>7
  <2>11. Books(p, o)
    BY <2>4, <2>8, <2>9, <2>10, FS_EmptySet DEF Books
  <2> QED  BY <1>2, <2>1, <2>4, <2>5, <2>11
<1> QED  BY <1>1, <1>2

\* What the window admits lies between next_block_num and total_blocks.
LEMMA FilledOK ==
  ASSUME NEW p \in Peers, NEW s \in Senders, Books(p, s), s.cur # None
  PROVE  LET f == Filled(s) IN
         /\ f \in Senders /\ Books(p, f) /\ f.cur = s.cur /\ f.batch = s.batch
         /\ f.next >= s.next
         /\ \A k \in Nat : s.next <= k /\ k < f.next => k < s.total
<1> DEFINE n == Minimum(s.total - s.next, WindowSize - Cardinality(s.unacked))
           u == s.unacked \cup (s.next .. s.next + n - 1)
           g == [s EXCEPT !.next = s.next + n, !.unacked = u]
<1>1. /\ s.next \in Nat /\ s.total \in Nat /\ s.unacked \in SUBSET Nat
      /\ IsFiniteSet(s.unacked)
  BY DEF Senders, Books
<1>2. Cardinality(s.unacked) \in Nat /\ WindowSize \in Nat
  BY <1>1, FS_CardinalityType, BoundsAssumption
<1>3. n \in Int /\ n <= s.total - s.next
  BY <1>1, <1>2 DEF Minimum
<1> HIDE DEF n
<1>4. Filled(s) = IF n <= 0 THEN s ELSE g
  BY DEF Filled, n
<1>5. CASE n <= 0
  <2>1. Filled(s) = s
    BY <1>4, <1>5
  <2> QED  BY <1>1, <2>1
<1>6. CASE ~(n <= 0)
  <2>1. s.next + n \in Nat /\ s.next + n <= s.total
    BY <1>1, <1>3, <1>6
  <2>2. u \in SUBSET Nat /\ \A k \in u : k < s.next + n /\ k < s.total
    <3>1. \A k \in s.unacked : k < s.next /\ k < s.total
      BY DEF Books
    <3> QED  BY <1>1, <1>3, <1>6, <3>1
  <2>3. IsFiniteSet(u)
    <3>1. IsFiniteSet(s.next .. s.next + n - 1)
      BY <1>1, <1>3, FS_Interval
    <3> QED  BY <1>1, <3>1, FS_Union
  <2> HIDE DEF u
  <2>4. /\ g \in Senders /\ g.next = s.next + n /\ g.unacked = u /\ g.cur = s.cur
        /\ g.batch = s.batch /\ g.queue = s.queue /\ g.total = s.total
    BY <2>1, <2>2 DEF Senders
  <2> HIDE DEF g
  <2>5. Books(p, g)
    BY <2>2, <2>3, <2>4 DEF Books
  <2>6. Filled(s) = g
    BY <1>4, <1>6
  <2> QED  BY <1>1, <1>3, <1>6, <2>1, <2>4, <2>5, <2>6
<1> QED  BY <1>5, <1>6

\* Closing the current file keeps the accounts of the sender.
LEMMA ClosedOK ==
  ASSUME NEW p \in Peers, NEW s \in Senders, Books(p, s), s.cur # None
  PROVE  Closed(s) \in Senders /\ Books(p, Closed(s))
<1>1. CASE ~Finished(s)
  BY <1>1 DEF Closed
<1>2. CASE Finished(s)
  <2> DEFINE c == [s EXCEPT !.cur = None, !.batch = s.batch + 1]
  <2>1. Closed(s) = c /\ s.unacked = {}
    BY <1>2 DEF Closed, Finished
  <2>2. s.batch \in Nat /\ s.batch + 1 \in Nat /\ Len(s.queue) \in Nat
    BY DEF Senders
  <2>3. c \in Senders
    BY <2>2 DEF Senders
  <2>4. /\ c.cur = None /\ c.batch = s.batch + 1 /\ c.next = s.next
        /\ c.unacked = s.unacked /\ c.queue = s.queue /\ c.total = s.total
    BY DEF Senders
  <2> HIDE DEF c
  <2>5. /\ s.batch + 1 + Len(s.queue) = Len(Queue[p])
        /\ \A i \in 1..Len(s.queue) : s.queue[i] = Queue[p][s.batch + 1 + i]
    BY DEF Books
  <2>6. c.batch + (IF c.cur = None THEN 0 ELSE 1) = s.batch + 1
    BY <2>2, <2>4
  <2>7. /\ c.unacked = {} /\ IsFiniteSet(c.unacked) /\ c.cur = None
        /\ c.queue = s.queue
    BY <2>1, <2>4, FS_EmptySet
  <2>8. Books(p, c)
    BY <2>5, <2>6, <2>7, Zenon DEF Books
  <2> QED  BY <2>1, <2>3, <2>8
<1> QED  BY <1>1, <1>2

\* Everything one pump queues is genuine, the resend of the oldest block included.
LEMMA PumpFramesOK ==
  ASSUME NEW p \in Peers, NEW s \in Senders, Books(p, s),
         s.cur # None \/ s.queue # <<>>,
         NEW resend \in BOOLEAN, resend => s.unacked # {}
  PROVE  PumpFrames(s, resend) \in Seq(Wire(p))
<1> DEFINE o == Opened(s)
           f == Filled(o)
           open == IF s.cur = None THEN <<Open(o.cur, o.batch)>> ELSE <<>>
           again == IF resend THEN <<Data(o.cur, o.batch, Oldest(o.unacked))>> ELSE <<>>
           fresh == [i \in 1..(f.next - o.next) |-> Data(o.cur, o.batch, o.next + i - 1)]
           close == IF Finished(f) THEN <<Close>> ELSE <<>>
<1>1. /\ o \in Senders /\ Books(p, o) /\ o.cur # None /\ o.batch = s.batch
      /\ s.cur # None => o = s
  BY OpenedOK
<1>2. /\ f \in Senders /\ f.next >= o.next
      /\ \A k \in Nat : o.next <= k /\ k < f.next => k < o.total
  BY <1>1, FilledOK
<1> HIDE DEF o, f
<1>3. /\ o.batch \in Nat /\ o.batch < Len(Queue[p]) /\ o.next \in Nat /\ f.next \in Nat
      /\ o.cur = Queue[p][o.batch + 1] /\ o.total = Blocks(o.cur)
      /\ o.unacked \in SUBSET Nat /\ \A k \in o.unacked : k < o.total
  <2>1. /\ o.batch \in Nat /\ o.next \in Nat /\ f.next \in Nat
        /\ o.unacked \in SUBSET Nat /\ Len(o.queue) \in Nat
    BY <1>1, <1>2 DEF Senders
  <2>2. o.batch + 1 + Len(o.queue) = Len(Queue[p])
    BY <1>1 DEF Books
  <2> QED  BY <1>1, <2>1, <2>2 DEF Books
<1>4. /\ Open(o.cur, o.batch) \in Wire(p)
      /\ \A k \in Nat : k < o.total => Data(o.cur, o.batch, k) \in Wire(p)
  BY <1>3, FileFrames
<1>5. open \in Seq(Wire(p))
  BY <1>4
<1>6. again \in Seq(Wire(p))
  <2>1. CASE ~resend
    BY <2>1
  <2>2. CASE resend
    <3>1. o.unacked # {}
      BY <1>1, <2>2 DEF Books
    <3>2. Oldest(o.unacked) \in Nat /\ Oldest(o.unacked) < o.total
      BY <1>3, <3>1, OldestType
    <3> QED  BY <1>4, <2>2, <3>2
  <2> QED  BY <2>1, <2>2
<1>7. fresh \in Seq(Wire(p))
  <2>1. ASSUME NEW i \in 1..(f.next - o.next)
        PROVE  Data(o.cur, o.batch, o.next + i - 1) \in Wire(p)
    <3>1. /\ o.next + i - 1 \in Nat /\ o.next <= o.next + i - 1
          /\ o.next + i - 1 < f.next
      BY <1>2, <1>3
    <3>2. o.next + i - 1 < o.total
      BY <1>2, <3>1
    <3> QED  BY <1>4, <3>1, <3>2
  <2>2. f.next - o.next \in Nat
    BY <1>2, <1>3
  <2> QED  BY <2>1, <2>2, IsASeq
<1>8. close \in Seq(Wire(p))
  BY ControlFrames
<1> HIDE DEF open, again, fresh, close
<1>9. open \o again \o fresh \o close \in Seq(Wire(p))
  BY <1>5, <1>6, <1>7, <1>8, ConcatProperties
<1> QED  BY <1>9 DEF PumpFrames, o, f, open, again, fresh, close

-----------------------------------------------------------------------------
(***************************************************************************)
(* The invariant holds in every new session, and each action keeps it.     *)
(***************************************************************************)
LEMMA NewSessionOK ==
  \A p \in Peers : /\ NewSender(p) \in Senders /\ Books(p, NewSender(p))
                   /\ NewReceiver \in Receivers /\ NewReceiver.fd = None
<1>1. ASSUME NEW p \in Peers PROVE NewSender(p) \in Senders
  BY <1>1, FilesAssumption DEF NewSender, Senders
<1>2. ASSUME NEW p \in Peers PROVE Books(p, NewSender(p))
  <2>1. Len(Queue[p]) \in Nat
    BY FilesAssumption
  <2>2. \A i \in 1..Len(Queue[p]) : Queue[p][i] = Queue[p][0 + 0 + i]
    BY <2>1
  <2> QED  BY <2>1, <2>2, FS_EmptySet DEF NewSender, Books
<1>3. NewReceiver \in Receivers /\ NewReceiver.fd = None
  BY DEF NewReceiver, Receivers
<1> QED  BY <1>1, <1>2, <1>3

\* The invariant holds at the beginning.
LEMMA InitOK == Init => Inv
<1> SUFFICES ASSUME Init PROVE Inv
  OBVIOUS
<1>1. OutOK /\ InOK
  <2>1. \A S : <<>> \in Seq(S)
    BY EmptySeq
  <2> QED  BY <2>1 DEF Init, OutOK, InOK
<1>2. SndOK
  BY NewSessionOK DEF Init, SndOK, SenderAccounts
<1>3. RecvOK
  BY NewSessionOK, FilesAssumption DEF Init, RecvOK
<1>4. StateOK
  BY BoundsAssumption DEF Init, StateOK
<1> QED  BY <1>1, <1>2, <1>3, <1>4 DEF Inv

\* A part whose variables do not change is kept.
LEMMA Kept ==
  ASSUME Inv
  PROVE  /\ UNCHANGED outbuf => OutOK'
         /\ UNCHANGED inbox => InOK'
         /\ UNCHANGED snd => SndOK'
         /\ UNCHANGED <<rcv, disk>> => RecvOK'
         /\ UNCHANGED <<state, alive, reported, budgets>> => StateOK'
BY DEF Inv, OutOK, InOK, SndOK, SenderAccounts, RecvOK, StateOK, budgets

\* Moving frames from the output buffer into the pipe preserves the invariant.
LEMMA IdleOK == ASSUME Inv, NEW p \in Peers, Idle(p) PROVE Inv'
<1> DEFINE q == Other(p)
           n == Room(p)
<1>1. q \in Peers /\ Other(q) = p /\ q # p
  BY OtherPeer
<1>2. /\ outbuf[p] \in Seq(Wire(p)) /\ inbox[q] \in Seq(Wire(p))
      /\ outbuf \in [Peers -> Seq(Frames)] /\ inbox \in [Peers -> Seq(Frames)]
  BY <1>1 DEF Inv, OutOK, InOK
<1>3. n \in Nat /\ n <= Len(outbuf[p]) /\ n > 0
  <2>1. Len(outbuf[p]) \in Nat /\ Len(inbox[q]) \in Nat /\ PipeSlots \in Nat
    BY <1>2, BoundsAssumption
  <2>2. n > 0
    BY DEF Idle
  <2>3. \A i, j \in Int : Minimum(i, j) \in Int /\ Minimum(i, j) <= i
    BY DEF Minimum
  <2>4. n = Minimum(Len(outbuf[p]), PipeSlots - Len(inbox[q]))
    BY DEF Room
  <2> HIDE DEF n, q
  <2>5. Len(outbuf[p]) \in Int /\ PipeSlots - Len(inbox[q]) \in Int
    BY <2>1
  <2>6. n \in Int /\ n <= Len(outbuf[p])
    BY <2>3, <2>4, <2>5, Zenon
  <2> QED  BY <2>2, <2>6
<1> HIDE DEF q, n
<1>4. \A i \in 1..Len(outbuf[p]) : outbuf[p][i] \in Wire(p)
  BY <1>2, ElementOfSeq
<1>5. SubSeq(outbuf[p], 1, n) \in Seq(Wire(p))
  BY <1>2, <1>3, <1>4, SubSeqProperties
<1>6. SubSeq(outbuf[p], n + 1, Len(outbuf[p])) \in Seq(Wire(p))
  <2>1. Len(outbuf[p]) \in Int /\ n + 1 \in Int
    BY <1>2, <1>3
  <2>2. \A i \in n + 1 .. Len(outbuf[p]) : outbuf[p][i] \in Wire(p)
    BY <1>3, <1>4, <2>1
  <2> QED  BY <2>1, <2>2, SubSeqProperties
<1>7. inbox[q] \o SubSeq(outbuf[p], 1, n) \in Seq(Wire(p))
  BY <1>2, <1>5, ConcatProperties
<1>8. Seq(Wire(p)) \subseteq Seq(Frames)
  BY SeqMonotonic DEF Wire
<1>9. OutOK'
  BY <1>6, <1>8 DEF Idle, Inv, OutOK, n, Wire
<1>10. InOK'
  BY <1>1, <1>7, <1>8 DEF Idle, Inv, InOK, n, q, Wire
<1> QED  BY <1>9, <1>10, Kept DEF Idle, Inv

\* The handshake ping preserves it.
LEMMA PingOK == ASSUME Inv, NEW p \in Peers, Ping(p) PROVE Inv'
<1>1. <<RQ>> \in Seq(Wire(p))
  BY ControlFrames
<1>2. OutOK'
  BY <1>1, SendOK DEF Ping, Inv
<1> QED  BY <1>2, Kept DEF Ping, Inv

\* One pump, with or without a resend; only the budget of early timeouts is left.
LEMMA PumpOK ==
  ASSUME Inv, NEW p \in Peers, NEW resend \in BOOLEAN, resend => snd[p].unacked # {},
         PumpWith(p, resend), early' \in 0..MaxEarly
  PROVE  Inv'
<1> DEFINE s == snd[p]
           filled == Filled(Opened(s))
<1>1. s \in Senders /\ Books(p, s) /\ (s.cur # None \/ s.queue # <<>>)
  BY DEF PumpWith, Inv, SndOK, SenderAccounts
<1>2. filled \in Senders /\ Books(p, filled) /\ filled.cur # None
  <2>1. Opened(s) \in Senders /\ Books(p, Opened(s)) /\ Opened(s).cur # None
    BY <1>1, OpenedOK
  <2> QED  BY <2>1, FilledOK
<1> HIDE DEF filled
<1>3. Closed(filled) \in Senders /\ Books(p, Closed(filled))
  BY <1>2, ClosedOK
<1>4. PumpFrames(s, resend) \in Seq(Wire(p))
  BY <1>1, PumpFramesOK
<1>5. OutOK'
  BY <1>4, SendOK DEF PumpWith, Inv
<1>6. SndOK'
  BY <1>3, SndUpdate DEF PumpWith, Inv, filled
<1>7. reported' \in [Peers -> SUBSET Files]
  <2>1. filled.cur \in Files
    BY <1>2 DEF Senders
  <2>2. reported \in [Peers -> SUBSET Files]
    BY DEF Inv, StateOK
  <2> QED  BY <2>1, <2>2 DEF PumpWith, filled
<1>8. StateOK'
  BY <1>7 DEF PumpWith, Inv, StateOK
<1> QED  BY <1>5, <1>6, <1>8, Kept DEF PumpWith, Inv

\* So does a call of _pump_sender(), with and without a resend,
LEMMA PumpActionsOK ==
  ASSUME Inv, NEW p \in Peers, Pump(p) \/ Timeout(p) PROVE Inv'
<1>1. early \in 0..MaxEarly /\ MaxEarly \in Nat
  BY BoundsAssumption DEF Inv, StateOK
<1>2. CASE Pump(p)
  BY <1>1, <1>2, PumpOK DEF Pump
<1>3. CASE Timeout(p)
  <2>1. early' \in 0..MaxEarly
    BY <1>1, <1>3 DEF Timeout
  <2> QED  BY <1>3, <2>1, PumpOK DEF Timeout
<1> QED  BY <1>2, <1>3

\* and its Z branch.
LEMMA AllSentOK == ASSUME Inv, NEW p \in Peers, AllSent(p) PROVE Inv'
<1> DEFINE s == [snd[p] EXCEPT !.sentZ = TRUE]
<1>1. snd[p] \in Senders /\ Books(p, snd[p])
  BY DEF Inv, SndOK, SenderAccounts
<1>2. s \in Senders /\ Books(p, s)
  BY <1>1 DEF Senders, Books
<1>3. SndOK'
  BY <1>2, SndUpdate DEF AllSent, Inv
<1>4. <<Done>> \in Seq(Wire(p))
  BY ControlFrames
<1>5. OutOK'
  BY <1>4, SendOK DEF AllSent, Inv
<1> QED  BY <1>3, <1>5, Kept DEF AllSent, Inv

-----------------------------------------------------------------------------
(***************************************************************************)
(* The packet handlers.                                                    *)
(***************************************************************************)
LEMMA HandshakeOK == ASSUME Inv, NEW p \in Peers, Handshake(p) PROVE Inv'
<1>1. InOK'
  BY TakenOK DEF Handshake, Arrives, Inv
<1>2. (IF snd[p].queue = <<>> THEN <<RQ, Done>> ELSE <<RQ>>) \in Seq(Wire(p))
  BY ControlFrames
<1>3. OutOK'
  BY <1>2, SendOK DEF Handshake, Inv
<1>4. StateOK'
  BY DEF Handshake, budgets, Inv, StateOK
<1> QED  BY <1>1, <1>3, <1>4, Kept DEF Handshake, Inv

\* Ending a program closes its file and touches no one else's state.
LEMMA LeaveOK ==
  ASSUME Inv, NEW p \in Peers, Leave(p),
         UNCHANGED <<state, snd, disk, outbuf, reported, budgets>>, InOK'
  PROVE  Inv'
<1> DEFINE r == [rcv[p] EXCEPT !.fd = None]
<1>1. alive' = [alive EXCEPT ![p] = FALSE] /\ rcv' = [rcv EXCEPT ![p] = r]
  BY DEF Leave
<1>2. /\ rcv \in [Peers -> Receivers] /\ rcv[p] \in Receivers
      /\ disk \in [Peers -> [Names -> Seq(Unit) \cup {Absent}]]
      /\ \A q \in Peers : rcv[q].fd # None => disk[q][rcv[q].fd] # Absent
  BY DEF Inv, RecvOK
<1>3. r \in Receivers /\ r.fd = None
  BY <1>2 DEF Receivers
<1> HIDE DEF r
<1>4. RecvOK'
  BY <1>1, <1>2, <1>3 DEF RecvOK
<1>5. StateOK'
  BY <1>1 DEF budgets, Inv, StateOK
<1> QED  BY <1>4, <1>5, Kept DEF Inv

\* The handlers of the sender half.
LEMMA SenderHandlersOK ==
  ASSUME Inv, NEW p \in Peers,
         HandleAck(p) \/ HandleNak(p) \/ HandleSkip(p) \/ HandleVerify(p)
  PROVE  Inv'
<1> DEFINE s == snd[p]
<1>1. s \in Senders /\ Books(p, s)
  BY DEF Inv, SndOK, SenderAccounts
<1>2. InOK' /\ Packet(p) \in Frames
  BY TakenOK DEF HandleAck, HandleNak, HandleSkip, HandleVerify, Transferring, Arrives, Inv
<1>3. /\ s.unacked \in SUBSET Nat /\ IsFiniteSet(s.unacked) /\ s.batch \in Nat
      /\ s.total \in Nat /\ Len(s.queue) \in Nat
  BY <1>1 DEF Senders, Books
<1>4. CASE HandleAck(p)
  <2> DEFINE u == {k \in s.unacked : k > Packet(p).block}
             t == [s EXCEPT !.unacked = u]
  <2>1. u \in SUBSET Nat /\ IsFiniteSet(u) /\ u \subseteq s.unacked
    BY <1>3, FS_Subset
  <2> HIDE DEF u
  <2>2. t \in Senders /\ Books(p, t)
    BY <1>1, <2>1 DEF Senders, Books
  <2>3. SndOK'
    BY <1>4, <2>2, SndUpdate DEF HandleAck, Inv, u
  <2> QED  BY <1>2, <1>4, <2>3, Kept DEF HandleAck, Inv
<1>5. CASE HandleNak(p)
  <2> DEFINE k == Packet(p).block
  <2>1. k \in s.unacked
    BY <1>5 DEF HandleNak
  <2>2. s.cur # None /\ k \in Nat /\ k < s.total
    BY <1>1, <1>3, <2>1 DEF Books
  <2>3. s.batch < Len(Queue[p]) /\ s.cur = Queue[p][s.batch + 1] /\ s.total = Blocks(s.cur)
    BY <1>1, <1>3, <2>2 DEF Books
  <2>4. <<Data(s.cur, s.batch, k)>> \in Seq(Wire(p))
    BY <1>3, <2>2, <2>3, FileFrames
  <2>5. OutOK'
    BY <1>5, <2>4, SendOK DEF HandleNak, Inv
  <2> QED  BY <1>2, <1>5, <2>5, Kept DEF HandleNak, Inv
<1>6. CASE HandleSkip(p)
  <2> DEFINE t == [s EXCEPT !.unacked = {}, !.next = s.total]
  <2>1. t \in Senders /\ Books(p, t)
    BY <1>1, <1>3, FS_EmptySet DEF Senders, Books
  <2>2. SndOK'
    BY <1>6, <2>1, SndUpdate DEF HandleSkip, Inv
  <2> QED  BY <1>2, <1>6, <2>2, Kept DEF HandleSkip, Inv
<1>7. CASE HandleVerify(p) /\ s.cur = None
  BY <1>2, <1>7, LeaveOK DEF HandleVerify
<1>8. CASE HandleVerify(p) /\ s.cur # None
  <2> DEFINE n == Verified(Packet(p).crcs, s.cur)
             t == [s EXCEPT !.next = n, !.unacked = {}]
  <2>1. n \in Nat
    <3>1. Packet(p).crcs \in Seq(Seq(Unit))
      BY <1>2, <1>8, FrameFields DEF HandleVerify, Transferring, Arrives, Packet
    <3> QED  BY <3>1, VerifiedType
  <2> HIDE DEF n
  <2>2. t \in Senders /\ Books(p, t)
    BY <1>1, <1>3, <2>1, FS_EmptySet DEF Senders, Books
  <2>3. SndOK'
    BY <1>8, <2>2, SndUpdate DEF HandleVerify, Inv, n
  <2>4. <<Seek(s.batch, n)>> \in Seq(Wire(p))
    BY <1>3, <2>1, ControlFrames
  <2>5. OutOK'
    BY <1>8, <2>4, SendOK DEF HandleVerify, Inv, n
  <2> QED  BY <1>2, <1>8, <2>3, <2>5, Kept DEF HandleVerify, Inv
<1> QED  BY <1>4, <1>5, <1>6, <1>7, <1>8

\* The handlers of the receiver half.
LEMMA OpenOK == ASSUME Inv, NEW p \in Peers, HandleOpen(p) PROVE Inv'
<1> DEFINE m == Packet(p)
           c == Existing(p)
<1>1. InOK' /\ m \in Frames /\ m.type = "O"
  BY TakenOK DEF HandleOpen, OpenUnsafe, OpenSkip, OpenResume, OpenFresh,
                 Transferring, Arrives, Packet, Inv
<1>2. m.name \in Names /\ m.batch \in Nat
  BY <1>1, FrameFields
<1>3. c \in Seq(Unit) \cup {Absent} /\ c = disk[p][m.name]
  BY <1>2 DEF Inv, RecvOK, Existing
<1>4. rcv \in [Peers -> Receivers] /\ disk \in [Peers -> [Names -> Seq(Unit) \cup {Absent}]]
  BY DEF Inv, RecvOK
<1> HIDE DEF m, c
<1>5. <<Skip>> \in Seq(Wire(p))
  BY ControlFrames
<1>6. CASE OpenUnsafe(p)
  <2>1. OutOK'
    BY <1>5, <1>6, SendOK DEF OpenUnsafe, Inv
  <2> QED  BY <1>1, <1>6, <2>1, Kept DEF OpenUnsafe, Inv
<1>7. CASE OpenSkip(p)
  <2>1. OutOK'
    BY <1>5, <1>7, SendOK DEF OpenSkip, Inv
  <2>2. [rcv[p] EXCEPT !.batch = m.batch, !.expected = 0] \in Receivers
    BY <1>2, <1>4 DEF Receivers
  <2>3. rcv' \in [Peers -> Receivers] /\ \A q \in Peers : rcv'[q].fd = rcv[q].fd
    BY <1>4, <1>7, <2>2 DEF OpenSkip, Receivers, m
  <2>4. RecvOK'
    BY <1>7, <2>3 DEF OpenSkip, Inv, RecvOK
  <2> QED  BY <1>1, <1>7, <2>1, <2>4, Kept DEF OpenSkip, Inv
<1>8. CASE OpenResume(p)
  <2>1. c \in Seq(Unit) /\ c # Absent
    BY <1>3, <1>8 DEF OpenResume, Resumable, c
  <2>2. FullBlocks(c) \in Nat
    BY <2>1, FullBlocksType
  <2>3. <<Verify(c)>> \in Seq(Wire(p))
    BY <2>1, ControlFrames
  <2>4. OutOK'
    BY <1>8, <2>3, SendOK DEF OpenResume, Inv, c
  <2> DEFINE r == [fd |-> m.name, batch |-> m.batch, expected |-> FullBlocks(c)]
  <2>5. r \in Receivers /\ r.fd = m.name
    BY <1>2, <2>2 DEF Receivers
  <2>6. rcv' = [rcv EXCEPT ![p] = r] /\ disk' = disk
    BY <1>8 DEF OpenResume, m, c
  <2> HIDE DEF r
  <2>7. RecvOK'
    BY <1>3, <1>4, <2>1, <2>5, <2>6 DEF Inv, RecvOK
  <2> QED  BY <1>1, <1>8, <2>4, <2>7, Kept DEF OpenResume, Inv
<1>9. CASE OpenFresh(p)
  <2> DEFINE r == [fd |-> m.name, batch |-> m.batch, expected |-> 0]
  <2>1. r \in Receivers /\ r.fd = m.name
    BY <1>2 DEF Receivers
  <2>2. rcv' = [rcv EXCEPT ![p] = r] /\ disk' = [disk EXCEPT ![p][m.name] = <<>>]
    BY <1>9 DEF OpenFresh, m
  <2>3. <<>> \in Seq(Unit) /\ <<>> # Absent
    BY EmptySeq, FilesAssumption
  <2> HIDE DEF r
  <2>4. disk' \in [Peers -> [Names -> Seq(Unit) \cup {Absent}]]
    BY <1>2, <1>4, <2>2, <2>3
  <2>5. ASSUME NEW q \in Peers, rcv'[q].fd # None PROVE disk'[q][rcv'[q].fd] # Absent
    <3>1. CASE q = p
      BY <1>2, <1>4, <2>1, <2>2, <2>3, <3>1
    <3>2. CASE q # p
      BY <1>4, <2>2, <2>5, <3>2 DEF Inv, RecvOK
    <3> QED  BY <3>1, <3>2
  <2>6. RecvOK'
    BY <1>4, <2>1, <2>2, <2>4, <2>5 DEF RecvOK
  <2> QED  BY <1>1, <1>9, <2>6, Kept DEF OpenFresh, Inv
<1> QED  BY <1>6, <1>7, <1>8, <1>9 DEF HandleOpen

\* Handling a DATA packet, expected or not, preserves the invariant.
LEMMA DataOK ==
  ASSUME Inv, NEW p \in Peers, DataExpected(p) \/ DataUnexpected(p) PROVE Inv'
<1> DEFINE m == Packet(p)
<1>1. InOK' /\ m \in Frames /\ m.type = "D"
  BY TakenOK DEF DataExpected, DataUnexpected, Transferring, Arrives, Packet, Inv
<1>2. m.batch \in Nat /\ m.block \in Nat /\ m.data \in Seq(Unit)
  BY <1>1, FrameFields
<1>3. /\ rcv \in [Peers -> Receivers] /\ rcv[p] \in Receivers
      /\ disk \in [Peers -> [Names -> Seq(Unit) \cup {Absent}]]
      /\ \A q \in Peers : rcv[q].fd # None => disk[q][rcv[q].fd] # Absent
  BY DEF Inv, RecvOK
<1>4. rcv[p].expected \in Nat /\ rcv[p].fd \in Names \cup {None}
  BY <1>3 DEF Receivers
<1>5. /\ <<Ack(m.batch, m.block)>> \in Seq(Wire(p))
      /\ <<Nak(m.batch, rcv[p].expected)>> \in Seq(Wire(p))
  BY <1>2, <1>4, ControlFrames
<1> HIDE DEF m
<1>6. CASE DataUnexpected(p)
  <2>1. OutOK'
    BY <1>5, <1>6, SendOK DEF DataUnexpected, Inv, m
  <2> QED  BY <1>1, <1>6, <2>1, Kept DEF DataUnexpected, Inv
<1>7. CASE DataExpected(p)
  <2>1. OutOK'
    BY <1>5, <1>7, SendOK DEF DataExpected, Inv, m
  <2> DEFINE r == [rcv[p] EXCEPT !.expected = rcv[p].expected + 1]
  <2>1a. rcv[p].expected + 1 \in Nat
    BY <1>4
  <2>2. r \in Receivers /\ r.fd = rcv[p].fd
    BY <1>3, <2>1a DEF Receivers
  <2>3. rcv' = [rcv EXCEPT ![p] = r]
    BY <1>7 DEF DataExpected
  <2> HIDE DEF r
  <2>4. rcv' \in [Peers -> Receivers] /\ \A q \in Peers : rcv'[q].fd = rcv[q].fd
    BY <1>3, <2>2, <2>3
  <2>5. CASE rcv[p].fd = None
    <3>1. disk' = disk
      BY <1>7, <2>5 DEF DataExpected
    <3>2. RecvOK'
      BY <1>3, <2>4, <3>1 DEF RecvOK
    <3> QED  BY <1>1, <1>7, <2>1, <3>2, Kept DEF DataExpected, Inv
  <2>6. CASE rcv[p].fd # None
    <3> DEFINE c == disk[p][rcv[p].fd]
    <3>1. rcv[p].fd \in Names /\ c \in Seq(Unit)
      BY <1>3, <1>4, <2>6
    <3> HIDE DEF c
    <3>2. c \o m.data \in Seq(Unit)
      BY <1>2, <3>1, ConcatProperties
    <3>4a. c \o m.data # Absent
      BY <3>2, FilesAssumption
    <3>3. disk' = [disk EXCEPT ![p][rcv[p].fd] = c \o m.data]
      BY <1>7, <2>6 DEF DataExpected, m, c
    <3>4. disk' \in [Peers -> [Names -> Seq(Unit) \cup {Absent}]]
      BY <1>3, <3>1, <3>2, <3>3
    <3>5. \A q \in Peers : rcv[q].fd # None => disk'[q][rcv[q].fd] # Absent
      BY <1>3, <3>1, <3>4a, <3>3 DEF Receivers
    <3>6. RecvOK'
      BY <2>4, <3>4, <3>5 DEF RecvOK
    <3> QED  BY <1>1, <1>7, <2>1, <3>6, Kept DEF DataExpected, Inv
  <2> QED  BY <2>5, <2>6
<1> QED  BY <1>6, <1>7

\* So do SEEK, CLOSE and DONE.
LEMMA SeekCloseDoneOK ==
  ASSUME Inv, NEW p \in Peers, HandleSeek(p) \/ HandleClose(p) \/ HandleDone(p)
  PROVE  Inv'
<1>1. InOK' /\ Packet(p) \in Frames
  BY TakenOK DEF HandleSeek, HandleClose, HandleDone, Transferring, Arrives, Inv
<1>2. /\ rcv \in [Peers -> Receivers] /\ rcv[p] \in Receivers
      /\ disk \in [Peers -> [Names -> Seq(Unit) \cup {Absent}]]
      /\ \A q \in Peers : rcv[q].fd # None => disk[q][rcv[q].fd] # Absent
  BY DEF Inv, RecvOK
<1>3. CASE HandleSeek(p)
  <2> DEFINE r == [rcv[p] EXCEPT !.expected = Packet(p).block]
  <2>1. Packet(p).block \in Nat
    BY <1>1, <1>3, FrameFields DEF HandleSeek, Transferring, Arrives, Packet
  <2>2. r \in Receivers /\ r.fd = rcv[p].fd
    BY <1>2, <2>1 DEF Receivers
  <2>3. rcv' = [rcv EXCEPT ![p] = r] /\ disk' = disk
    BY <1>3 DEF HandleSeek
  <2> HIDE DEF r
  <2>4. RecvOK'
    BY <1>2, <2>2, <2>3 DEF RecvOK
  <2> QED  BY <1>1, <1>3, <2>4, Kept DEF HandleSeek, Inv
<1>4. CASE HandleClose(p)
  <2> DEFINE r == [rcv[p] EXCEPT !.fd = None]
  <2>1. r \in Receivers /\ r.fd = None
    BY <1>2 DEF Receivers
  <2>2. rcv' = [rcv EXCEPT ![p] = r] /\ disk' = disk
    BY <1>4 DEF HandleClose
  <2> HIDE DEF r
  <2>3. RecvOK'
    BY <1>2, <2>1, <2>2 DEF RecvOK
  <2> QED  BY <1>1, <1>4, <2>3, Kept DEF HandleClose, Inv
<1>5. CASE HandleDone(p)
  <2>1. <<Done>> \in Seq(Wire(p))
    BY ControlFrames
  <2>2. OutOK'
    BY <1>5, <2>1, SendOK DEF HandleDone, Inv
  <2>3. StateOK'
    BY <1>5 DEF HandleDone, budgets, Inv, StateOK
  <2> QED  BY <1>1, <1>5, <2>2, <2>3, Kept DEF HandleDone, Inv
<1> QED  BY <1>3, <1>4, <1>5

\* Every branch of _handle_packet() preserves the invariant.
LEMMA ReceiveOK == ASSUME Inv, NEW p \in Peers, Receive(p) PROVE Inv'
<1>1. CASE Ignore(p)
  <2>1. InOK'
    BY <1>1, TakenOK DEF Ignore, Inv
  <2> QED  BY <1>1, <2>1, Kept DEF Ignore, Inv
<1> QED  BY <1>1, HandshakeOK, SenderHandlersOK, OpenOK, DataOK, SeekCloseDoneOK DEF Receive

-----------------------------------------------------------------------------
(***************************************************************************)
(* The end of a session, and the environment.                              *)
(***************************************************************************)
LEMMA EndOK == ASSUME Inv, NEW p \in Peers, Exit(p) \/ CarrierLost(p) PROVE Inv'
<1>1. InOK'
  BY Kept DEF Exit, CarrierLost
<1> QED  BY <1>1, LeaveOK DEF Exit, CarrierLost

\* A damaged frame preserves it.
LEMMA LoseOK == ASSUME Inv, NEW p \in Peers, Lose(p) PROVE Inv'
<1>1. InOK'
  BY TakenOK DEF Lose, Inv
<1>2. StateOK'
  BY BoundsAssumption DEF Lose, Inv, StateOK
<1> QED  BY <1>1, <1>2, Kept DEF Lose, Inv

\* Starting both programs again establishes it anew.
LEMMA ReconnectOK == ASSUME Inv, Reconnect PROVE Inv'
<1>1. OutOK' /\ InOK'
  <2>1. \A S : <<>> \in Seq(S)
    BY EmptySeq
  <2> QED  BY <2>1 DEF Reconnect, OutOK, InOK
<1>2. SndOK'
  BY NewSessionOK DEF Reconnect, SndOK, SenderAccounts
<1>3. RecvOK'
  BY NewSessionOK DEF Reconnect, Inv, RecvOK
<1>4. StateOK'
  BY BoundsAssumption DEF Reconnect, Inv, StateOK
<1> QED  BY <1>1, <1>2, <1>3, <1>4 DEF Inv

\* Every step preserves the invariant.
LEMMA NextOK == Inv /\ [Next]_vars => Inv'
<1> SUFFICES ASSUME Inv, [Next]_vars PROVE Inv'
  OBVIOUS
<1>1. ASSUME NEW p \in Peers, Step(p) PROVE Inv'
  BY <1>1, IdleOK, PingOK, PumpActionsOK, AllSentOK, ReceiveOK, EndOK DEF Step
<1>2. CASE UNCHANGED vars
  BY <1>2, Kept DEF vars, Inv, budgets
<1>3. CASE Next
  BY <1>1, <1>2, <1>3, LoseOK, ReconnectOK DEF Next, Terminated
<1> QED  BY <1>2, <1>3

\* The invariant holds in every reachable state.
LEMMA Invariance == Spec => []Inv
<1> QED  BY InitOK, NextOK, PTL DEF Spec

-----------------------------------------------------------------------------
\* Every variable keeps its type, and a receiver never holds a file open that is
\* not in its directory.
THEOREM TypeCorrect == Spec => []TypeOK
<1> QED  BY Invariance, InvImplies, PTL

\* The sender's books balance in every reachable state of every session: what is
\* closed, what is current and what is queued are the files it was started with,
\* in order, and only sent blocks of the current file await an acknowledgement.
THEOREM AccountsBalance == Spec => []SenderAccounts
<1> QED  BY Invariance, InvImplies, PTL

\* Whatever the window, the losses, the timeouts and the carrier drops, a frame in
\* transit that calls itself block k of file b of the batch is that block.
THEOREM FramesGenuine == Spec => []GenuineFrames
<1> QED  BY Invariance, InvImplies, PTL

-----------------------------------------------------------------------------
(***************************************************************************)
(* What arrives.  All of it is about the frames that one peer has written  *)
(* and the other has not handled yet, wherever they are.                   *)
(***************************************************************************)

Link(p) == inbox[Other(p)] \o outbuf[p]

\* Frames on their way are those of Inv.
LEMMA LinkType == ASSUME Inv, NEW p \in Peers PROVE Link(p) \in Seq(Wire(p))
<1>1. outbuf[p] \in Seq(Wire(p)) /\ inbox[Other(p)] \in Seq(Wire(p))
  BY OtherPeer DEF Inv, OutOK, InOK
<1> QED  BY <1>1, ConcatProperties DEF Link

\* They are frames.
LEMMA LinkFrames == ASSUME Inv, NEW p \in Peers PROVE Link(p) \in Seq(Frames)
<1>1. Wire(p) \subseteq Frames /\ Link(p) \in Seq(Wire(p))
  BY LinkType DEF Wire
<1> HIDE DEF Wire
<1> QED  BY <1>1, SeqMonotonic, Zenon

\* Writing adds to the end of the writer's frames.
LEMMA LinkSend ==
  ASSUME Inv, NEW p \in Peers, NEW frames \in Seq(Wire(p)), Send(p, frames), UNCHANGED inbox
  PROVE  Link(p)' = Link(p) \o frames /\ Link(Other(p))' = Link(Other(p))
<1>1. outbuf[p] \in Seq(Wire(p)) /\ inbox[Other(p)] \in Seq(Wire(p)) /\ Other(p) # p
  BY OtherPeer DEF Inv, OutOK, InOK
<1>2. outbuf'[p] = outbuf[p] \o frames /\ outbuf'[Other(p)] = outbuf[Other(p)]
  BY <1>1, OtherPeer DEF Inv, OutOK, Send
<1>3. inbox[Other(p)] \o (outbuf[p] \o frames) = (inbox[Other(p)] \o outbuf[p]) \o frames
  <2> DEFINE i == inbox[Other(p)]
             o == outbuf[p]
  <2>1. i \in Seq(Wire(p)) /\ o \in Seq(Wire(p))
    BY <1>1
  <2> HIDE DEF i, o
  <2>2. (i \o o) \o frames = i \o (o \o frames)
    BY <2>1, Assoc
  <2> QED  BY <2>2 DEF i, o
<1> QED  BY <1>2, <1>3 DEF Link

\* Handling a packet takes the first of the peer's frames, and may answer it.
LEMMA LinkReply ==
  ASSUME Inv, NEW p \in Peers, NEW frames \in Seq(Wire(p)), inbox[p] # <<>>, Taken(p),
         Send(p, frames)
  PROVE  /\ Link(p)' = Link(p) \o frames
         /\ Link(Other(p)) # <<>> /\ Head(Link(Other(p))) = Packet(p)
         /\ Link(Other(p))' = Tail(Link(Other(p)))
<1> DEFINE q == Other(p)
<1>1. q \in Peers /\ Other(q) = p /\ q # p
  BY OtherPeer
<1>2. /\ outbuf[p] \in Seq(Wire(p)) /\ inbox[q] \in Seq(Wire(p))
      /\ outbuf[q] \in Seq(Wire(q)) /\ inbox[p] \in Seq(Wire(q))
  BY <1>1 DEF Inv, OutOK, InOK
<1>3. outbuf'[p] = outbuf[p] \o frames /\ outbuf'[q] = outbuf[q]
  BY <1>1 DEF Inv, OutOK, Send
<1>4. inbox'[p] = Tail(inbox[p]) /\ inbox'[q] = inbox[q]
  BY <1>1 DEF Inv, InOK, Taken
<1> HIDE DEF q
<1>5. inbox[q] \o (outbuf[p] \o frames) = (inbox[q] \o outbuf[p]) \o frames
  <2> DEFINE i == inbox[q]
             o == outbuf[p]
  <2>1. i \in Seq(Wire(p)) /\ o \in Seq(Wire(p))
    BY <1>2
  <2> HIDE DEF i, o
  <2>2. (i \o o) \o frames = i \o (o \o frames)
    BY <2>1, Assoc
  <2> QED  BY <2>2 DEF i, o
<1>6. /\ inbox[p] \o outbuf[q] # <<>> /\ Head(inbox[p] \o outbuf[q]) = Head(inbox[p])
      /\ Tail(inbox[p] \o outbuf[q]) = Tail(inbox[p]) \o outbuf[q]
  BY <1>2, FirstOfTwo, Zenon
<1> QED  BY <1>1, <1>3, <1>4, <1>5, <1>6 DEF Link, Packet, q

\* The same without an answer.
LEMMA LinkTake ==
  ASSUME Inv, NEW p \in Peers, inbox[p] # <<>>, Taken(p), UNCHANGED outbuf
  PROVE  /\ Link(p)' = Link(p)
         /\ Link(Other(p)) # <<>> /\ Head(Link(Other(p))) = Packet(p)
         /\ Link(Other(p))' = Tail(Link(Other(p)))
<1>1. <<>> \in Seq(Wire(p)) /\ outbuf[p] \in Seq(Wire(p))
  BY DEF Inv, OutOK
<1>2. outbuf[p] \o <<>> = outbuf[p]
  BY <1>1
<1>3. Send(p, <<>>)
  BY <1>2 DEF Send, Inv, OutOK
<1>4. Link(p)' = Link(p) \o <<>> /\ Link(p) \in Seq(Wire(p))
  BY <1>1, <1>3, LinkReply, LinkType
<1>5. Link(p) \o <<>> = Link(p)
  BY <1>4
<1> QED  BY <1>1, <1>3, <1>4, <1>5, LinkReply

\* Moving frames on changes nothing.
LEMMA LinkIdle ==
  ASSUME Inv, NEW p \in Peers, Idle(p), NEW x \in Peers PROVE Link(x)' = Link(x)
<1> DEFINE q == Other(p)
           n == Room(p)
<1>1. q \in Peers /\ Other(q) = p /\ q # p /\ (x = p \/ x = q)
  BY OtherPeer DEF Peers, Other
<1>2. /\ outbuf[p] \in Seq(Wire(p)) /\ inbox[q] \in Seq(Wire(p))
      /\ outbuf \in [Peers -> Seq(Frames)] /\ inbox \in [Peers -> Seq(Frames)]
  BY <1>1 DEF Inv, OutOK, InOK
<1>3. n \in Nat /\ n <= Len(outbuf[p])
  <2>1. Len(outbuf[p]) \in Nat /\ Len(inbox[q]) \in Nat /\ PipeSlots \in Nat
    BY <1>2, BoundsAssumption
  <2>2. n > 0
    BY DEF Idle
  <2>3. \A i, j \in Int : Minimum(i, j) \in Int /\ Minimum(i, j) <= i
    BY DEF Minimum
  <2>4. n = Minimum(Len(outbuf[p]), PipeSlots - Len(inbox[q]))
    BY DEF Room
  <2> HIDE DEF n, q
  <2>5. Len(outbuf[p]) \in Int /\ PipeSlots - Len(inbox[q]) \in Int
    BY <2>1
  <2>6. n \in Int /\ n <= Len(outbuf[p])
    BY <2>3, <2>4, <2>5, Zenon
  <2> QED  BY <2>2, <2>6
<1>4. /\ outbuf'[p] = SubSeq(outbuf[p], n + 1, Len(outbuf[p])) /\ outbuf'[q] = outbuf[q]
      /\ inbox'[q] = inbox[q] \o SubSeq(outbuf[p], 1, n) /\ inbox'[p] = inbox[p]
  BY <1>1, <1>2 DEF Idle
<1> HIDE DEF q, n
<1>5. /\ SubSeq(outbuf[p], 1, n) \in Seq(Wire(p))
      /\ SubSeq(outbuf[p], n + 1, Len(outbuf[p])) \in Seq(Wire(p))
      /\ SubSeq(outbuf[p], 1, n) \o SubSeq(outbuf[p], n + 1, Len(outbuf[p])) = outbuf[p]
  <2>1. n \in 0..Len(outbuf[p])
    BY <1>2, <1>3
  <2> QED  BY <1>2, <2>1, Cut, Zenon
<1>6. (inbox[q] \o SubSeq(outbuf[p], 1, n)) \o SubSeq(outbuf[p], n + 1, Len(outbuf[p]))
        = inbox[q] \o (SubSeq(outbuf[p], 1, n) \o SubSeq(outbuf[p], n + 1, Len(outbuf[p])))
  <2> DEFINE i == inbox[q]
             a == SubSeq(outbuf[p], 1, n)
             b == SubSeq(outbuf[p], n + 1, Len(outbuf[p]))
  <2>1. i \in Seq(Wire(p)) /\ a \in Seq(Wire(p)) /\ b \in Seq(Wire(p))
    BY <1>2, <1>5
  <2> HIDE DEF i, a, b
  <2>2. (i \o a) \o b = i \o (a \o b)
    BY <2>1, Assoc
  <2> QED  BY <2>2 DEF i, a, b
<1> QED  BY <1>1, <1>4, <1>5, <1>6 DEF Link, q

\* DATA frames of p for file b + 1 of its queue.
Numbered(p, b) == {m \in Wire(p) : m.type = "D" /\ m.batch = b}

\* What one pump writes: an OPEN if no file is current, blocks of the current file, and
\* a CLOSE if it is finished.
LEMMA PumpParts ==
  ASSUME NEW p \in Peers, NEW s \in Senders, Books(p, s),
         s.cur # None \/ s.queue # <<>>,
         NEW resend \in BOOLEAN, resend => s.unacked # {}
  PROVE  \E blocks \in Seq(Numbered(p, s.batch)) :
           PumpFrames(s, resend) =
             (IF s.cur = None THEN <<Open(Opened(s).cur, s.batch)>> ELSE <<>>)
               \o (blocks \o (IF Finished(Filled(Opened(s))) THEN <<Close>> ELSE <<>>))
<1> DEFINE o == Opened(s)
           f == Filled(o)
           N == Numbered(p, s.batch)
           open == IF s.cur = None THEN <<Open(o.cur, o.batch)>> ELSE <<>>
           again == IF resend THEN <<Data(o.cur, o.batch, Oldest(o.unacked))>> ELSE <<>>
           fresh == [i \in 1..(f.next - o.next) |-> Data(o.cur, o.batch, o.next + i - 1)]
           close == IF Finished(f) THEN <<Close>> ELSE <<>>
<1>1. /\ o \in Senders /\ Books(p, o) /\ o.cur # None /\ o.batch = s.batch
      /\ s.cur # None => o = s
  BY OpenedOK
<1>2. /\ f \in Senders /\ f.next >= o.next
      /\ \A k \in Nat : o.next <= k /\ k < f.next => k < o.total
  BY <1>1, FilledOK
<1> HIDE DEF o, f
<1>3. /\ o.batch \in Nat /\ o.batch < Len(Queue[p]) /\ o.next \in Nat /\ f.next \in Nat
      /\ o.cur = Queue[p][o.batch + 1] /\ o.total = Blocks(o.cur)
      /\ o.unacked \in SUBSET Nat /\ \A k \in o.unacked : k < o.total
  <2>1. /\ o.batch \in Nat /\ o.next \in Nat /\ f.next \in Nat
        /\ o.unacked \in SUBSET Nat /\ Len(o.queue) \in Nat
    BY <1>1, <1>2 DEF Senders
  <2>2. o.batch + 1 + Len(o.queue) = Len(Queue[p])
    BY <1>1 DEF Books
  <2> QED  BY <1>1, <2>1, <2>2 DEF Books
<1>4. /\ Open(o.cur, o.batch) \in Wire(p)
      /\ \A k \in Nat : k < o.total => Data(o.cur, o.batch, k) \in N
  BY <1>1, <1>3, FileFrames DEF Numbered, Data
<1> HIDE DEF N
<1>5. open \in Seq(Wire(p))
  BY <1>4
<1>6. again \in Seq(N)
  <2>1. CASE ~resend
    BY <2>1
  <2>2. CASE resend
    <3>1. o.unacked # {}
      BY <1>1, <2>2 DEF Books
    <3>2. Oldest(o.unacked) \in Nat /\ Oldest(o.unacked) < o.total
      BY <1>3, <3>1, OldestType
    <3> QED  BY <1>4, <2>2, <3>2
  <2> QED  BY <2>1, <2>2
<1>7. fresh \in Seq(N)
  <2>1. ASSUME NEW i \in 1..(f.next - o.next)
        PROVE  Data(o.cur, o.batch, o.next + i - 1) \in N
    <3>1. /\ o.next + i - 1 \in Nat /\ o.next <= o.next + i - 1
          /\ o.next + i - 1 < f.next
      BY <1>2, <1>3
    <3>2. o.next + i - 1 < o.total
      BY <1>2, <3>1
    <3> QED  BY <1>4, <3>1, <3>2
  <2>2. f.next - o.next \in Nat
    BY <1>2, <1>3
  <2> QED  BY <2>1, <2>2, IsASeq
<1>8. close \in Seq(Wire(p))
  BY ControlFrames
<1>9. PumpFrames(s, resend) = ((open \o again) \o fresh) \o close
  BY DEF PumpFrames, o, f
<1>10. open = IF s.cur = None THEN <<Open(o.cur, s.batch)>> ELSE <<>>
  BY <1>1
<1> HIDE DEF open, again, fresh, close
<1>11. N \subseteq Wire(p)
  BY DEF N, Numbered
<1>12. again \in Seq(Wire(p)) /\ fresh \in Seq(Wire(p))
  BY <1>6, <1>7, <1>11, SeqMonotonic
<1>13. again \o fresh \in Seq(N) /\ again \o fresh \in Seq(Wire(p)) /\ open \o again \in Seq(Wire(p))
  BY <1>5, <1>6, <1>7, <1>12, ConcatProperties
<1>14. (open \o again) \o fresh = open \o (again \o fresh)
  BY <1>5, <1>12, Assoc
<1> DEFINE blocks == again \o fresh
<1> HIDE DEF blocks
<1>15. (open \o blocks) \o close = open \o (blocks \o close)
  BY <1>5, <1>8, <1>13, Assoc DEF blocks
<1>16. PumpFrames(s, resend) = open \o (blocks \o close)
  BY <1>9, <1>14, <1>15 DEF blocks
<1> QED  BY <1>10, <1>13, <1>16 DEF N, o, f, open, close, blocks

\* So it writes nothing but frames that concern files.
LEMMA PumpKinds ==
  ASSUME NEW p \in Peers, NEW s \in Senders, Books(p, s),
         s.cur # None \/ s.queue # <<>>,
         NEW resend \in BOOLEAN, resend => s.unacked # {}
  PROVE  \A i \in 1..Len(PumpFrames(s, resend)) :
           PumpFrames(s, resend)[i].type \in {"O", "D", "C"}
<1> DEFINE o == Opened(s)
           open == IF s.cur = None THEN <<Open(o.cur, s.batch)>> ELSE <<>>
           close == IF Finished(Filled(o)) THEN <<Close>> ELSE <<>>
           E == {e \in Wire(p) : e.type \in {"O", "D", "C"}}
<1>1. PICK blocks \in Seq(Numbered(p, s.batch)) :
        PumpFrames(s, resend) = open \o (blocks \o close)
  BY PumpParts
<1>2. Close \in E
  BY ControlFrames DEF Close
<1>3. Open(o.cur, s.batch) \in E
  <2>1. /\ o \in Senders /\ Books(p, o) /\ o.cur # None /\ o.batch = s.batch
    BY OpenedOK
  <2> HIDE DEF o
  <2>2. s.batch \in Nat /\ Len(o.queue) \in Nat
    BY <2>1 DEF Senders
  <2>3. s.batch < Len(Queue[p]) /\ o.cur = Queue[p][s.batch + 1]
    BY <2>1, <2>2 DEF Books
  <2> QED  BY <2>2, <2>3, FileFrames DEF Open
<1>4. Numbered(p, s.batch) \subseteq E
  BY DEF Numbered
<1> HIDE DEF E, o
<1>5. blocks \in Seq(E) /\ open \in Seq(E) /\ close \in Seq(E)
  BY <1>2, <1>3, <1>4, SeqMonotonic
<1> HIDE DEF open, close
<1>6. open \o (blocks \o close) \in Seq(E)
  BY <1>5, ConcatProperties
<1>7. \A i \in 1..Len(PumpFrames(s, resend)) : PumpFrames(s, resend)[i] \in E
  BY <1>1, <1>6, ElementOfSeq
<1> QED  BY <1>7 DEF E

-----------------------------------------------------------------------------
(***************************************************************************)
(* The end of a session.  Z is written by a peer that has nothing left to  *)
(* send, and such a peer stays so; DONE follows a Z, in a peer that has    *)
(* nothing left either.                                                    *)
(***************************************************************************)
Spent(s) == s.cur = None /\ s.queue = <<>>
Signed(w, s) == \A i \in 1..Len(w) : w[i].type = "Z" => Spent(s)
Logged(p, s, logged) == \A i \in 1..s.batch : Queue[p][i] \in logged

Ends ==
  \A p \in Peers :
    /\ state[p] = "INIT" => snd[p].cur = None
    /\ state[p] = "DONE" => Spent(snd[p]) /\ Spent(snd[Other(p)])
    /\ Signed(Link(p), snd[p])
    /\ Logged(p, snd[p], reported[p])

\* Signatures survive joining and reading.
LEMMA SignedParts ==
  ASSUME NEW S, NEW w \in Seq(S), NEW v \in Seq(S), NEW s, NEW t, Spent(s) => Spent(t)
  PROVE  /\ Signed(w, s) /\ Signed(v, t) => Signed(w \o v, t)
         /\ Signed(w, s) => Signed(w, t)
         /\ Signed(w, s) /\ w # <<>> => Signed(Tail(w), t)
<1>1. ASSUME Signed(w, s), Signed(v, t) PROVE Signed(w \o v, t)
  <2>1. SUFFICES ASSUME NEW i \in 1..Len(w \o v), (w \o v)[i].type = "Z" PROVE Spent(t)
    BY DEF Signed
  <2>2. Len(w) \in Nat /\ Len(v) \in Nat /\ Len(w \o v) = Len(w) + Len(v)
    BY Joined
  <2>3. CASE i <= Len(w)
    <3>1. i \in 1..Len(w)
      BY <2>2, <2>3
    <3>2. (w \o v)[i] = w[i]
      BY <3>1, Joined
    <3> QED  BY <1>1, <2>1, <3>1, <3>2 DEF Signed
  <2>4. CASE ~(i <= Len(w))
    <3>1. i - Len(w) \in 1..Len(v) /\ Len(w) + (i - Len(w)) = i
      BY <2>2, <2>4
    <3>2. (w \o v)[i] = v[i - Len(w)]
      BY <3>1, Joined
    <3> QED  BY <1>1, <2>1, <3>1, <3>2 DEF Signed
  <2> QED  BY <2>3, <2>4
<1>2. ASSUME Signed(w, s), w # <<>> PROVE Signed(Tail(w), t)
  BY <1>2, Rest DEF Signed
<1> QED  BY <1>1, <1>2 DEF Signed

\* What is handled leaves the rest signed.
LEMMA SignedTail ==
  ASSUME NEW S, NEW w \in Seq(S), w # <<>>, NEW s, Signed(w, s)
  PROVE  Signed(Tail(w), s)
BY Rest DEF Signed

\* What an action of x has to respect.
LEMMA EndsStep ==
  ASSUME Inv, Ends, NEW x \in Peers, NEW frames \in Seq(Wire(x)),
         Link(x)' = Link(x) \o frames,
         \/ Link(Other(x))' = Link(Other(x))
         \/ Link(Other(x)) # <<>> /\ Link(Other(x))' = Tail(Link(Other(x))),
         Signed(frames, snd'[x]), Spent(snd[x]) => Spent(snd'[x]),
         Logged(x, snd'[x], reported'[x]),
         snd'[Other(x)] = snd[Other(x)], reported'[Other(x)] = reported[Other(x)],
         state'[Other(x)] = state[Other(x)],
         state'[x] = "INIT" => snd'[x].cur = None,
         state'[x] = "DONE" =>
           state[x] = "DONE" \/ (Spent(snd'[x]) /\ Spent(snd[Other(x)]))
  PROVE  Ends'
<1> DEFINE y == Other(x)
<1>1. y \in Peers /\ Other(y) = x /\ \A p \in Peers : p = x \/ p = y
  BY OtherPeer DEF Peers, Other
<1>2. Link(x) \in Seq(Wire(x)) /\ Link(y) \in Seq(Wire(y))
  BY <1>1, LinkType
<1>3. Signed(Link(x)', snd'[x])
  <2>1. Signed(Link(x), snd[x])
    BY DEF Ends
  <2>2. Signed(Link(x) \o frames, snd'[x])
    BY <1>2, <2>1, SignedParts, Zenon
  <2> QED  BY <2>2
<1>4. Signed(Link(y)', snd'[y])
  <2>1. Signed(Link(y), snd[y]) /\ snd'[y] = snd[y]
    BY <1>1 DEF Ends
  <2>2. Link(y) # <<>> => Signed(Tail(Link(y)), snd[y])
    BY <1>1, <1>2, <2>1, SignedTail
  <2>3. Link(y)' = Link(y) \/ (Link(y) # <<>> /\ Link(y)' = Tail(Link(y)))
    OBVIOUS
  <2> HIDE DEF y
  <2> QED  BY <2>1, <2>2, <2>3, Zenon
<1>5. ASSUME NEW p \in Peers, state'[p] = "DONE"
      PROVE  Spent(snd'[p]) /\ Spent(snd'[Other(p)])
  BY <1>1, <1>5 DEF Ends
<1>6. \A p \in Peers : Logged(p, snd'[p], reported'[p])
  BY <1>1 DEF Ends
<1>7. \A p \in Peers : Signed(Link(p)', snd'[p])
  BY <1>1, <1>3, <1>4
<1>8. \A p \in Peers : state'[p] = "INIT" => snd'[p].cur = None
  BY <1>1 DEF Ends
<1> QED  BY <1>5, <1>6, <1>7, <1>8 DEF Ends

\* Frames that are no Z are signed whatever the state of their writer.
LEMMA Unsigned ==
  /\ \A s : Signed(<<>>, s)
  /\ \A s, m : (m.type = "Z" => Spent(s)) => Signed(<<m>>, s)
  /\ \A s, m, n : (m.type = "Z" => Spent(s)) /\ (n.type = "Z" => Spent(s)) => Signed(<<m, n>>, s)
BY DEF Signed

\* A pump closes a file only with its report, and opens one only if there is one.
LEMMA PumpEnds ==
  ASSUME Inv, Ends, NEW x \in Peers, NEW resend \in BOOLEAN,
         resend => snd[x].unacked # {}, PumpWith(x, resend)
  PROVE  Ends'
<1> DEFINE s == snd[x]
           o == Opened(s)
           f == Filled(o)
<1>1. s \in Senders /\ Books(x, s) /\ (s.cur # None \/ s.queue # <<>>)
  BY DEF PumpWith, Inv, SndOK, SenderAccounts
<1>2. /\ o \in Senders /\ Books(x, o) /\ o.cur # None /\ o.batch = s.batch
  BY <1>1, OpenedOK
<1>3. /\ f \in Senders /\ Books(x, f) /\ f.cur = o.cur /\ f.batch = s.batch
  BY <1>2, FilledOK
<1>4. PumpFrames(s, resend) \in Seq(Wire(x))
  BY <1>1, PumpFramesOK
<1>6. Link(x)' = Link(x) \o PumpFrames(s, resend) /\ Link(Other(x))' = Link(Other(x))
  BY <1>4, LinkSend DEF PumpWith
<1>7. \A t : Signed(PumpFrames(s, resend), t)
  BY <1>1, PumpKinds DEF Signed
<1>8. /\ snd'[x] = Closed(f) /\ snd'[Other(x)] = snd[Other(x)]
      /\ reported'[x] = (IF Finished(f) THEN reported[x] \cup {f.cur} ELSE reported[x])
      /\ reported'[Other(x)] = reported[Other(x)] /\ state' = state
  BY OtherPeer DEF PumpWith, Inv, SndOK, StateOK
<1> HIDE DEF s, o, f
<1>9. Logged(x, f, reported[x]) /\ f.cur = Queue[x][f.batch + 1] /\ f.batch \in Nat
  BY <1>2, <1>3 DEF Ends, Logged, Books, Senders, s
<1>10. Logged(x, snd'[x], reported'[x])
  <2>1. CASE ~Finished(f)
    BY <1>8, <1>9, <2>1 DEF Closed
  <2>2. CASE Finished(f)
    <3>1. snd'[x].batch = f.batch + 1
      BY <1>3, <1>8, <2>2 DEF Closed, Senders
    <3>2. \A i \in 1..f.batch + 1 : i \in 1..f.batch \/ i = f.batch + 1
      BY <1>9
    <3> QED  BY <1>8, <1>9, <2>2, <3>1, <3>2 DEF Logged
  <2> QED  BY <2>1, <2>2
<1>11. ~Spent(s) /\ state[x] = "TRANSFERRING"
  BY <1>1 DEF Spent, PumpWith, Sending
<1> QED  BY <1>4, <1>6, <1>7, <1>8, <1>10, <1>11, EndsStep DEF s, Ends

\* What _handle_packet() may answer: a block of the current file to a NAK, an ACK to the
\* block it speaks of, K or V to an OPEN of something it refuses or has, S to a VERIFY.
Replies(x, m) ==
  \/ m.type \in {"RQ", "Z", "N"}
  \/ m.type = "D" /\ snd[x].cur # None /\ m.batch = snd[x].batch
  \/ /\ m.type = "A" /\ Packet(x).type = "D"
     /\ m.batch = Packet(x).batch /\ m.batch = rcv[x].batch
     /\ m.block = Packet(x).block /\ m.block <= rcv[x].expected
  \/ /\ m.type \in {"K", "V"} /\ Packet(x).type = "O"
     /\ (Packet(x).name \in Unsafe \/ Existing(x) # Absent)
  \/ m.type = "S" /\ Packet(x).type = "V"

Replied(x, frames) == \A i \in 1..Len(frames) : Replies(x, frames[i])

\* Answers have at most two frames.
LEMMA RepliedBy ==
  ASSUME NEW x
  PROVE  /\ Replied(x, <<>>)
         /\ \A m : Replies(x, m) => Replied(x, <<m>>)
         /\ \A m, n : Replies(x, m) /\ Replies(x, n) => Replied(x, <<m, n>>)
BY DEF Replied

\* What _handle_packet() takes, answers and leaves alone, whatever the packet.
Handles(x, frames) ==
  /\ inbox[x] # <<>> /\ Taken(x) /\ alive[x]
  /\ (Send(x, frames) \/ (UNCHANGED outbuf /\ frames = <<>>))
  /\ snd'[Other(x)] = snd[Other(x)] /\ state'[Other(x)] = state[Other(x)]
  /\ snd'[x].batch = snd[x].batch /\ snd'[x].cur = snd[x].cur /\ snd'[x].queue = snd[x].queue
  /\ UNCHANGED reported
  /\ Signed(frames, snd[x]) /\ Replied(x, frames)
  /\ state'[x] = "INIT" => state[x] = "INIT"
  /\ state'[x] = "DONE" => (state[x] = "DONE") \/ (Packet(x).type = "Z" /\ Spent(snd[x]))

\* Handling a frame takes it off the link of the peer; the answer joins the own.
LEMMA LinkHandled ==
  ASSUME Inv, NEW x \in Peers, NEW frames \in Seq(Wire(x)), inbox[x] # <<>>, Taken(x),
         Send(x, frames) \/ (UNCHANGED outbuf /\ frames = <<>>)
  PROVE  /\ Link(x)' = Link(x) \o frames
         /\ Link(Other(x)) # <<>> /\ Head(Link(Other(x))) = Packet(x)
         /\ Link(Other(x))' = Tail(Link(Other(x)))
<1>1. CASE Send(x, frames)
  BY <1>1, LinkReply
<1>2. CASE UNCHANGED outbuf /\ frames = <<>>
  <2>1. Link(x) \in Seq(Wire(x))
    BY LinkType
  <2>2. Link(x) \o <<>> = Link(x)
    BY <2>1, ConcatEmptySeq
  <2> QED  BY <1>2, <2>2, LinkTake
<1> QED  BY <1>1, <1>2

\* Every handler of Receive answers and changes no more than Handles says.
LEMMA ReceiveHandles ==
  ASSUME Inv, Ends, NEW x \in Peers, Receive(x)
  PROVE  \E frames \in Seq(Wire(x)) : Handles(x, frames)
<1>1. Other(x) \in Peers /\ Other(x) # x
  BY OtherPeer
<1>2. /\ snd \in [Peers -> Senders] /\ state \in [Peers -> {"INIT", "TRANSFERRING", "DONE"}]
      /\ snd[x] \in Senders /\ Books(x, snd[x])
  BY DEF Inv, SndOK, SenderAccounts, StateOK
<1>3. <<>> \in Seq(Wire(x)) /\ Signed(<<>>, snd[x]) /\ Replied(x, <<>>)
  BY Unsigned, RepliedBy
<1>3a. \A y \in Peers : y = x \/ y = Other(x)
  BY DEF Peers, Other
<1>4. ASSUME Handshake(x) PROVE \E frames \in Seq(Wire(x)) : Handles(x, frames)
  <2> DEFINE frames == IF snd[x].queue = <<>> THEN <<RQ, Done>> ELSE <<RQ>>
  <2>1. frames \in Seq(Wire(x))
    BY ControlFrames
  <2>2. snd[x].cur = None
    BY <1>4 DEF Handshake, Ends
  <2>3. Signed(frames, snd[x]) /\ Replied(x, frames)
    BY <2>2, Unsigned, RepliedBy DEF RQ, Done, Spent, Replies
  <2>4. Handles(x, frames)
    BY <1>1, <1>2, <1>4, <2>3 DEF Handshake, Arrives, Handles
  <2> QED  BY <2>1, <2>4
<1>5. ASSUME HandleAck(x) PROVE \E frames \in Seq(Wire(x)) : Handles(x, frames)
  BY <1>1, <1>2, <1>3, <1>5 DEF HandleAck, Transferring, Arrives, Handles, Senders
<1>6. ASSUME HandleNak(x) PROVE \E frames \in Seq(Wire(x)) : Handles(x, frames)
  <2> DEFINE s == snd[x]
             k == Packet(x).block
  <2>1. k \in s.unacked
    BY <1>6 DEF HandleNak
  <2>2. s.cur # None /\ k \in Nat /\ k < s.total /\ s.batch \in Nat /\ Len(s.queue) \in Nat
    BY <1>2, <2>1 DEF Books, Senders
  <2>3. s.batch < Len(Queue[x]) /\ s.cur = Queue[x][s.batch + 1] /\ s.total = Blocks(s.cur)
    BY <1>2, <2>2 DEF Books
  <2>4. <<Data(s.cur, s.batch, k)>> \in Seq(Wire(x))
    BY <2>2, <2>3, FileFrames
  <2>5. Signed(<<Data(s.cur, s.batch, k)>>, s) /\ Replied(x, <<Data(s.cur, s.batch, k)>>)
    BY <2>2, Unsigned, RepliedBy DEF Data, Replies
  <2>6. Handles(x, <<Data(s.cur, s.batch, k)>>)
    BY <1>1, <1>2, <1>6, <2>5 DEF HandleNak, Transferring, Arrives, Handles
  <2> QED  BY <2>4, <2>6
<1>7. ASSUME HandleSkip(x) PROVE \E frames \in Seq(Wire(x)) : Handles(x, frames)
  BY <1>1, <1>2, <1>3, <1>7 DEF HandleSkip, Transferring, Arrives, Handles, Senders
<1>8. ASSUME HandleVerify(x) PROVE \E frames \in Seq(Wire(x)) : Handles(x, frames)
  <2>1. Packet(x) \in Frames
    BY <1>8, TakenOK DEF HandleVerify, Transferring, Arrives, Inv
  <2>2. CASE snd[x].cur = None
    BY <1>1, <1>2, <1>3, <1>8, <2>2 DEF HandleVerify, Transferring, Arrives, Handles
  <2>3. CASE snd[x].cur # None
    <3> DEFINE n == Verified(Packet(x).crcs, snd[x].cur)
               frames == <<Seek(snd[x].batch, n)>>
    <3>1. Packet(x).crcs \in Seq(Seq(Unit))
      BY <1>8, <2>1, FrameFields DEF HandleVerify, Transferring, Arrives, Packet
    <3>2. n \in Nat /\ snd[x].batch \in Nat
      BY <1>2, <3>1, VerifiedType DEF Senders
    <3> HIDE DEF n
    <3>3. frames \in Seq(Wire(x))
      BY <3>2, ControlFrames
    <3>4. Signed(frames, snd[x]) /\ Replied(x, frames)
      BY <1>8, Unsigned, RepliedBy
         DEF Seek, Replies, HandleVerify, Transferring, Arrives, Packet
    <3>5. Handles(x, frames)
      BY <1>1, <1>2, <1>8, <2>3, <3>4 DEF HandleVerify, Transferring, Arrives, Handles, Senders, n
    <3> QED  BY <3>3, <3>5
  <2> QED  BY <2>2, <2>3
<1>9. ASSUME HandleOpen(x) PROVE \E frames \in Seq(Wire(x)) : Handles(x, frames)
  <2>1. <<Skip>> \in Seq(Wire(x)) /\ Signed(<<Skip>>, snd[x])
    BY ControlFrames, Unsigned DEF Skip
  <2>2. CASE OpenUnsafe(x) \/ OpenSkip(x)
    <3>0. Replies(x, Skip)
      BY <2>2 DEF Skip, Replies, OpenUnsafe, OpenSkip, SameSize, Transferring, Arrives, Packet
    <3>0a. Replied(x, <<Skip>>)
      BY <3>0, RepliedBy
    <3>1. Handles(x, <<Skip>>)
      BY <1>1, <1>2, <2>1, <2>2, <3>0a DEF OpenUnsafe, OpenSkip, Transferring, Arrives, Handles
    <3> QED  BY <2>1, <3>1
  <2>3. CASE OpenResume(x)
    <3> DEFINE frames == <<Verify(Existing(x))>>
    <3>1. Packet(x) \in Frames /\ Packet(x).type = "O"
      BY <2>3, TakenOK DEF OpenResume, Transferring, Arrives, Packet, Inv
    <3>2. Existing(x) \in Seq(Unit)
      BY <2>3, <3>1, FrameFields DEF Inv, RecvOK, Existing, OpenResume, Resumable
    <3>2a. Replies(x, Verify(Existing(x)))
      BY <2>3, <3>1 DEF Verify, Replies, OpenResume, Resumable
    <3>2b. Verify(Existing(x)) \in Wire(x) /\ Verify(Existing(x)).type # "Z"
      BY <3>2, ControlFrames DEF Verify
    <3>3. frames \in Seq(Wire(x)) /\ Signed(frames, snd[x]) /\ Replied(x, frames)
      BY <3>2a, <3>2b, Unsigned, RepliedBy
    <3>4. Handles(x, frames)
      BY <1>1, <1>2, <2>3, <3>3 DEF OpenResume, Transferring, Arrives, Handles
    <3> QED  BY <3>3, <3>4
  <2>4. CASE OpenFresh(x)
    BY <1>1, <1>2, <1>3, <2>4 DEF OpenFresh, Transferring, Arrives, Handles
  <2> QED  BY <1>9, <2>2, <2>3, <2>4 DEF HandleOpen
<1>10. ASSUME DataExpected(x) \/ DataUnexpected(x)
       PROVE  \E frames \in Seq(Wire(x)) : Handles(x, frames)
  <2> DEFINE m == Packet(x)
             ack == <<Ack(m.batch, m.block)>>
             nak == <<Nak(m.batch, rcv[x].expected)>>
  <2>1. m \in Frames /\ m.type = "D"
    BY <1>10, TakenOK DEF DataExpected, DataUnexpected, Transferring, Arrives, Packet, Inv
  <2>2. m.batch \in Nat /\ m.block \in Nat /\ rcv[x].expected \in Nat
    BY <2>1, FrameFields DEF Inv, RecvOK, Receivers
  <2> HIDE DEF m
  <2>3a. /\ Ack(m.batch, m.block) \in Wire(x)
         /\ Nak(m.batch, rcv[x].expected) \in Wire(x)
    BY <2>2, ControlFrames
  <2>3b. /\ Ack(m.batch, m.block).type # "Z"
         /\ Nak(m.batch, rcv[x].expected).type # "Z"
    BY DEF Ack, Nak
  <2>3. /\ ack \in Seq(Wire(x)) /\ Signed(ack, snd[x])
        /\ nak \in Seq(Wire(x)) /\ Signed(nak, snd[x])
    BY <2>3a, <2>3b, Unsigned
  <2> HIDE DEF ack, nak
  <2>3c. Replied(x, nak)
    BY RepliedBy DEF nak, Nak, Replies
  <2>4. CASE Send(x, ack) /\ m.batch = rcv[x].batch /\ m.block <= rcv[x].expected
    <3>1. Replies(x, Ack(m.batch, m.block))
      BY <2>1, <2>4 DEF Ack, Replies, m
    <3>2. Replied(x, ack)
      BY <3>1, RepliedBy DEF ack
    <3>3. Handles(x, ack)
      BY <1>1, <1>2, <1>10, <2>3, <2>4, <3>2
         DEF DataExpected, DataUnexpected, Transferring, Arrives, Handles
    <3> QED  BY <2>3, <3>3
  <2>5. CASE Send(x, nak)
    <3>1. Handles(x, nak)
      BY <1>1, <1>2, <1>10, <2>3, <2>3c, <2>5
         DEF DataExpected, DataUnexpected, Transferring, Arrives, Handles
    <3> QED  BY <2>3, <3>1
  <2>6. Send(x, nak) \/ (Send(x, ack) /\ m.batch = rcv[x].batch /\ m.block <= rcv[x].expected)
    <3>1. CASE DataExpected(x)
      BY <2>2, <3>1 DEF DataExpected, m, ack
    <3>2. CASE DataUnexpected(x) /\ m.block > rcv[x].expected
      BY <3>2 DEF DataUnexpected, m, nak
    <3>3. CASE DataUnexpected(x) /\ ~(m.block > rcv[x].expected)
      BY <2>2, <3>3 DEF DataUnexpected, m, ack
    <3> QED  BY <1>10, <3>1, <3>2, <3>3
  <2> QED  BY <2>4, <2>5, <2>6
<1>11. ASSUME HandleSeek(x) \/ HandleClose(x) \/ Ignore(x)
       PROVE  \E frames \in Seq(Wire(x)) : Handles(x, frames)
  BY <1>1, <1>2, <1>3, <1>11
     DEF HandleSeek, HandleClose, Ignore, Transferring, Arrives, Handles
<1>12. ASSUME HandleDone(x) PROVE \E frames \in Seq(Wire(x)) : Handles(x, frames)
  <2>1. <<Done>> \in Seq(Wire(x)) /\ Spent(snd[x])
    BY <1>12, ControlFrames DEF HandleDone, Spent
  <2>2. Signed(<<Done>>, snd[x]) /\ Replied(x, <<Done>>)
    BY <2>1, Unsigned, RepliedBy DEF Done, Replies
  <2>3. Handles(x, <<Done>>)
    BY <1>1, <1>2, <1>12, <2>1, <2>2 DEF HandleDone, Transferring, Arrives, Packet, Handles
  <2> QED  BY <2>1, <2>3
<1> QED  BY <1>4, <1>5, <1>6, <1>7, <1>8, <1>9, <1>10, <1>11, <1>12 DEF Receive

\* Every other action that writes, reads or ends something.
LEMMA NextEnds ==
  ASSUME Inv, Ends, [Next]_vars PROVE Ends'
<1>1. ASSUME NEW x \in Peers, Idle(x) PROVE Ends'
  <2>1. \A p \in Peers : Link(p)' = Link(p)
    BY <1>1, LinkIdle
  <2> QED  BY <1>1, <2>1 DEF Idle, Ends
<1>2. ASSUME NEW x \in Peers, Ping(x) PROVE Ends'
  <2>1. <<RQ>> \in Seq(Wire(x)) /\ Signed(<<RQ>>, snd[x])
    BY ControlFrames, Unsigned DEF RQ
  <2>2. Link(x)' = Link(x) \o <<RQ>> /\ Link(Other(x))' = Link(Other(x))
    BY <1>2, <2>1, LinkSend DEF Ping
  <2> QED  BY <1>2, <2>1, <2>2, EndsStep DEF Ping, Ends
<1>3. ASSUME NEW x \in Peers, Pump(x) \/ Timeout(x) PROVE Ends'
  BY <1>3, PumpEnds DEF Pump, Timeout
<1>4. ASSUME NEW x \in Peers, AllSent(x) PROVE Ends'
  <2>1. <<Done>> \in Seq(Wire(x)) /\ Spent(snd[x])
    BY <1>4, ControlFrames DEF AllSent, Spent
  <2>2. Link(x)' = Link(x) \o <<Done>> /\ Link(Other(x))' = Link(Other(x))
    BY <1>4, <2>1, LinkSend DEF AllSent
  <2>3. /\ snd'[Other(x)] = snd[Other(x)]
        /\ snd'[x].batch = snd[x].batch /\ snd'[x].cur = snd[x].cur
        /\ snd'[x].queue = snd[x].queue
    BY <1>4, OtherPeer DEF AllSent, Inv, SndOK, Senders
  <2>4. Spent(snd'[x]) /\ Logged(x, snd'[x], reported[x])
    BY <2>1, <2>3 DEF Spent, Ends, Logged
  <2>5. Signed(<<Done>>, snd'[x])
    BY <2>4, Unsigned
  <2> QED  BY <1>4, <2>1, <2>2, <2>3, <2>4, <2>5, EndsStep DEF AllSent, Ends
<1>5. ASSUME NEW x \in Peers, Receive(x) PROVE Ends'
  <2>1. Other(x) \in Peers /\ Other(x) # x
    BY OtherPeer
  <2>2. PICK frames \in Seq(Wire(x)) : Handles(x, frames)
    BY <1>5, ReceiveHandles
  <2>3. /\ Link(x)' = Link(x) \o frames
        /\ Link(Other(x)) # <<>> /\ Link(Other(x))' = Tail(Link(Other(x)))
    BY <2>2, LinkHandled DEF Handles
  <2>4. /\ snd'[x].batch = snd[x].batch /\ snd'[x].cur = snd[x].cur
        /\ snd'[x].queue = snd[x].queue
    BY <2>2 DEF Handles
  <2>5. /\ Spent(snd'[x]) = Spent(snd[x])
        /\ Signed(frames, snd[x]) => Signed(frames, snd'[x])
        /\ Logged(x, snd'[x], reported[x])
    BY <2>4 DEF Spent, Ends, Logged, Signed
  <2>6. Signed(frames, snd[x])
    BY <2>2 DEF Handles
  <2>7. snd'[Other(x)] = snd[Other(x)] /\ state'[Other(x)] = state[Other(x)] /\ reported' = reported
    BY <2>2 DEF Handles
  <2>8. state'[x] = "DONE" => state[x] = "DONE" \/ (Spent(snd'[x]) /\ Spent(snd[Other(x)]))
    <3>1. SUFFICES ASSUME state'[x] = "DONE", state[x] # "DONE"
                   PROVE  Spent(snd[x]) /\ Spent(snd[Other(x)])
      BY <2>5
    <3>2. Spent(snd[x]) /\ Packet(x).type = "Z"
      BY <2>2, <3>1 DEF Handles, Spent
    <3>3. Packet(x) = Link(Other(x))[1] /\ 1 \in 1..Len(Link(Other(x)))
      <4>1. Link(Other(x)) \in Seq(Wire(Other(x)))
        BY <2>1, LinkType
      <4>2. Head(Link(Other(x))) = Packet(x)
        BY <2>2, LinkHandled DEF Handles
      <4> QED  BY <2>3, <4>1, <4>2, Rest
    <3> QED  BY <2>1, <3>2, <3>3 DEF Ends, Signed
  <2>9. state'[x] = "INIT" => snd'[x].cur = None
    BY <2>2, <2>4 DEF Handles, Ends
  <2> QED  BY <2>3, <2>5, <2>6, <2>7, <2>8, <2>9, EndsStep
<1>6. ASSUME NEW x \in Peers, Lose(x) PROVE Ends'
  <2>1. /\ Link(x)' = Link(x)
        /\ Link(Other(x)) # <<>> /\ Link(Other(x))' = Tail(Link(Other(x)))
    BY <1>6, LinkTake DEF Lose
  <2>2. Link(x) \in Seq(Wire(x)) /\ <<>> \in Seq(Wire(x)) /\ Signed(<<>>, snd[x])
    BY LinkType, Unsigned
  <2>3. Link(x) \o <<>> = Link(x)
    BY <2>2, ConcatEmptySeq
  <2> QED  BY <1>6, <2>1, <2>2, <2>3, EndsStep DEF Lose, Ends
<1>7. ASSUME NEW x \in Peers, Exit(x) \/ CarrierLost(x) PROVE Ends'
  BY <1>7 DEF Exit, CarrierLost, Ends, Link
<1>8. CASE Reconnect
  <2>1. \A p \in Peers : Link(p)' = <<>>
    BY <1>8, OtherPeer, EmptySeq, ConcatEmptySeq DEF Reconnect, Link
  <2>2. \A p \in Peers : state'[p] # "DONE" /\ snd'[p].batch = 0 /\ snd'[p].cur = None
    BY <1>8 DEF Reconnect, NewSender
  <2> QED  BY <2>1, <2>2, Unsigned DEF Ends, Logged
<1>9. CASE UNCHANGED vars
  BY <1>9 DEF vars, Ends, Link
<1> QED  BY <1>1, <1>2, <1>3, <1>4, <1>5, <1>6, <1>7, <1>8, <1>9 DEF Next, Step, Terminated

\* Nothing is on the link, signed or logged at the start.
LEMMA InitEnds == Init => Ends
<1> SUFFICES ASSUME Init PROVE Ends
  OBVIOUS
<1>1. \A p \in Peers : Link(p) = <<>>
  BY OtherPeer, EmptySeq, ConcatEmptySeq DEF Init, Link
<1>2. \A p \in Peers : state[p] = "INIT" /\ snd[p].batch = 0 /\ snd[p].cur = None
  BY DEF Init, NewSender
<1> QED  BY <1>1, <1>2, Unsigned DEF Ends, Logged

\* A peer with nothing left has closed, and so reported, every file of its queue.
LEMMA EndsImplies == Inv /\ Ends => DoneMeansExchanged
<1> SUFFICES ASSUME Inv, Ends, NEW p \in Peers, state[p] = "DONE",
                    NEW q \in Peers, NEW f \in FilesOf(q)
             PROVE  f \in reported[q]
  BY DEF DoneMeansExchanged
<1>1. Spent(snd[q])
  BY DEF Ends, Peers, Other
<1>2. snd[q] \in Senders /\ Books(q, snd[q])
  BY DEF Inv, SndOK, SenderAccounts
<1>3. snd[q].batch = Len(Queue[q])
  <2>1. Len(snd[q].queue) = 0 /\ snd[q].batch \in Nat
    BY <1>1, <1>2 DEF Spent, Senders
  <2> QED  BY <1>1, <1>2, <2>1 DEF Books, Spent
<1>4. PICK i \in 1..Len(Queue[q]) : f = Queue[q][i]
  BY DEF FilesOf
<1> QED  BY <1>3, <1>4 DEF Ends, Logged

\* A session that reaches DONE in either peer has reported every file of both: the Z
\* that ends it never overtakes work, whatever the line damages, and after
\* reconnections too.
THEOREM DoneExchanged == Spec => []DoneMeansExchanged
<1>1. Inv /\ Ends /\ [Next]_vars => Ends'
  BY NextEnds
<1>2. Spec => []Inv
  BY Invariance
<1> QED  BY <1>1, <1>2, InitEnds, EndsImplies, PTL DEF Spec

-----------------------------------------------------------------------------
(***************************************************************************)
(* One session between fresh directories, on a line that damages only what *)
(* the protocol acknowledges or asks for again.  K, V and S do not occur   *)
(* then: no file is skipped or resumed.                                    *)
(***************************************************************************)
CopyAt(p, b) == Copy(p, FileAt(p, b))

Fresh ==
  /\ MaxReconnects = 0 /\ Lossy \subseteq {"D", "A", "N"}
  /\ \A p \in Peers : \A b \in Batches(p) :
       /\ Content[FileAt(p, b)] # <<>> /\ Accepted(FileAt(p, b))
       /\ OnDisk[Other(p)][Name[FileAt(p, b)]] = Absent
       /\ \A c \in Batches(p) : c # b => Name[FileAt(p, c)] # Name[FileAt(p, b)]

Count(s) == s.batch + (IF s.cur = None THEN 0 ELSE 1)     \* files the sender opened
Begun(p) == {b \in Batches(p) : CopyAt(p, b) # Absent}     \* files the receiver opened

\* A receiver in INIT has the peer's RQ before it, and ignores nothing else.
Greeted(p) ==
  state[Other(p)] = "INIT" =>
    /\ Link(p) # <<>> => Head(Link(p)) = RQ
    /\ state[p] # "INIT" => Link(p) # <<>>

Plain(p) == \A i \in 1..Len(Link(p)) : Link(p)[i].type \notin {"K", "V", "S"}

\* The receiver is at the last file it has begun, and has its first blocks.
Opener(p) ==
  LET r == rcv[Other(p)] IN
  /\ r.fd # None => r.batch \in Batches(p) /\ r.fd = Name[FileAt(p, r.batch)]
  /\ \A b \in Begun(p) : b <= r.batch
  /\ r.batch = 0 \/ r.batch < Count(snd[p])
  /\ r.batch \in Begun(p) =>
       CopyAt(p, r.batch) = Front(Content[FileAt(p, r.batch)], r.expected)

Flow(p) ==
  LET r == rcv[Other(p)] IN
  alive[Other(p)] =>
    Tidy(Link(p), Count(snd[p]), snd[p].cur # None, Begun(p), r.batch, r.fd # None)

\* The receiver has written block k of file b, or is past that file.
Held(p, b, k) ==
  b \in Begun(p) /\ (b = rcv[Other(p)].batch => k < rcv[Other(p)].expected)

\* What has left the window is held, and so is what an ACK on its way speaks of.
Earned(p, s) == s.cur # None => \A k \in (0 .. s.next - 1) \ s.unacked : Held(p, s.batch, k)
Vouched(p, w) == \A i \in 1..Len(w) : w[i].type = "A" => Held(p, w[i].batch, w[i].block)

\* What is closed is reported, and delivered.
Settled(p, s, files) ==
  /\ files = {Queue[p][i] : i \in 1..s.batch}
  /\ \A b \in 0 .. s.batch - 1 : b \in Begun(p) /\ CopyAt(p, b) = Content[FileAt(p, b)]

Course(p) ==
  /\ Opener(p) /\ Flow(p) /\ Earned(p, snd[p]) /\ Vouched(p, Link(Other(p)))
  /\ Settled(p, snd[p], reported[p])

Delivery == \A p \in Peers : Greeted(p) /\ Plain(p) /\ Course(p)

\* A file of a queue, under Fresh.
LEMMA FileFacts ==
  ASSUME Fresh, NEW p \in Peers, NEW b \in Batches(p)
  PROVE  /\ FileAt(p, b) \in Files /\ Name[FileAt(p, b)] \in Names
         /\ Content[FileAt(p, b)] \in Seq(Unit) /\ Content[FileAt(p, b)] # <<>>
         /\ Content[FileAt(p, b)] # Absent /\ Accepted(FileAt(p, b))
         /\ b \in Nat /\ b + 1 \in 1..Len(Queue[p]) /\ b < Len(Queue[p])
         /\ \A c \in Batches(p) : c # b => Name[FileAt(p, c)] # Name[FileAt(p, b)]
<1>1. Len(Queue[p]) \in Nat /\ \A i \in 1..Len(Queue[p]) : Queue[p][i] \in Files
  BY FilesAssumption
<1>2. b \in Nat /\ b + 1 \in 1..Len(Queue[p]) /\ b < Len(Queue[p])
  BY <1>1 DEF Batches
<1>3. FileAt(p, b) \in Files
  BY <1>1, <1>2 DEF FileAt
<1>4. /\ Content[FileAt(p, b)] # <<>> /\ Accepted(FileAt(p, b))
      /\ \A c \in Batches(p) : c # b => Name[FileAt(p, c)] # Name[FileAt(p, b)]
  BY DEF Fresh
<1> QED  BY <1>2, <1>3, <1>4, FilesAssumption

\* How many files a sender has opened, and of which queue.
LEMMA CountFacts ==
  ASSUME Inv, NEW p \in Peers
  PROVE  /\ snd[p].batch \in Nat /\ Count(snd[p]) \in Nat /\ Count(snd[p]) <= Len(Queue[p])
         /\ snd[p].cur # None => /\ Count(snd[p]) = snd[p].batch + 1
                                 /\ snd[p].batch \in Batches(p)
                                 /\ snd[p].cur = FileAt(p, snd[p].batch)
                                 /\ snd[p].total = Blocks(snd[p].cur)
         /\ snd[p].cur = None => Count(snd[p]) = snd[p].batch
         /\ snd[p].next \in Nat /\ snd[p].total \in Nat /\ snd[p].unacked \in SUBSET Nat
<1>1. snd[p] \in Senders /\ Books(p, snd[p])
  BY DEF Inv, SndOK, SenderAccounts
<1>2. snd[p].batch \in Nat /\ Len(snd[p].queue) \in Nat /\ Len(Queue[p]) \in Nat
  BY <1>1, FilesAssumption DEF Senders
<1>3. Count(snd[p]) + Len(snd[p].queue) = Len(Queue[p])
  BY <1>1 DEF Books, Count
<1>4. Count(snd[p]) \in Nat
  BY <1>2 DEF Count
<1>5. snd[p].cur # None => snd[p].batch \in Batches(p) /\ Count(snd[p]) = snd[p].batch + 1
  BY <1>2, <1>3 DEF Count, Batches
<1> QED  BY <1>1, <1>2, <1>3, <1>4, <1>5 DEF Count, FileAt, Books, Senders

\* The receiver's side: types, and an open file is one that has been begun.
LEMMA BegunFacts ==
  ASSUME Inv, Fresh, NEW p \in Peers, Opener(p)
  PROVE  LET r == rcv[Other(p)] IN
         /\ r.batch \in Nat /\ r.expected \in Nat
         /\ Begun(p) \subseteq Batches(p) /\ Begun(p) \in SUBSET Nat /\ \A b \in Begun(p) : b \in Nat
         /\ r.fd # None => r.batch \in Begun(p)
<1>1. Other(p) \in Peers /\ rcv[Other(p)] \in Receivers
  BY OtherPeer DEF Inv, RecvOK
<1>2. Begun(p) \subseteq Batches(p) /\ Begun(p) \subseteq Nat
  <2>1. Batches(p) \subseteq Nat
    BY DEF Batches
  <2> QED  BY <2>1 DEF Begun
<1>3. ASSUME rcv[Other(p)].fd # None PROVE rcv[Other(p)].batch \in Begun(p)
  <2>1. disk[Other(p)][rcv[Other(p)].fd] # Absent
    BY <1>1, <1>3 DEF Inv, RecvOK
  <2> QED  BY <1>3, <2>1 DEF Opener, Begun, CopyAt, Copy
<1> QED  BY <1>1, <1>2, <1>3 DEF Receivers

\* Nothing is known less if neither the receiver nor its directory changes.
LEMMA SameCopies ==
  ASSUME NEW p \in Peers, rcv'[Other(p)] = rcv[Other(p)], disk'[Other(p)] = disk[Other(p)]
  PROVE  /\ Begun(p)' = Begun(p)
         /\ \A b : CopyAt(p, b)' = CopyAt(p, b)
         /\ \A b, k : Held(p, b, k)' = Held(p, b, k)
<1>1. \A b : CopyAt(p, b)' = CopyAt(p, b)
  BY DEF CopyAt, Copy
<1>2. Begun(p)' = Begun(p)
  BY <1>1 DEF Begun
<1> QED  BY <1>1, <1>2 DEF Held

\* What a step of x has to respect for the files it sends: the peer's half is unmoved.
LEMMA OutgoingStep ==
  ASSUME Inv, Fresh, Delivery, NEW x \in Peers, NEW frames \in Seq(Wire(x)),
         Link(x)' = Link(x) \o frames,
         \/ Link(Other(x))' = Link(Other(x))
         \/ Link(Other(x)) # <<>> /\ Link(Other(x))' = Tail(Link(Other(x))),
         rcv'[Other(x)] = rcv[Other(x)], disk'[Other(x)] = disk[Other(x)],
         alive'[Other(x)] = alive[Other(x)],
         Count(snd'[x]) \in Nat, Count(snd[x]) <= Count(snd'[x]),
         alive[Other(x)] =>
           Tidy(Link(x) \o frames, Count(snd'[x]), snd'[x].cur # None, Begun(x),
                rcv[Other(x)].batch, rcv[Other(x)].fd # None),
         Earned(x, snd'[x]), Settled(x, snd'[x], reported'[x])
  PROVE  Course(x)'
<1> DEFINE y == Other(x)
<1>1. y \in Peers /\ Other(y) = x /\ Course(x)
  BY OtherPeer DEF Delivery
<1>2. /\ Begun(x)' = Begun(x)
      /\ \A b : CopyAt(x, b)' = CopyAt(x, b)
      /\ \A b, k : Held(x, b, k)' = Held(x, b, k)
  BY SameCopies
<1>3. Opener(x)'
  <2>1. Opener(x) /\ rcv[y].batch \in Nat
    BY <1>1, BegunFacts DEF Course
  <2>2. Count(snd[x]) \in Nat
    BY CountFacts
  <2>3. rcv[y].batch = 0 \/ rcv[y].batch < Count(snd'[x])
    BY <2>1, <2>2 DEF Opener
  <2> QED  BY <1>2, <2>1, <2>3 DEF Opener
<1>4. Flow(x)'
  BY <1>2 DEF Flow
<1>5. Earned(x, snd[x])'
  BY <1>2 DEF Earned
<1>6. Vouched(x, Link(y))'
  <2>1. Vouched(x, Link(y))
    BY <1>1 DEF Course
  <2>2. Link(y) \in Seq(Wire(y))
    BY <1>1, LinkType
  <2>3. Link(y) # <<>> => Vouched(x, Tail(Link(y)))
    <3>1. SUFFICES ASSUME Link(y) # <<>>, NEW i \in 1..Len(Tail(Link(y))),
                          Tail(Link(y))[i].type = "A"
                   PROVE  Held(x, Tail(Link(y))[i].batch, Tail(Link(y))[i].block)
      BY DEF Vouched
    <3>2. Tail(Link(y))[i] = Link(y)[i + 1] /\ i + 1 \in 1..Len(Link(y))
      BY <2>2, <3>1, Rest
    <3> QED  BY <2>1, <3>1, <3>2 DEF Vouched
  <2>4. Vouched(x, Link(y)')
    BY <2>1, <2>3
  <2> QED  BY <1>2, <2>4 DEF Vouched, Held
<1>7. Settled(x, snd[x], reported[x])'
  BY <1>2 DEF Settled
<1> QED  BY <1>1, <1>3, <1>4, <1>5, <1>6, <1>7 DEF Course, y

\* ACKs are added that are vouched for as well.
LEMMA VouchedMore ==
  ASSUME NEW S, NEW w \in Seq(S), NEW v \in Seq(S), NEW p, Vouched(p, w), Vouched(p, v)
  PROVE  Vouched(p, w \o v)
<1>1. SUFFICES ASSUME NEW i \in 1..Len(w \o v), (w \o v)[i].type = "A"
               PROVE  Held(p, (w \o v)[i].batch, (w \o v)[i].block)
  BY DEF Vouched
<1>2. Len(w) \in Nat /\ Len(v) \in Nat /\ Len(w \o v) = Len(w) + Len(v)
  BY Joined
<1>3. CASE i <= Len(w)
  <2>1. i \in 1..Len(w)
    BY <1>2, <1>3
  <2>2. (w \o v)[i] = w[i]
    BY <2>1, Joined
  <2> QED  BY <1>1, <2>1, <2>2 DEF Vouched
<1>4. CASE ~(i <= Len(w))
  <2>1. i - Len(w) \in 1..Len(v) /\ Len(w) + (i - Len(w)) = i
    BY <1>2, <1>4
  <2>2. (w \o v)[i] = v[i - Len(w)]
    BY <2>1, Joined
  <2> QED  BY <1>1, <2>1, <2>2 DEF Vouched
<1> QED  BY <1>3, <1>4

\* The other half of a step of x that opens, writes and closes no file: what the peer
\* sends to it may lose a frame in front, no OPEN, and what x answers is vouched for.
LEMMA IncomingPass ==
  ASSUME Inv, Fresh, Delivery, NEW x \in Peers, NEW frames \in Seq(Wire(x)),
         Link(x)' = Link(x) \o frames, Vouched(Other(x), frames),
         \/ Link(Other(x))' = Link(Other(x))
         \/ /\ Link(Other(x)) # <<>> /\ Head(Link(Other(x))).type # "O"
            /\ Link(Other(x))' = Tail(Link(Other(x))),
         rcv'[x] = rcv[x], disk'[x] = disk[x], alive'[x] = alive[x],
         snd'[Other(x)] = snd[Other(x)], reported'[Other(x)] = reported[Other(x)]
  PROVE  Course(Other(x))'
<1> DEFINE y == Other(x)
<1>1. y \in Peers /\ Other(y) = x /\ Course(y)
  BY OtherPeer DEF Delivery
<1>2. /\ Begun(y)' = Begun(y)
      /\ \A b : CopyAt(y, b)' = CopyAt(y, b)
      /\ \A b, k : Held(y, b, k)' = Held(y, b, k)
  BY <1>1, SameCopies
<1>3. Opener(y)'
  BY <1>1, <1>2 DEF Course, Opener
<1>4. Flow(y)'
  <2>1. SUFFICES ASSUME alive[x]
                 PROVE  Tidy(Link(y)', Count(snd[y]), snd[y].cur # None, Begun(y),
                             rcv[x].batch, rcv[x].fd # None)
    BY <1>1, <1>2 DEF Flow
  <2>2. Tidy(Link(y), Count(snd[y]), snd[y].cur # None, Begun(y), rcv[x].batch, rcv[x].fd # None)
    BY <1>1, <2>1 DEF Course, Flow
  <2>3. Link(y) \in Seq(Frames)
    BY <1>1, LinkFrames
  <2>4. Link(y) # <<>> /\ Head(Link(y)).type # "O" =>
          Tidy(Tail(Link(y)), Count(snd[y]), snd[y].cur # None, Begun(y),
               rcv[x].batch, rcv[x].fd # None)
    BY <2>2, <2>3, TidyTail
  <2> QED  BY <2>2, <2>4
<1>5. Earned(y, snd[y])'
  BY <1>1, <1>2 DEF Course, Earned
<1>6. Vouched(y, Link(x))'
  <2>1. Vouched(y, Link(x)) /\ Link(x) \in Seq(Wire(x))
    BY <1>1, LinkType DEF Course
  <2>2. Vouched(y, Link(x) \o frames)
    BY <2>1, VouchedMore
  <2>3. Vouched(y, Link(x)')
    BY <2>2
  <2> QED  BY <1>1, <1>2, <2>3 DEF Vouched, Held
<1>7. Settled(y, snd[y], reported[y])'
  BY <1>1, <1>2 DEF Course, Settled
<1> QED  BY <1>1, <1>3, <1>4, <1>5, <1>6, <1>7 DEF Course, y

\* A step of x that writes to its copy of file b of the peer, and to no other.
LEMMA Written ==
  ASSUME Inv, Fresh, NEW x \in Peers, NEW b \in Batches(Other(x)), NEW c \in Seq(Unit),
         disk'[x] = [disk[x] EXCEPT ![Name[FileAt(Other(x), b)]] = c]
  PROVE  /\ CopyAt(Other(x), b)' = c
         /\ \A d \in Batches(Other(x)) : d # b => CopyAt(Other(x), d)' = CopyAt(Other(x), d)
         /\ Begun(Other(x))' = Begun(Other(x)) \cup {b}
<1> DEFINE y == Other(x)
<1>1. y \in Peers /\ Other(y) = x
  BY OtherPeer
<1>2. /\ disk[x] \in [Names -> Seq(Unit) \cup {Absent}] /\ c # Absent
      /\ \A d \in Batches(y) : Name[FileAt(y, d)] \in Names
      /\ \A d \in Batches(y) : d # b => Name[FileAt(y, d)] # Name[FileAt(y, b)]
  BY <1>1, FileFacts, FilesAssumption DEF Inv, RecvOK
<1>3. CopyAt(y, b)' = c
  BY <1>1, <1>2 DEF CopyAt, Copy
<1>4. ASSUME NEW d \in Batches(y), d # b PROVE CopyAt(y, d)' = CopyAt(y, d)
  BY <1>1, <1>2, <1>4 DEF CopyAt, Copy
<1>5. Begun(y)' = Begun(y) \cup {b}
  BY <1>2, <1>3, <1>4 DEF Begun
<1> QED  BY <1>3, <1>4, <1>5

\* Such a step keeps the course of the file transfer, if it leaves the first blocks of
\* a file that is the last one begun and not yet closed.
LEMMA IncomingWrite ==
  ASSUME Inv, Fresh, Delivery, NEW x \in Peers, NEW frames \in Seq(Wire(x)),
         NEW b \in Batches(Other(x)), NEW c \in Seq(Unit), NEW e \in Nat,
         disk'[x] = [disk[x] EXCEPT ![Name[FileAt(Other(x), b)]] = c],
         rcv'[x] = [fd |-> Name[FileAt(Other(x), b)], batch |-> b, expected |-> e],
         c = Front(Content[FileAt(Other(x), b)], e),
         b < Count(snd[Other(x)]), ~(b < snd[Other(x)].batch),
         \A d \in Begun(Other(x)) : d < b \/ (d = b /\ b = rcv[x].batch /\ rcv[x].expected <= e),
         Tidy(Link(Other(x))', Count(snd[Other(x)]), snd[Other(x)].cur # None,
              Begun(Other(x)) \cup {b}, b, TRUE),
         Link(x)' = Link(x) \o frames,
         \A i \in 1..Len(frames) :
           frames[i].type = "A" => frames[i].batch = b /\ frames[i].block < e,
         snd'[Other(x)] = snd[Other(x)], reported'[Other(x)] = reported[Other(x)]
  PROVE  Course(Other(x))'
<1> DEFINE y == Other(x)
<1>1. y \in Peers /\ Other(y) = x /\ Course(y)
  BY OtherPeer DEF Delivery
<1>2. /\ CopyAt(y, b)' = c
      /\ \A d \in Batches(y) : d # b => CopyAt(y, d)' = CopyAt(y, d)
      /\ Begun(y)' = Begun(y) \cup {b}
  <2>1. /\ CopyAt(Other(x), b)' = c
        /\ \A d \in Batches(Other(x)) : d # b => CopyAt(Other(x), d)' = CopyAt(Other(x), d)
        /\ Begun(Other(x))' = Begun(Other(x)) \cup {b}
    BY Written DEF CopyAt, Copy, Begun
  <2> QED  BY <2>1
<1>3. /\ b \in Nat /\ Begun(y) \subseteq Batches(y) /\ \A d \in Begun(y) : d \in Nat
      /\ rcv[x].batch \in Nat /\ rcv[x].expected \in Nat
  BY <1>1, BegunFacts, FileFacts DEF Course
<1>4. rcv'[x].fd = Name[FileAt(y, b)] /\ rcv'[x].batch = b /\ rcv'[x].expected = e
  OBVIOUS
<1>5. ASSUME NEW d, NEW k \in Nat, Held(y, d, k)
      PROVE  d \in Begun(y)' /\ (d = rcv'[x].batch => k < rcv'[x].expected)
  <2>1. d \in Begun(y) /\ (d = rcv[x].batch => k < rcv[x].expected)
    BY <1>1, <1>5 DEF Held
  <2>2. CASE d < b
    BY <1>2, <1>3, <1>4, <2>1, <2>2
  <2>3. CASE d = b /\ b = rcv[x].batch /\ rcv[x].expected <= e
    BY <1>2, <1>3, <1>4, <2>1, <2>3
  <2> QED  BY <2>1, <2>2, <2>3
<1>6. Opener(y)'
  <2>1. \A d \in Begun(y)' : d <= b
    BY <1>2, <1>3
  <2> QED  BY <1>1, <1>2, <1>4, <2>1 DEF Opener
<1>7. Flow(y)'
  <2>1. (rcv'[x].fd # None) = TRUE
    <3>1. Name[FileAt(y, b)] \in Names /\ None \notin Names
      BY <1>1, FileFacts, FilesAssumption
    <3> QED  BY <1>4, <3>1
  <2> QED  BY <1>1, <1>2, <1>4, <2>1 DEF Flow
<1>8. Earned(y, snd[y])'
  <2>1. SUFFICES ASSUME snd[y].cur # None, NEW k \in (0 .. snd[y].next - 1) \ snd[y].unacked
                 PROVE  snd[y].batch \in Begun(y)' /\ (snd[y].batch = rcv'[x].batch => k < rcv'[x].expected)
    BY <1>1 DEF Earned, Held
  <2>2. Held(y, snd[y].batch, k) /\ k \in Nat
    BY <1>1, <2>1 DEF Course, Earned
  <2> QED  BY <1>5, <2>2
<1>9. Vouched(y, Link(x))'
  <2> DEFINE w == Link(x)
  <2>1. Vouched(y, w) /\ w \in Seq(Wire(x))
    BY <1>1, LinkType DEF Course
  <2> HIDE DEF w
  <2>2. /\ Len(w) \in Nat /\ Len(frames) \in Nat /\ Len(w \o frames) = Len(w) + Len(frames)
        /\ \A i \in 1..Len(w) : (w \o frames)[i] = w[i] /\ w[i] \in Wire(x)
        /\ \A i \in 1..Len(frames) : (w \o frames)[Len(w) + i] = frames[i]
    BY <2>1, Joined, ElementOfSeq
  <2>3. ASSUME NEW i \in 1..Len(w \o frames), (w \o frames)[i].type = "A"
        PROVE  /\ (w \o frames)[i].batch \in Begun(y)'
               /\ (w \o frames)[i].batch = rcv'[x].batch =>
                    (w \o frames)[i].block < rcv'[x].expected
    <3>1. CASE i \in 1..Len(w)
      <4>1. (w \o frames)[i] = w[i] /\ w[i].type = "A" /\ w[i] \in Frames
        BY <2>2, <2>3, <3>1 DEF Wire
      <4>2. w[i].block \in Nat
        BY <4>1, FrameFields
      <4>3. Held(y, w[i].batch, w[i].block)
        BY <2>1, <3>1, <4>1 DEF Vouched
      <4> QED  BY <1>5, <4>1, <4>2, <4>3
    <3>2. CASE i \notin 1..Len(w)
      <4>1. i - Len(w) \in 1..Len(frames) /\ Len(w) + (i - Len(w)) = i
        BY <2>2, <3>2
      <4>2. (w \o frames)[i] = frames[i - Len(w)]
        BY <2>2, <4>1
      <4> QED  BY <1>2, <1>4, <2>3, <4>1, <4>2
    <3> QED  BY <3>1, <3>2
  <2>4. Link(x)' = w \o frames
    BY DEF w
  <2> QED  BY <1>1, <2>3, <2>4 DEF Vouched, Held
<1>10. Settled(y, snd[y], reported[y])'
  <2>1. Settled(y, snd[y], reported[y]) /\ snd[y].batch \in Nat
    BY <1>1, CountFacts DEF Course
  <2>2. ASSUME NEW d \in 0 .. snd[y].batch - 1
        PROVE  d \in Begun(y)' /\ CopyAt(y, d)' = Content[FileAt(y, d)]
    <3>1. d \in Begun(y) /\ CopyAt(y, d) = Content[FileAt(y, d)] /\ d # b
      BY <1>3, <2>1 DEF Settled
    <3> QED  BY <1>2, <1>3, <3>1
  <2> QED  BY <2>1, <2>2 DEF Settled
<1> QED  BY <1>1, <1>6, <1>7, <1>8, <1>9, <1>10 DEF Course, y

\* A step of x that closes its file: it has taken a CLOSE, or it ends.
LEMMA IncomingClose ==
  ASSUME Inv, Fresh, Delivery, NEW x \in Peers,
         rcv'[x] = [rcv[x] EXCEPT !.fd = None], disk'[x] = disk[x],
         Link(x)' = Link(x),
         \/ ~alive'[x]
         \/ /\ alive'[x] = alive[x] /\ Link(Other(x)) # <<>>
            /\ Head(Link(Other(x))).type = "C"
            /\ Link(Other(x))' = Tail(Link(Other(x))),
         snd'[Other(x)] = snd[Other(x)], reported'[Other(x)] = reported[Other(x)]
  PROVE  Course(Other(x))'
<1> DEFINE y == Other(x)
<1>1. y \in Peers /\ Other(y) = x /\ Course(y) /\ rcv[x] \in Receivers
  BY OtherPeer DEF Delivery, Inv, RecvOK
<1>2. /\ rcv'[x].fd = None /\ rcv'[x].batch = rcv[x].batch
      /\ rcv'[x].expected = rcv[x].expected
  BY <1>1 DEF Receivers
<1>3. /\ Begun(y)' = Begun(y)
      /\ \A b : CopyAt(y, b)' = CopyAt(y, b)
  BY <1>1 DEF Begun, CopyAt, Copy
<1>4. Opener(y)'
  BY <1>1, <1>2, <1>3 DEF Course, Opener
<1>5. Flow(y)'
  <2>1. SUFFICES ASSUME alive'[x]
                 PROVE  Tidy(Link(y)', Count(snd[y]), snd[y].cur # None, Begun(y),
                             rcv[x].batch, FALSE)
    <3>1. (rcv'[x].fd # None) = FALSE
      BY <1>2
    <3> QED  BY <1>1, <1>2, <1>3, <3>1 DEF Flow
  <2>2. /\ alive[x] /\ Link(y) # <<>> /\ Head(Link(y)).type = "C"
        /\ Link(y)' = Tail(Link(y))
    BY <2>1
  <2>3. Tidy(Link(y), Count(snd[y]), snd[y].cur # None, Begun(y), rcv[x].batch, rcv[x].fd # None)
    BY <1>1, <2>2 DEF Course, Flow
  <2>4. Link(y) \in Seq(Frames)
    BY <1>1, LinkFrames
  <2>5. Tidy(Tail(Link(y)), Count(snd[y]), snd[y].cur # None, Begun(y), rcv[x].batch, FALSE)
    BY <2>2, <2>3, <2>4, TidyClose
  <2> QED  BY <2>2, <2>5
<1>6. Earned(y, snd[y])'
  BY <1>1, <1>2, <1>3 DEF Course, Earned, Held
<1>7. Vouched(y, Link(x))'
  BY <1>1, <1>2, <1>3 DEF Course, Vouched, Held
<1>8. Settled(y, snd[y], reported[y])'
  BY <1>1, <1>3 DEF Course, Settled
<1> QED  BY <1>1, <1>4, <1>5, <1>6, <1>7, <1>8 DEF Course, y

-----------------------------------------------------------------------------
(***************************************************************************)
(* What a handler meets under Fresh.                                       *)
(***************************************************************************)
\* The frame at the head of the inbox is one the peer wrote, of a file of its queue.
LEMMA PacketFacts ==
  ASSUME Inv, Fresh, Delivery, NEW x \in Peers, inbox[x] # <<>>
  PROVE  LET y == Other(x)
             m == Packet(x) IN
         /\ y \in Peers /\ Other(y) = x /\ y # x
         /\ Link(y) # <<>> /\ Head(Link(y)) = m /\ m \in Frames /\ Genuine(y, m)
         /\ m.type \notin {"K", "V", "S"}
         /\ m.type = "O" => m.batch \in Batches(y) /\ m = Open(FileAt(y, m.batch), m.batch)
         /\ m.type = "D" => /\ m.batch \in Batches(y) /\ m.block \in Nat
                            /\ m.block * BlockSize < Len(Content[FileAt(y, m.batch)])
                            /\ m.data = Chunk(Content[FileAt(y, m.batch)], m.block)
<1> DEFINE y == Other(x)
           m == Packet(x)
<1>1. y \in Peers /\ Other(y) = x /\ y # x
  BY OtherPeer
<1>2. inbox[x] \in Seq(Wire(y)) /\ outbuf[y] \in Seq(Wire(y))
  BY <1>1 DEF Inv, InOK, OutOK
<1>3. Link(y) = inbox[x] \o outbuf[y]
  BY <1>1 DEF Link
<1>4. Link(y) # <<>> /\ Head(Link(y)) = Head(inbox[x]) /\ Link(y) \in Seq(Wire(y))
  BY <1>1, <1>2, <1>3, FirstOfTwo, LinkType
<1>5. Head(Link(y)) = m
  BY <1>4 DEF Packet
<1> HIDE DEF m, y
<1>6. 1 \in 1..Len(Link(y)) /\ m = Link(y)[1] /\ m \in Wire(y)
  BY <1>4, <1>5, Rest, HeadTailProperties
<1>7. m \in Frames /\ Genuine(y, m) /\ m.type \notin {"K", "V", "S"}
  BY <1>1, <1>6 DEF Wire, Delivery, Plain
<1>8. m.type \in {"O", "D"} => m.batch \in Batches(y)
  <2>1. Len(Queue[y]) \in Nat
    BY <1>1, FilesAssumption
  <2>2. m.type \in {"O", "D"} => m.batch \in Nat /\ m.batch < Len(Queue[y])
    BY <1>7, FrameFields DEF Genuine
  <2> QED  BY <2>1, <2>2 DEF Batches
<1>9. m.type = "O" => m = Open(FileAt(y, m.batch), m.batch)
  BY <1>7 DEF Genuine, FileAt
<1>10. ASSUME m.type = "D"
       PROVE  /\ m.block \in Nat /\ m.block * BlockSize < Len(Content[FileAt(y, m.batch)])
              /\ m.data = Chunk(Content[FileAt(y, m.batch)], m.block)
  <2>1. m.block \in Nat /\ m.block < Blocks(FileAt(y, m.batch))
    BY <1>7, <1>10, FrameFields DEF Genuine, FileAt
  <2>2. m.data = Chunk(Content[FileAt(y, m.batch)], m.block)
    BY <1>7, <1>10 DEF Genuine, FileAt, Data
  <2>3. FileAt(y, m.batch) \in Files
    BY <1>1, <1>8, <1>10, FileFacts
  <2> QED  BY <2>1, <2>2, <2>3, BlockCount
<1> QED  BY <1>1, <1>4, <1>5, <1>7, <1>8, <1>9, <1>10 DEF m, y

\* Every OPEN finds a file that is not there; the file is created, and is the last begun.
LEMMA OpenFacts ==
  ASSUME Inv, Fresh, Delivery, NEW x \in Peers, inbox[x] # <<>>, alive[x],
         Packet(x).type = "O"
  PROVE  LET y == Other(x)
             b == Packet(x).batch IN
         /\ b \notin Begun(y) /\ disk[x][Packet(x).name] = Absent
         /\ Packet(x).name \notin Unsafe /\ Packet(x).name = Name[FileAt(y, b)]
         /\ b < Count(snd[y]) /\ \A c \in Begun(y) : c < b
         /\ Tidy(Tail(Link(y)), Count(snd[y]), snd[y].cur # None, Begun(y) \cup {b}, b, TRUE)
<1> DEFINE y == Other(x)
           b == Packet(x).batch
<1>1. /\ y \in Peers /\ Other(y) = x /\ Link(y) # <<>> /\ Head(Link(y)) = Packet(x)
      /\ b \in Batches(y) /\ Packet(x) = Open(FileAt(y, b), b)
  BY PacketFacts
<1>2. Course(y) /\ Link(y) \in Seq(Frames) /\ Count(snd[y]) \in Nat
  BY <1>1, LinkFrames, CountFacts DEF Delivery
<1>3. /\ rcv[x].batch \in Nat /\ Begun(y) \in SUBSET Nat
      /\ rcv[x].fd # None => rcv[x].batch \in Begun(y)
  BY <1>1, <1>2, BegunFacts DEF Course
<1>4. Tidy(Link(y), Count(snd[y]), snd[y].cur # None, Begun(y), rcv[x].batch, rcv[x].fd # None)
  BY <1>1, <1>2 DEF Course, Flow
<1>5. /\ b \notin Begun(y) /\ b < Count(snd[y]) /\ \A c \in Begun(y) : c < b
      /\ Tidy(Tail(Link(y)), Count(snd[y]), snd[y].cur # None, Begun(y) \cup {b}, b, TRUE)
  <2> DEFINE w == Link(y)
             n == Count(snd[y])
             cur == snd[y].cur # None
             begun == Begun(y)
             rb == rcv[x].batch
             open == rcv[x].fd # None
  <2>1. /\ w \in Seq(Frames) /\ w # <<>> /\ Head(w).type = "O" /\ n \in Nat
        /\ begun \in SUBSET Nat /\ rb \in Nat /\ (open => rb \in begun)
        /\ Tidy(w, n, cur, begun, rb, open) /\ Head(w).batch = b
    BY <1>1, <1>2, <1>3, <1>4
  <2> HIDE DEF w, n, cur, begun, rb, open, b, y
  <2>2. /\ b \notin begun /\ b < n /\ (\A c \in begun : c < b)
        /\ Tidy(Tail(w), n, cur, begun \cup {b}, b, TRUE)
    BY <2>1, TidyOpen
  <2> QED  BY <2>2 DEF w, n, cur, begun, rb, open
<1>6. Packet(x).name = Name[FileAt(y, b)] /\ Packet(x).name \notin Unsafe
  BY <1>1, FileFacts DEF Open, Accepted
<1>7. disk[x][Packet(x).name] = Absent
  BY <1>1, <1>5, <1>6 DEF Begun, CopyAt, Copy
<1> QED  BY <1>5, <1>6, <1>7

\* Every block finds its file open.
LEMMA DataFacts ==
  ASSUME Inv, Fresh, Delivery, NEW x \in Peers, inbox[x] # <<>>, alive[x],
         Packet(x).type = "D"
  PROVE  LET y == Other(x) IN
         /\ Packet(x).batch = rcv[x].batch /\ rcv[x].fd = Name[FileAt(y, rcv[x].batch)]
         /\ rcv[x].batch \in Begun(y) /\ rcv[x].batch \in Batches(y) /\ rcv[x].expected \in Nat
         /\ rcv[x].fd # None
         /\ disk[x][rcv[x].fd] = Front(Content[FileAt(y, rcv[x].batch)], rcv[x].expected)
<1> DEFINE y == Other(x)
<1>1. /\ y \in Peers /\ Other(y) = x /\ Link(y) # <<>> /\ Head(Link(y)) = Packet(x)
  BY PacketFacts
<1>2. Course(y) /\ Link(y) \in Seq(Frames)
  BY <1>1, LinkFrames DEF Delivery
<1>3. 1 \in 1..Len(Link(y)) /\ Link(y)[1].type = "D" /\ Link(y)[1] = Packet(x)
  BY <1>1, <1>2, Rest
<1>4. rcv[x].fd # None /\ Packet(x).batch = rcv[x].batch
  BY <1>1, <1>2, <1>3 DEF Course, Flow, Tidy, Reaches
<1>5. /\ rcv[x].batch \in Begun(y) /\ Begun(y) \subseteq Batches(y) /\ rcv[x].expected \in Nat
  BY <1>1, <1>2, <1>4, BegunFacts DEF Course
<1>6. rcv[x].fd = Name[FileAt(y, rcv[x].batch)]
  BY <1>1, <1>2, <1>4 DEF Course, Opener
<1>7. disk[x][rcv[x].fd] = Front(Content[FileAt(y, rcv[x].batch)], rcv[x].expected)
  BY <1>1, <1>2, <1>5, <1>6 DEF Course, Opener, CopyAt, Copy
<1> QED  BY <1>4, <1>5, <1>6, <1>7

\* An answer concerns no file, or resends a block of the current one.
Answer(x, frames) ==
  \A i \in 1..Len(frames) :
    \/ frames[i].type \notin {"O", "D", "C"}
    \/ /\ snd[x].cur # None /\ frames[i].type = "D"
       /\ frames[i].batch = Count(snd[x]) - 1

\* Answering keeps the course of what x sends, if no acknowledgement is taken unearned.
LEMMA OutgoingReply ==
  ASSUME Inv, Fresh, Delivery, NEW x \in Peers, NEW frames \in Seq(Wire(x)),
         Handles(x, frames), Answer(x, frames),
         rcv'[Other(x)] = rcv[Other(x)], disk'[Other(x)] = disk[Other(x)],
         alive'[Other(x)] = alive[Other(x)], Earned(x, snd'[x])
  PROVE  Course(x)'
<1> DEFINE y == Other(x)
<1>1. y \in Peers /\ Other(y) = x /\ Course(x) /\ x \in Peers
  BY OtherPeer DEF Delivery
<1>2. /\ Link(x)' = Link(x) \o frames
      /\ Link(y) # <<>> /\ Link(y)' = Tail(Link(y))
  BY LinkHandled DEF Handles
<1>3. /\ snd'[x].batch = snd[x].batch /\ snd'[x].cur = snd[x].cur /\ reported' = reported
      /\ Count(snd'[x]) = Count(snd[x])
  BY DEF Handles, Count
<1>4. /\ Count(snd[x]) \in Nat /\ Link(x) \in Seq(Frames)
      /\ \A b \in Begun(x) : b \in Nat
  BY <1>1, CountFacts, LinkFrames, BegunFacts DEF Course
<1>5. frames \in Seq(Frames)
  <2>1. Wire(x) \subseteq Frames
    BY DEF Wire
  <2> QED  BY <2>1, SeqMonotonic
<1>6. ASSUME alive[y]
      PROVE  Tidy(Link(x) \o frames, Count(snd[x]), snd[x].cur # None, Begun(x),
                  rcv[y].batch, rcv[y].fd # None)
  <2> DEFINE w == Link(x)
             n == Count(snd[x])
             cur == snd[x].cur # None
             begun == Begun(x)
             rb == rcv[y].batch
             open == rcv[y].fd # None
  <2>1. Tidy(w, n, cur, begun, rb, open)
    BY <1>1, <1>6 DEF Course, Flow
  <2>2. \A i \in 1..Len(frames) : \/ frames[i].type \notin {"O", "D", "C"}
                                  \/ cur /\ frames[i].type = "D" /\ frames[i].batch = n - 1
    BY DEF Answer
  <2>3. w \in Seq(Frames) /\ n \in Nat /\ \A b \in begun : b \in Nat
    BY <1>4
  <2> HIDE DEF w, n, cur, begun, rb, open
  <2>4. Tidy(w \o frames, n, cur, begun, rb, open)
    BY <1>5, <2>1, <2>2, <2>3, TidyMore
  <2> QED  BY <2>4 DEF w, n, cur, begun, rb, open
<1>7. Settled(x, snd'[x], reported'[x])
  BY <1>1, <1>3 DEF Course, Settled
<1>8. Count(snd'[x]) \in Nat /\ Count(snd[x]) <= Count(snd'[x])
  BY <1>3, <1>4
<1>9. alive[y] => Tidy(Link(x) \o frames, Count(snd'[x]), snd'[x].cur # None, Begun(x),
                       rcv[y].batch, rcv[y].fd # None)
  BY <1>3, <1>6
<1> QED  BY <1>2, <1>7, <1>8, <1>9, OutgoingStep, Zenon

\* The other half of an answer that opens, writes and closes no file.
LEMMA IncomingReply ==
  ASSUME Inv, Fresh, Delivery, NEW x \in Peers, NEW frames \in Seq(Wire(x)),
         Handles(x, frames), Packet(x).type # "O", Vouched(Other(x), frames),
         rcv'[x] = rcv[x], disk'[x] = disk[x], alive'[x] = alive[x]
  PROVE  Course(Other(x))'
<1>1. /\ Link(x)' = Link(x) \o frames
      /\ Link(Other(x)) # <<>> /\ Link(Other(x))' = Tail(Link(Other(x)))
      /\ Head(Link(Other(x))) = Packet(x)
  BY LinkHandled DEF Handles
<1>2. snd'[Other(x)] = snd[Other(x)] /\ reported' = reported
  BY DEF Handles
<1> QED  BY <1>1, <1>2, IncomingPass

\* An answer is plain, and no file frame but a resent block.
LEMMA ReplyFacts ==
  ASSUME Inv, Fresh, Delivery, NEW x \in Peers, NEW frames, Handles(x, frames)
  PROVE  /\ Answer(x, frames)
         /\ \A i \in 1..Len(frames) : frames[i].type \notin {"K", "V", "S"}
<1>1. inbox[x] # <<>> /\ alive[x] /\ Replied(x, frames)
  BY DEF Handles
<1>2. ~(Packet(x).type = "V")
  BY <1>1, PacketFacts
<1>3. Packet(x).type = "O" => ~(Packet(x).name \in Unsafe \/ Existing(x) # Absent)
  BY <1>1, OpenFacts DEF Existing
<1>4. snd[x].cur # None => Count(snd[x]) - 1 = snd[x].batch
  BY CountFacts
<1>5. ASSUME NEW i \in 1..Len(frames)
      PROVE  /\ frames[i].type \notin {"K", "V", "S"}
             /\ \/ frames[i].type \notin {"O", "D", "C"}
                \/ /\ snd[x].cur # None /\ frames[i].type = "D"
                   /\ frames[i].batch = Count(snd[x]) - 1
  <2>1. Replies(x, frames[i])
    BY <1>1 DEF Replied
  <2> QED  BY <1>2, <1>3, <1>4, <2>1 DEF Replies
<1> QED  BY <1>5 DEF Answer

\* No OPEN is ignored: a receiver in INIT meets RQ, and one in DONE has begun all.
LEMMA OpenHeeded ==
  ASSUME Inv, Ends, Fresh, Delivery, NEW x \in Peers, Ignore(x)
  PROVE  Packet(x).type # "O"
<1> SUFFICES ASSUME Packet(x).type = "O" PROVE FALSE
  OBVIOUS
<1> DEFINE y == Other(x)
           b == Packet(x).batch
<1>1. inbox[x] # <<>> /\ alive[x] /\ state[x] # "TRANSFERRING"
  BY DEF Ignore, Ineffective
<1>2. /\ y \in Peers /\ Other(y) = x /\ Link(y) # <<>> /\ Head(Link(y)) = Packet(x)
      /\ b \in Batches(y)
  BY <1>1, PacketFacts
<1>3. state[x] # "INIT"
  BY <1>2 DEF Delivery, Greeted, RQ
<1>4. state[x] = "DONE"
  BY <1>1, <1>3 DEF Inv, StateOK
<1>5. Spent(snd[y])
  BY <1>4 DEF Ends
<1>6. snd[y].batch = Len(Queue[y])
  <2>1. snd[y] \in Senders /\ Books(y, snd[y])
    BY <1>2 DEF Inv, SndOK, SenderAccounts
  <2>2. Len(snd[y].queue) = 0 /\ snd[y].batch \in Nat
    BY <1>5, <2>1 DEF Spent, Senders
  <2> QED  BY <1>5, <2>1, <2>2 DEF Books, Spent
<1>7. b \in Begun(y)
  <2>1. b \in 0 .. snd[y].batch - 1
    BY <1>2, <1>6 DEF Batches
  <2> QED  BY <1>2, <2>1 DEF Delivery, Course, Settled
<1>8. b \notin Begun(y)
  BY <1>1, OpenFacts
<1> QED  BY <1>7, <1>8

\* The window only forgets what the receiver holds.
LEMMA AckEarned ==
  ASSUME Inv, Fresh, Delivery, NEW x \in Peers, HandleAck(x)
  PROVE  Earned(x, snd'[x])
<1> DEFINE y == Other(x)
           m == Packet(x)
           s == snd[x]
<1>1. inbox[x] # <<>> /\ m.type = "A" /\ m.batch = s.batch
  BY DEF HandleAck, Transferring, Arrives, Packet
<1>2. /\ y \in Peers /\ Other(y) = x /\ Link(y) # <<>> /\ Head(Link(y)) = m /\ m \in Frames
  BY <1>1, PacketFacts
<1>3. m.block \in Nat
  BY <1>1, <1>2, FrameFields
<1>4. Course(x) /\ Link(y) \in Seq(Frames)
  BY <1>2, LinkFrames DEF Delivery
<1>5. Held(x, s.batch, m.block)
  <2>1. 1 \in 1..Len(Link(y)) /\ Link(y)[1] = m
    BY <1>2, <1>4, Rest
  <2> QED  BY <1>1, <1>4, <2>1 DEF Course, Vouched
<1>6. /\ s \in Senders /\ s.unacked \in SUBSET Nat /\ s.next \in Nat
  BY CountFacts DEF Inv, SndOK
<1> DEFINE u == {k \in s.unacked : k > m.block}
<1>7. snd'[x] = [s EXCEPT !.unacked = u]
  BY DEF HandleAck, Inv, SndOK
<1>8. /\ snd'[x].cur = s.cur /\ snd'[x].next = s.next /\ snd'[x].batch = s.batch
      /\ snd'[x].unacked = u
  BY <1>6, <1>7 DEF Senders
<1>9. ASSUME s.cur # None, NEW k \in (0 .. s.next - 1) \ u
      PROVE  Held(x, s.batch, k)
  <2>1. CASE k \notin s.unacked
    BY <1>4, <1>9, <2>1 DEF Course, Earned
  <2>2. CASE k \in s.unacked
    <3>1. k \in Nat /\ k <= m.block
      BY <1>3, <1>6, <2>2
    <3>2. rcv[Other(x)].expected \in Nat
      BY <1>4, BegunFacts DEF Course
    <3> QED  BY <1>3, <1>5, <3>1, <3>2 DEF Held
  <2> QED  BY <2>1, <2>2
<1> HIDE DEF s, u
<1> QED  BY <1>8, <1>9 DEF Earned

\* OPEN: the copy of the next file begins, empty.
LEMMA OpenCourse ==
  ASSUME Inv, Fresh, Delivery, NEW x \in Peers, OpenFresh(x)
  PROVE  Course(Other(x))'
<1> DEFINE y == Other(x)
           m == Packet(x)
           b == m.batch
<1>1. inbox[x] # <<>> /\ alive[x] /\ m.type = "O"
  BY DEF OpenFresh, Transferring, Arrives, Packet
<1>2. /\ y \in Peers /\ Other(y) = x /\ Link(y) # <<>> /\ Head(Link(y)) = m
      /\ b \in Batches(y)
  BY <1>1, PacketFacts
<1>3. /\ b \notin Begun(y) /\ m.name = Name[FileAt(y, b)]
      /\ b < Count(snd[y]) /\ \A d \in Begun(y) : d < b
      /\ Tidy(Tail(Link(y)), Count(snd[y]), snd[y].cur # None, Begun(y) \cup {b}, b, TRUE)
  BY <1>1, OpenFacts
<1>4. /\ Link(x)' = Link(x) /\ Link(y)' = Tail(Link(y))
  BY <1>1, LinkTake DEF OpenFresh, Transferring
<1>5. <<>> \in Seq(Unit) /\ 0 \in Nat /\ <<>> \in Seq(Wire(x))
  BY EmptySeq
<1>6. disk'[x] = [disk[x] EXCEPT ![Name[FileAt(y, b)]] = <<>>]
  BY <1>3 DEF OpenFresh, Inv, RecvOK
<1>7. rcv'[x] = [fd |-> Name[FileAt(y, b)], batch |-> b, expected |-> 0]
  BY <1>3 DEF OpenFresh, Inv, RecvOK
<1>8. <<>> = Front(Content[FileAt(y, b)], 0)
  <2> DEFINE c == Content[FileAt(y, b)]
  <2>1. c \in Seq(Unit)
    BY <1>2, FileFacts
  <2> HIDE DEF c
  <2>2. Len(c) \in Nat /\ 0 * BlockSize = 0
    BY <2>1, BlocksAssumption
  <2>3. Front(c, 0) \in Seq(Unit) /\ Len(Front(c, 0)) = 0
    BY <1>5, <2>1, <2>2, FrontType DEF Minimum
  <2>4. Front(c, 0) = <<>>
    BY <2>3, EmptySeq
  <2> QED  BY <2>4 DEF c
<1>9. ~(b < snd[y].batch)
  <2>1. \A d \in 0 .. snd[y].batch - 1 : d \in Begun(y)
    BY <1>2 DEF Delivery, Course, Settled
  <2>2. snd[y].batch \in Nat /\ b \in Nat
    BY <1>2, CountFacts, FileFacts
  <2> QED  BY <1>3, <2>1, <2>2
<1>10. Link(x)' = Link(x) \o <<>>
  <2>1. Link(x) \in Seq(Wire(x))
    BY LinkType
  <2>2. Link(x) \o <<>> = Link(x)
    BY <2>1, ConcatEmptySeq
  <2> QED  BY <1>4, <2>2
<1>11. snd'[y] = snd[y] /\ reported'[y] = reported[y]
  BY DEF OpenFresh
<1>12. \A i \in 1..Len(<<>>) : <<>>[i].type = "A" => <<>>[i].batch = b /\ <<>>[i].block < 0
  BY EmptySeq
<1>13. Tidy(Link(y)', Count(snd[y]), snd[y].cur # None, Begun(y) \cup {b}, b, TRUE)
  BY <1>3, <1>4
<1>14. \A d \in Begun(y) : d < b \/ (d = b /\ b = rcv[x].batch /\ rcv[x].expected <= 0)
  BY <1>3
<1> HIDE DEF b, m
<1> QED  BY <1>2, <1>3, <1>5, <1>6, <1>7, <1>8, <1>9, <1>10, <1>11, <1>12, <1>13, <1>14,
            IncomingWrite, Zenon DEF y

\* DATA: the copy of the file that is open grows by its next block.
LEMMA DataCourse ==
  ASSUME Inv, Fresh, Delivery, NEW x \in Peers, DataExpected(x)
  PROVE  Course(Other(x))' /\ Packet(x).batch \in Batches(Other(x))
<1> DEFINE y == Other(x)
           m == Packet(x)
           b == m.batch
           e == rcv[x].expected
           c == Content[FileAt(y, b)]
           frames == <<Ack(b, m.block)>>
<1>1. inbox[x] # <<>> /\ alive[x] /\ m.type = "D" /\ m.block = e
  BY DEF DataExpected, Transferring, Arrives, Packet
<1>2. /\ y \in Peers /\ Other(y) = x /\ Link(y) # <<>> /\ Head(Link(y)) = m
      /\ b \in Batches(y) /\ m.block \in Nat
      /\ e * BlockSize < Len(c) /\ m.data = Chunk(c, e)
  BY <1>1, PacketFacts
<1>3. /\ b = rcv[x].batch /\ rcv[x].fd = Name[FileAt(y, b)] /\ rcv[x].fd # None
      /\ b \in Begun(y) /\ e \in Nat
      /\ disk[x][rcv[x].fd] = Front(c, e)
  BY <1>1, DataFacts
<1>4. c \in Seq(Unit) /\ b \in Nat /\ Name[FileAt(y, b)] \in Names
  BY <1>2, FileFacts
<1>5. frames \in Seq(Wire(x)) /\ \A i \in 1..Len(frames) :
        frames[i].type = "A" => frames[i].batch = b /\ frames[i].block < e + 1
  <2>1. Ack(b, m.block) \in Wire(x) /\ Ack(b, m.block).batch = b /\ Ack(b, m.block).block = e
    BY <1>1, <1>2, <1>4, ControlFrames DEF Ack
  <2> QED  BY <1>3, <2>1
<1>6. Send(x, frames)
  BY DEF DataExpected
<1> HIDE DEF frames
<1>7. Link(x)' = Link(x) \o frames /\ Link(y)' = Tail(Link(y))
  BY <1>1, <1>5, <1>6, LinkReply DEF DataExpected, Transferring
<1>8. Front(c, e) \o Chunk(c, e) = Front(c, e + 1) /\ e + 1 \in Nat
      /\ Front(c, e + 1) \in Seq(Unit)
  <2>1. c \in Seq(Unit) /\ e \in Nat /\ e * BlockSize < Len(c)
    BY <1>2, <1>3, <1>4
  <2> HIDE DEF c, e
  <2>2. e + 1 \in Nat
    BY <2>1
  <2>3. Front(c, e) \o Chunk(c, e) = Front(c, e + 1)
    BY <2>1, FrontNext, Zenon
  <2>4. Front(c, e + 1) \in Seq(Unit)
    BY <2>1, <2>2, FrontType, Zenon
  <2> QED  BY <2>2, <2>3, <2>4
<1>9. disk'[x] = [disk[x] EXCEPT ![Name[FileAt(y, b)]] = Front(c, e + 1)]
  <2>1. disk' = [disk EXCEPT ![x][rcv[x].fd] = disk[x][rcv[x].fd] \o m.data]
    BY <1>3 DEF DataExpected
  <2> HIDE DEF b, c, e, m
  <2> QED  BY <1>2, <1>3, <1>8, <2>1 DEF Inv, RecvOK
<1>10. rcv'[x] = [fd |-> Name[FileAt(y, b)], batch |-> b, expected |-> e + 1]
  <2>1. rcv[x] \in Receivers /\ rcv'[x] = [rcv[x] EXCEPT !.expected = e + 1]
    BY DEF DataExpected, Inv, RecvOK
  <2> HIDE DEF b, c, e, m
  <2> QED  BY <1>3, <2>1 DEF Receivers
<1>11. Course(y) /\ Count(snd[y]) \in Nat /\ snd[y].batch \in Nat
  BY <1>2, CountFacts DEF Delivery
<1>12. Tidy(Link(y), Count(snd[y]), snd[y].cur # None, Begun(y), b, TRUE)
  <2>1. (rcv[x].fd # None) = TRUE
    BY <1>3
  <2> QED  BY <1>1, <1>2, <1>3, <1>11, <2>1 DEF Course, Flow
<1>13. Tidy(Link(y)', Count(snd[y]), snd[y].cur # None, Begun(y) \cup {b}, b, TRUE)
  <2>1. Link(y) \in Seq(Frames) /\ Head(Link(y)).type # "O"
    BY <1>1, <1>2, LinkFrames
  <2>2. Begun(y) \cup {b} = Begun(y)
    BY <1>3
  <2>3. Tidy(Tail(Link(y)), Count(snd[y]), snd[y].cur # None, Begun(y), b, TRUE)
    BY <1>2, <1>12, <2>1, TidyTail
  <2> QED  BY <1>7, <2>2, <2>3
<1>14. b < Count(snd[y])
  BY <1>3, <1>12 DEF Tidy, Ahead
<1>15. ~(b < snd[y].batch)
  <2>1. SUFFICES ASSUME b < snd[y].batch PROVE FALSE
    OBVIOUS
  <2>2. CopyAt(y, b) = c
    <3>1. b \in 0 .. snd[y].batch - 1
      BY <1>4, <1>11, <2>1
    <3> QED  BY <1>11, <3>1 DEF Course, Settled
  <2>3. CopyAt(y, b) = Front(c, e)
    BY <1>2, <1>3 DEF CopyAt, Copy
  <2> QED  BY <1>2, <1>3, <1>4, <2>2, <2>3, FrontWhole
<1>16. \A d \in Begun(y) :
         d < b \/ (d = b /\ b = rcv[x].batch /\ rcv[x].expected <= e + 1)
  <2>1. \A d \in Begun(y) : d <= b /\ d \in Nat
    BY <1>2, <1>3, <1>11, BegunFacts DEF Course, Opener
  <2> QED  BY <1>3, <1>4, <2>1
<1>17. snd'[y] = snd[y] /\ reported'[y] = reported[y]
  BY DEF DataExpected
<1> DEFINE f == e + 1
           d == Front(c, f)
<1>18. f \in Nat /\ d \in Seq(Unit) /\ d = Front(Content[FileAt(y, b)], f)
  BY <1>8
<1>19. Course(y)'
  <2> HIDE DEF b, m, e, f, d, c
  <2> QED  BY <1>2, <1>5, <1>7, <1>9, <1>10, <1>13, <1>14, <1>15, <1>16, <1>17, <1>18,
              IncomingWrite, Zenon DEF y, f, d
<1> QED  BY <1>2, <1>19

\* An ACK for a block that was not the expected one speaks of an earlier block.
LEMMA ReplyVouched ==
  ASSUME Inv, Fresh, Delivery, NEW x \in Peers, NEW frames, Handles(x, frames),
         Packet(x).type = "D" => Packet(x).block # rcv[x].expected
  PROVE  Vouched(Other(x), frames)
<1> DEFINE y == Other(x)
<1>1. inbox[x] # <<>> /\ alive[x] /\ Replied(x, frames)
  BY DEF Handles
<1>2. Other(y) = x
  BY OtherPeer
<1>3. SUFFICES ASSUME NEW i \in 1..Len(frames), frames[i].type = "A"
               PROVE  Held(y, frames[i].batch, frames[i].block)
  BY DEF Vouched
<1>4. /\ Packet(x).type = "D" /\ frames[i].batch = rcv[x].batch
      /\ frames[i].block = Packet(x).block /\ Packet(x).block <= rcv[x].expected
  BY <1>1, <1>3 DEF Replied, Replies
<1>5. rcv[x].batch \in Begun(y) /\ rcv[x].expected \in Nat
  BY <1>1, <1>4, DataFacts
<1>6. Packet(x).block \in Nat
  BY <1>1, <1>4, PacketFacts
<1>7. Packet(x).block < rcv[x].expected
  BY <1>4, <1>5, <1>6
<1> QED  BY <1>2, <1>4, <1>5, <1>7 DEF Held

\* Handling a packet, seen from the files that its reader sends.
LEMMA ReceiveOutgoing ==
  ASSUME Inv, Ends, Fresh, Delivery, NEW x \in Peers, Receive(x) PROVE Course(x)'
<1> DEFINE y == Other(x)
<1>1. y \in Peers /\ y # x
  BY OtherPeer
<1>2. PICK frames \in Seq(Wire(x)) : Handles(x, frames)
  BY ReceiveHandles
<1>3. inbox[x] # <<>> /\ Packet(x).type \notin {"K", "V", "S"}
  BY <1>2, PacketFacts DEF Handles
<1>4. ~HandleSkip(x) /\ ~HandleVerify(x) /\ ~HandleSeek(x)
  BY <1>3 DEF HandleSkip, HandleVerify, HandleSeek, Transferring, Arrives, Packet
<1>5. Earned(x, snd'[x])
  <2>1. CASE HandleAck(x)
    BY <2>1, AckEarned
  <2>2. CASE ~HandleAck(x)
    <3>1. snd' = snd
      BY <1>4, <2>2 DEF Receive, Handshake, HandleNak, HandleOpen, OpenUnsafe, OpenSkip,
         OpenResume, OpenFresh, DataExpected, DataUnexpected, HandleClose, HandleDone, Ignore
    <3> QED  BY <3>1 DEF Delivery, Course
  <2> QED  BY <2>1, <2>2
<1>6. rcv'[y] = rcv[y] /\ disk'[y] = disk[y] /\ alive'[y] = alive[y]
  BY <1>1, <1>4 DEF Receive, Handshake, HandleAck, HandleNak, HandleOpen, OpenUnsafe, OpenSkip,
     OpenResume, OpenFresh, DataExpected, DataUnexpected, HandleClose, HandleDone, Ignore,
     Inv, RecvOK
<1>7. Answer(x, frames)
  BY <1>2, ReplyFacts
<1> HIDE DEF y
<1> QED  BY <1>2, <1>5, <1>6, <1>7, OutgoingReply, Zenon DEF y

\* Handling a packet, seen from the files that the peer sends.
LEMMA ReceiveIncoming ==
  ASSUME Inv, Ends, Fresh, Delivery, NEW x \in Peers, Receive(x) PROVE Course(Other(x))'
<1> DEFINE y == Other(x)
<1>1. y \in Peers /\ y # x
  BY OtherPeer
<1>2. PICK frames \in Seq(Wire(x)) : Handles(x, frames)
  BY ReceiveHandles
<1>3. inbox[x] # <<>> /\ alive[x] /\ Packet(x).type \notin {"K", "V", "S"}
  BY <1>2, PacketFacts DEF Handles
<1>4. ~HandleSkip(x) /\ ~HandleVerify(x) /\ ~HandleSeek(x)
  BY <1>3 DEF HandleSkip, HandleVerify, HandleSeek, Transferring, Arrives, Packet
<1>5. CASE HandleOpen(x)
  <2>1. Packet(x).type = "O"
    BY <1>5 DEF HandleOpen, OpenUnsafe, OpenSkip, OpenResume, OpenFresh, Transferring, Arrives, Packet
  <2>2. Packet(x).name \notin Unsafe /\ Existing(x) = Absent
    BY <1>3, <2>1, OpenFacts DEF Existing
  <2>3. OpenFresh(x)
    BY <1>5, <2>2 DEF HandleOpen, OpenUnsafe, OpenSkip, OpenResume, SameSize, Resumable
  <2> QED  BY <2>3, OpenCourse
<1>6. CASE DataExpected(x)
  BY <1>6, DataCourse
<1>7. CASE HandleClose(x)
  <2>1. /\ rcv'[x] = [rcv[x] EXCEPT !.fd = None] /\ disk' = disk /\ alive' = alive
        /\ Packet(x).type = "C" /\ snd' = snd /\ reported' = reported
        /\ Taken(x) /\ UNCHANGED outbuf
    BY <1>7 DEF HandleClose, Transferring, Arrives, Packet, Inv, RecvOK
  <2>2. /\ Link(x)' = Link(x) /\ Link(y) # <<>> /\ Head(Link(y)) = Packet(x)
        /\ Link(y)' = Tail(Link(y))
    BY <1>3, <2>1, LinkTake
  <2>3. /\ disk'[x] = disk[x] /\ alive'[x] = alive[x] /\ snd'[y] = snd[y]
        /\ reported'[y] = reported[y] /\ Head(Link(y)).type = "C"
    BY <2>1, <2>2
  <2> HIDE DEF y
  <2> QED  BY <2>1, <2>2, <2>3, IncomingClose, Zenon DEF y
<1>8. CASE ~HandleOpen(x) /\ ~DataExpected(x) /\ ~HandleClose(x)
  <2>1. rcv'[x] = rcv[x] /\ disk'[x] = disk[x] /\ alive'[x] = alive[x]
    BY <1>4, <1>8 DEF Receive, Handshake, HandleAck, HandleNak, DataUnexpected, HandleDone, Ignore
  <2>2. Packet(x).type # "O"
    <3>1. CASE Ignore(x)
      BY <3>1, OpenHeeded
    <3>2. CASE ~Ignore(x)
      BY <1>4, <1>8, <3>2 DEF Receive, Handshake, HandleAck, HandleNak, DataUnexpected, HandleDone,
         Transferring, Arrives, Packet
    <3> QED  BY <3>1, <3>2
  <2>3. CASE Ignore(x)
    <3>1. UNCHANGED outbuf /\ <<>> \in Seq(Wire(x)) /\ Link(x) \in Seq(Wire(x))
      BY <2>3, LinkType DEF Ignore
    <3>2. Handles(x, <<>>)
      BY <1>3, <2>3, Unsigned, RepliedBy DEF Ignore, Handles
    <3>3. Vouched(y, <<>>)
      BY DEF Vouched
    <3> QED  BY <2>1, <2>2, <3>1, <3>2, <3>3, IncomingReply
  <2>4. CASE ~Ignore(x)
    <3>1. Packet(x).type = "D" => Packet(x).block # rcv[x].expected
      BY <1>4, <1>8, <2>4 DEF Receive, Handshake, HandleAck, HandleNak, DataUnexpected, HandleDone,
         Transferring, Arrives, Packet
    <3>2. Vouched(Other(x), frames)
      BY <1>2, <3>1, ReplyVouched
    <3> QED  BY <1>2, <2>1, <2>2, <3>2, IncomingReply, Zenon
  <2> QED  BY <2>3, <2>4
<1> QED  BY <1>5, <1>6, <1>7, <1>8

-----------------------------------------------------------------------------
(***************************************************************************)
(* The sender's own actions under Fresh.                                   *)
(***************************************************************************)
\* Blocks that have just been sent are not acknowledged: nothing more is earned.
LEMMA FilledEarned ==
  ASSUME NEW p \in Peers, NEW s \in Senders, Books(p, s), Earned(p, s)
  PROVE  Earned(p, Filled(s))
<1> DEFINE n == Minimum(s.total - s.next, WindowSize - Cardinality(s.unacked))
<1>1. CASE n <= 0
  <2>1. Filled(s) = s
    BY <1>1 DEF Filled
  <2> QED  BY <2>1
<1>2. CASE ~(n <= 0)
  <2>0. n \in Int
    <3>1. Cardinality(s.unacked) \in Nat
      BY FS_CardinalityType DEF Books
    <3>2. WindowSize - Cardinality(s.unacked) \in Int /\ s.total - s.next \in Int
      BY <3>1, BoundsAssumption DEF Senders
    <3> QED  BY <3>2 DEF Minimum
  <2> HIDE DEF n
  <2>1. Filled(s) = [s EXCEPT !.next = s.next + n, !.unacked = s.unacked \cup (s.next .. s.next + n - 1)]
    BY <1>2 DEF Filled, n
  <2>2. /\ Filled(s).next = s.next + n /\ Filled(s).cur = s.cur /\ Filled(s).batch = s.batch
        /\ Filled(s).unacked = s.unacked \cup (s.next .. s.next + n - 1) /\ s.next \in Nat
    BY <2>1 DEF Senders
  <2>3. \A k \in (0 .. s.next + n - 1) \ (s.unacked \cup (s.next .. s.next + n - 1)) :
          k \in (0 .. s.next - 1) \ s.unacked
    BY <2>2
  <2>4. SUFFICES ASSUME s.cur # None, NEW k \in (0 .. Filled(s).next - 1) \ Filled(s).unacked
                 PROVE  Held(p, s.batch, k)
    BY <2>2, Zenon DEF Earned
  <2>5. k \in (0 .. s.next - 1) \ s.unacked
    <3>1. k \in 0 .. Filled(s).next - 1 /\ k \notin Filled(s).unacked
      BY Zenon
    <3>2. k \in (0 .. s.next + n - 1) \ (s.unacked \cup (s.next .. s.next + n - 1))
      BY <2>0, <2>2, <3>1
    <3> QED  BY <2>3, <3>2
  <2> QED  BY <2>4, <2>5, Zenon DEF Earned
<1> QED  BY <1>1, <1>2

\* A file just opened has sent nothing.
LEMMA OpenedEarned ==
  ASSUME NEW p \in Peers, NEW s \in Senders, Earned(p, s) PROVE Earned(p, Opened(s))
<1>1. CASE s.cur # None
  BY <1>1 DEF Opened
<1>2. CASE s.cur = None
  <2>1. Opened(s).next = 0
    BY <1>2 DEF Opened, Senders
  <2>2. 0 .. 0 - 1 = {}
    OBVIOUS
  <2> QED  BY <2>1, <2>2 DEF Earned
<1> QED  BY <1>1, <1>2

\* A file of which nothing is left to send or acknowledge has arrived.
LEMMA FinishedArrived ==
  ASSUME Inv, Fresh, NEW x \in Peers, Course(x),
         NEW f \in Senders, Books(x, f), Earned(x, f), Finished(f), f.cur # None,
         f.batch = snd[x].batch, f.batch \in Batches(x)
  PROVE  f.batch \in Begun(x) /\ CopyAt(x, f.batch) = Content[FileAt(x, f.batch)]
<1> DEFINE b == f.batch
           c == Content[FileAt(x, b)]
           r == rcv[Other(x)]
           t == Blocks(FileAt(x, b))
<1>1. /\ FileAt(x, b) \in Files /\ c \in Seq(Unit) /\ c # <<>> /\ b \in Nat
  BY FileFacts
<1>2. t \in Nat /\ f.total = t /\ f.next \in Nat /\ f.next >= t /\ f.unacked = {}
  BY <1>1, BlocksType DEF Books, FileAt, Finished, Senders
<1>3. r.batch \in Nat /\ r.expected \in Nat
  BY BegunFacts DEF Course
<1>4. 0 < t
  <2> DEFINE z == 0
  <2>1. z \in Nat /\ z * BlockSize = 0 /\ 0 < Len(c)
    BY <1>1, BlocksAssumption, EmptySeq
  <2> HIDE DEF z, t, c
  <2>2. z < t <=> z * BlockSize < Len(c)
    BY <1>1, <2>1, BlockCount DEF t, c
  <2> QED  BY <2>1, <2>2 DEF z
<1>5. Held(x, b, t - 1)
  <2>1. t - 1 \in (0 .. f.next - 1) \ f.unacked
    BY <1>2, <1>4
  <2> QED  BY <2>1 DEF Earned
<1>6. b \in Begun(x) /\ b <= r.batch
  BY <1>5 DEF Held, Course, Opener
<1>7. r.batch = b
  <2>1. r.batch = 0 \/ r.batch < Count(snd[x])
    BY DEF Course, Opener
  <2>2. Count(snd[x]) = b \/ Count(snd[x]) = b + 1
    BY CountFacts
  <2> QED  BY <1>1, <1>3, <1>6, <2>1, <2>2
<1>8. ~(r.expected < t)
  BY <1>2, <1>3, <1>5, <1>7 DEF Held
<1>9. CopyAt(x, b) = Front(c, r.expected)
  BY <1>6, <1>7 DEF Course, Opener
<1>10. ~(r.expected * BlockSize < Len(c))
  BY <1>1, <1>3, <1>8, BlockCount
<1>11. Front(c, r.expected) = c
  <2> HIDE DEF c, r
  <2> QED  BY <1>1, <1>3, <1>10, FrontWhole
<1> QED  BY <1>6, <1>9, <1>11

\* A pump, seen from the files that its peer sends.
LEMMA PumpOutgoing ==
  ASSUME Inv, Fresh, Delivery, NEW x \in Peers, NEW resend \in BOOLEAN,
         resend => snd[x].unacked # {}, PumpWith(x, resend)
  PROVE  Course(x)'
<1> DEFINE y == Other(x)
           s == snd[x]
           o == Opened(s)
           f == Filled(o)
           b == s.batch
           begun == Begun(x)
           rb == rcv[y].batch
           held == rcv[y].fd # None
           frames == PumpFrames(s, resend)
<1>1. s \in Senders /\ Books(x, s) /\ (s.cur # None \/ s.queue # <<>>)
  BY DEF PumpWith, Inv, SndOK, SenderAccounts
<1>2. /\ o \in Senders /\ Books(x, o) /\ o.cur # None /\ o.batch = b
  BY <1>1, OpenedOK
<1>3. /\ f \in Senders /\ Books(x, f) /\ f.cur = o.cur /\ f.batch = b
  BY <1>2, FilledOK
<1>4. frames \in Seq(Wire(x))
  BY <1>1, PumpFramesOK
<1>5. Link(x)' = Link(x) \o frames /\ Link(y)' = Link(y)
  BY <1>4, LinkSend DEF PumpWith
<1>6. /\ snd'[x] = Closed(f)
      /\ reported'[x] = (IF Finished(f) THEN reported[x] \cup {f.cur} ELSE reported[x])
      /\ rcv'[y] = rcv[y] /\ disk'[y] = disk[y] /\ alive'[y] = alive[y]
  BY DEF PumpWith, Inv, SndOK, StateOK
<1>7. y \in Peers /\ Other(y) = x /\ Course(x)
  BY OtherPeer DEF Delivery
<1>8. /\ b \in Nat /\ Count(s) \in Nat
      /\ s.cur # None => Count(s) = b + 1
      /\ s.cur = None => Count(s) = b
  BY CountFacts
<1>9. b \in Batches(x) /\ o.cur = FileAt(x, b) /\ Open(o.cur, b) \in Frames
  <2>1. b + 1 + Len(o.queue) = Len(Queue[x]) /\ Len(o.queue) \in Nat /\ Len(Queue[x]) \in Nat
    BY <1>2, <1>7, FilesAssumption DEF Books, Senders
  <2>2. b \in Batches(x) /\ b < Len(Queue[x])
    BY <1>8, <2>1 DEF Batches
  <2>3. o.cur = Queue[x][b + 1]
    BY <1>2 DEF Books
  <2>4. Open(Queue[x][b + 1], b) \in Wire(x)
    BY <1>8, <2>2, FileFrames
  <2> QED  BY <2>2, <2>3, <2>4 DEF FileAt, Wire
<1> HIDE DEF f, o
<1>10. Earned(x, f)
  <2>1. Earned(x, s)
    BY <1>7 DEF Course
  <2>2. Earned(x, o)
    BY <1>1, <2>1, OpenedEarned DEF o
  <2> QED  BY <1>2, <2>2, FilledEarned DEF f
<1>11. /\ Finished(f) => snd'[x].cur = None /\ snd'[x].batch = b + 1
       /\ ~Finished(f) => snd'[x] = f /\ f.cur # None
  BY <1>2, <1>3, <1>6 DEF Closed, Senders
<1>12. Earned(x, snd'[x]) /\ Count(snd'[x]) = b + 1
  BY <1>3, <1>8, <1>10, <1>11 DEF Earned, Count
<1>13. Settled(x, snd'[x], reported'[x])
  <2>1. Settled(x, s, reported[x])
    BY <1>7 DEF Course
  <2>2. CASE Finished(f)
    <3>1. b \in Begun(x) /\ CopyAt(x, b) = Content[FileAt(x, b)]
      BY <1>2, <1>3, <1>7, <1>9, <1>10, <2>2, FinishedArrived
    <3>2. reported'[x] = {Queue[x][i] : i \in 1..b + 1}
      <4>1. f.cur = Queue[x][b + 1]
        BY <1>3, <1>9 DEF FileAt
      <4>2. 1..b + 1 = (1..b) \cup {b + 1}
        BY <1>8
      <4> QED  BY <1>6, <2>1, <2>2, <4>1, <4>2 DEF Settled
    <3>3. \A d \in 0 .. (b + 1) - 1 : d = b \/ d \in 0 .. b - 1
      BY <1>8
    <3> QED  BY <1>11, <2>1, <2>2, <3>1, <3>2, <3>3 DEF Settled
  <2>3. CASE ~Finished(f)
    BY <1>3, <1>6, <1>11, <2>1, <2>3 DEF Settled
  <2> QED  BY <2>2, <2>3
<1>14. alive[y] => Tidy(Link(x) \o frames, b + 1, snd'[x].cur # None, begun, rb, held)
  <2> DEFINE cur == s.cur # None
             stays == snd'[x].cur # None
             first == IF s.cur = None THEN <<Open(o.cur, b)>> ELSE <<>>
             last == IF Finished(f) THEN <<Close>> ELSE <<>>
             m == Open(o.cur, b)
             w == Link(x)
             n == Count(s)
  <2>1. SUFFICES ASSUME alive[y] PROVE Tidy(w \o frames, b + 1, stays, begun, rb, held)
    OBVIOUS
  <2>2. PICK blocks \in Seq(Numbered(x, b)) : frames = first \o (blocks \o last)
    BY <1>1, PumpParts DEF o, f
  <2>3. Tidy(w, n, cur, begun, rb, held) /\ w \in Seq(Frames) /\ \A d \in begun : d \in Nat
    BY <1>7, <2>1, LinkFrames, BegunFacts DEF Course, Flow
  <2>4. /\ m \in Frames /\ m.type = "O" /\ m.batch = b
        /\ Close \in Frames /\ Close.type = "C"
    BY <1>9, ControlFrames DEF Open, Close, Wire
  <2>5. (cur /\ n = b + 1 /\ first = <<>>) \/ (~cur /\ n = b /\ first = <<m>>)
    BY <1>8
  <2>6. blocks \in Seq(Frames) /\ \A i \in 1..Len(blocks) : blocks[i].type = "D" /\ blocks[i].batch = b
    <3>1. Numbered(x, b) \subseteq Frames
      BY DEF Numbered, Wire
    <3>2. \A i \in 1..Len(blocks) : blocks[i] \in Numbered(x, b)
      BY ElementOfSeq
    <3>3. blocks \in Seq(Frames)
      BY <3>1, SeqMonotonic
    <3> QED  BY <3>2, <3>3 DEF Numbered
  <2>7. first \in Seq(Frames) /\ last \in Seq(Frames)
    BY <2>4
  <2>8. (stays /\ last = <<>>) \/ (~stays /\ last = <<Close>>)
    BY <1>11
  <2>9. n \in Nat
    BY <1>8
  <2> HIDE DEF cur, stays, first, last, m, w, n, begun, rb, held, frames, b
  <2>10. Tidy(w \o (first \o (blocks \o last)), b + 1, stays, begun, rb, held)
    BY <1>8, <2>3, <2>4, <2>5, <2>6, <2>7, <2>8, <2>9, TidyPump
  <2> QED  BY <2>2, <2>10
<1>15. Count(snd'[x]) \in Nat /\ Count(s) <= Count(snd'[x])
  BY <1>8, <1>12
<1>16. alive[y] => Tidy(Link(x) \o frames, Count(snd'[x]), snd'[x].cur # None, begun, rb, held)
  BY <1>12, <1>14
<1> HIDE DEF frames
<1> QED  BY <1>4, <1>5, <1>6, <1>12, <1>13, <1>15, <1>16, OutgoingStep DEF y

\* A step of x that adds frames which are no acknowledgement, and handles nothing, as
\* the files of the peer see it.
LEMMA IncomingAdd ==
  ASSUME Inv, Fresh, Delivery, NEW x \in Peers, NEW frames \in Seq(Wire(x)),
         Send(x, frames), UNCHANGED <<inbox, rcv, disk, alive>>,
         \A i \in 1..Len(frames) : frames[i].type # "A",
         snd'[Other(x)] = snd[Other(x)], reported'[Other(x)] = reported[Other(x)]
  PROVE  Course(Other(x))'
<1>1. Link(x)' = Link(x) \o frames /\ Link(Other(x))' = Link(Other(x))
  BY LinkSend
<1>2. Vouched(Other(x), frames)
  BY DEF Vouched
<1> QED  BY <1>1, <1>2, IncomingPass

\* send_more() of x keeps the course of the files that x receives.
LEMMA PumpIncoming ==
  ASSUME Inv, Fresh, Delivery, NEW x \in Peers, NEW resend \in BOOLEAN,
         resend => snd[x].unacked # {}, PumpWith(x, resend)
  PROVE  Course(Other(x))'
<1> DEFINE frames == PumpFrames(snd[x], resend)
<1>1. /\ snd[x] \in Senders /\ Books(x, snd[x])
      /\ snd[x].cur # None \/ snd[x].queue # <<>>
  BY DEF PumpWith, Inv, SndOK, SenderAccounts
<1>2. frames \in Seq(Wire(x)) /\ \A i \in 1..Len(frames) : frames[i].type # "A"
  BY <1>1, PumpFramesOK, PumpKinds
<1>3. Send(x, frames) /\ UNCHANGED <<inbox, rcv, disk, alive>>
  BY DEF PumpWith
<1>4. snd'[Other(x)] = snd[Other(x)] /\ reported'[Other(x)] = reported[Other(x)]
  BY OtherPeer DEF PumpWith, Inv, SndOK, StateOK
<1> HIDE DEF frames
<1> QED  BY <1>2, <1>3, <1>4, IncomingAdd, Zenon

\* A step of x that writes a control frame and does nothing else to the transfer.
LEMMA ControlCourse ==
  ASSUME Inv, Fresh, Delivery, NEW x \in Peers, NEW m \in Wire(x),
         m.type \in {"RQ", "Z"}, Send(x, <<m>>), UNCHANGED <<inbox, rcv, disk, alive, reported>>,
         snd'[Other(x)] = snd[Other(x)],
         snd'[x].batch = snd[x].batch, snd'[x].cur = snd[x].cur,
         snd'[x].next = snd[x].next, snd'[x].unacked = snd[x].unacked
  PROVE  Course(x)' /\ Course(Other(x))'
<1> DEFINE frames == <<m>>
           y == Other(x)
           w == Link(x)
           n == Count(snd[x])
           cur == snd[x].cur # None
           begun == Begun(x)
           rb == rcv[y].batch
           open == rcv[y].fd # None
<1>1. /\ frames \in Seq(Wire(x)) /\ frames \in Seq(Frames)
      /\ \A i \in 1..Len(frames) : frames[i].type \in {"RQ", "Z"}
  BY DEF Wire
<1>2. Send(x, frames)
  OBVIOUS
<1> HIDE DEF frames
<1>3. Course(y)'
  BY <1>1, <1>2, IncomingAdd
<1>4. Link(x)' = Link(x) \o frames /\ Link(y)' = Link(y)
  BY <1>1, <1>2, LinkSend
<1>5. Course(x) /\ n \in Nat /\ w \in Seq(Frames) /\ \A b \in begun : b \in Nat
  BY CountFacts, LinkFrames, BegunFacts DEF Delivery, Course
<1>6. Count(snd'[x]) = n /\ Earned(x, snd'[x]) /\ Settled(x, snd'[x], reported'[x])
  BY <1>5 DEF Course, Earned, Settled, Count
<1>7. alive[y] => Tidy(w \o frames, n, cur, begun, rb, open)
  <2>1. SUFFICES ASSUME alive[y] PROVE Tidy(w \o frames, n, cur, begun, rb, open)
    OBVIOUS
  <2>2. Tidy(w, n, cur, begun, rb, open)
    BY <1>5, <2>1 DEF Course, Flow
  <2>3. \A i \in 1..Len(frames) : \/ frames[i].type \notin {"O", "D", "C"}
                                  \/ cur /\ frames[i].type = "D" /\ frames[i].batch = n - 1
    BY <1>1
  <2> HIDE DEF w, n, cur, begun, rb, open
  <2> QED  BY <1>1, <1>5, <2>2, <2>3, TidyMore
<1>8. alive[y] => Tidy(Link(x) \o frames, Count(snd'[x]), snd'[x].cur # None, Begun(x),
                       rcv[y].batch, rcv[y].fd # None)
  BY <1>6, <1>7
<1>9. Count(snd'[x]) \in Nat /\ Count(snd[x]) <= Count(snd'[x])
  BY <1>5, <1>6
<1> QED  BY <1>1, <1>3, <1>4, <1>6, <1>8, <1>9, OutgoingStep

\* A step that moves nothing of what concerns the files of p.
LEMMA SameCourse ==
  ASSUME NEW p \in Peers, Course(p),
         Link(p)' = Link(p), Link(Other(p))' = Link(Other(p)),
         rcv'[Other(p)] = rcv[Other(p)], disk'[Other(p)] = disk[Other(p)],
         alive'[Other(p)] = alive[Other(p)], snd'[p] = snd[p], reported'[p] = reported[p]
  PROVE  Course(p)'
<1>1. /\ Begun(p)' = Begun(p)
      /\ \A b : CopyAt(p, b)' = CopyAt(p, b)
      /\ \A b, k : Held(p, b, k)' = Held(p, b, k)
  BY SameCopies
<1>2. Opener(p)' /\ Settled(p, snd[p], reported[p])'
  BY <1>1 DEF Course, Opener, Settled
<1>3. Flow(p)'
  BY <1>1 DEF Course, Flow
<1>4. Earned(p, snd[p])'
  BY <1>1 DEF Course, Earned
<1>5. Vouched(p, Link(Other(p)))'
  BY <1>1 DEF Course, Vouched, Held
<1> QED  BY <1>2, <1>3, <1>4, <1>5 DEF Course

\* The line damages data, ACKs and NAKs: nothing a step of the transfer depends on.
LEMMA LoseCourse ==
  ASSUME Inv, Fresh, Delivery, NEW x \in Peers, Lose(x)
  PROVE  Course(x)' /\ Course(Other(x))'
<1> DEFINE y == Other(x)
           none == <<>>
<1>1. y \in Peers /\ Other(y) = x /\ y # x
  BY OtherPeer
<1>2. /\ Link(x)' = Link(x)
      /\ Link(y) # <<>> /\ Head(Link(y)) = Packet(x) /\ Link(y)' = Tail(Link(y))
  BY LinkTake DEF Lose
<1>3. Head(Link(y)).type # "O"
  BY <1>2 DEF Lose, Fresh
<1>4. none \in Seq(Wire(x)) /\ Link(x) \o none = Link(x)
  BY LinkType, ConcatEmptySeq, EmptySeq
<1>5. Link(x)' = Link(x) \o none /\ Vouched(y, none)
  BY <1>2, <1>4 DEF Vouched
<1>6. /\ rcv' = rcv /\ disk' = disk /\ alive' = alive /\ snd' = snd /\ reported' = reported
  BY DEF Lose
<1>7. Count(snd[x]) \in Nat /\ Count(snd'[x]) \in Nat /\ Count(snd[x]) <= Count(snd'[x])
  BY <1>6, CountFacts
<1>8. Earned(x, snd'[x]) /\ Settled(x, snd'[x], reported'[x])
  BY <1>6 DEF Delivery, Course
<1>9. alive[y] => Tidy(Link(x) \o none, Count(snd'[x]), snd'[x].cur # None, Begun(x),
                       rcv[y].batch, rcv[y].fd # None)
  BY <1>4, <1>6 DEF Delivery, Course, Flow
<1> HIDE DEF none, y
<1>10. Course(y)'
  BY <1>2, <1>3, <1>4, <1>5, <1>6, IncomingPass DEF y
<1>11. Course(x)'
  BY <1>2, <1>4, <1>5, <1>6, <1>7, <1>8, <1>9, OutgoingStep DEF y
<1> QED  BY <1>10, <1>11 DEF y

\* Every step keeps the course of the file transfer in both directions.
LEMMA NextCourse ==
  ASSUME Inv, Ends, Fresh, Delivery, [Next]_vars PROVE \A p \in Peers : Course(p)'
<1>0. \A x, p \in Peers : p = x \/ p = Other(x)
  BY DEF Peers, Other
<1>1. ASSUME NEW x \in Peers, Idle(x) PROVE \A p \in Peers : Course(p)'
  <2>1. \A p \in Peers : Link(p)' = Link(p) /\ Other(p) \in Peers /\ Course(p)
    BY <1>1, LinkIdle, OtherPeer DEF Delivery
  <2> QED  BY <1>1, <2>1, SameCourse DEF Idle
<1>2. ASSUME NEW x \in Peers, Ping(x) PROVE \A p \in Peers : Course(p)'
  <2>1. RQ \in Wire(x) /\ RQ.type = "RQ"
    BY ControlFrames DEF RQ
  <2>2. /\ UNCHANGED <<inbox, rcv, disk, alive, reported>> /\ snd' = snd /\ Send(x, <<RQ>>)
    BY <1>2 DEF Ping
  <2> QED  BY <1>0, <2>1, <2>2, ControlCourse
<1>3. ASSUME NEW x \in Peers, Pump(x) \/ Timeout(x) PROVE \A p \in Peers : Course(p)'
  <2>1. CASE Pump(x)
    BY <1>0, <2>1, PumpOutgoing, PumpIncoming DEF Pump
  <2>2. CASE Timeout(x)
    BY <1>0, <2>2, PumpOutgoing, PumpIncoming DEF Timeout
  <2> QED  BY <1>3, <2>1, <2>2
<1>4. ASSUME NEW x \in Peers, AllSent(x) PROVE \A p \in Peers : Course(p)'
  <2>1. Done \in Wire(x) /\ Done.type = "Z"
    BY ControlFrames DEF Done
  <2>2. /\ UNCHANGED <<inbox, rcv, disk, alive, reported>> /\ Send(x, <<Done>>)
    BY <1>4 DEF AllSent
  <2>3. /\ snd'[Other(x)] = snd[Other(x)]
        /\ snd'[x].batch = snd[x].batch /\ snd'[x].cur = snd[x].cur
        /\ snd'[x].next = snd[x].next /\ snd'[x].unacked = snd[x].unacked
    BY <1>4, OtherPeer DEF AllSent, Inv, SndOK, Senders
  <2> QED  BY <1>0, <2>1, <2>2, <2>3, ControlCourse
<1>5. ASSUME NEW x \in Peers, Receive(x) PROVE \A p \in Peers : Course(p)'
  BY <1>0, <1>5, ReceiveOutgoing, ReceiveIncoming
<1>6. ASSUME NEW x \in Peers, Lose(x) PROVE \A p \in Peers : Course(p)'
  BY <1>0, <1>6, LoseCourse
<1>7. ASSUME NEW x \in Peers, Exit(x) \/ CarrierLost(x) PROVE \A p \in Peers : Course(p)'
  <2>1. Other(x) \in Peers /\ Other(Other(x)) = x /\ Other(x) # x
    BY OtherPeer
  <2>2. /\ Leave(x) /\ snd' = snd /\ disk' = disk /\ reported' = reported
        /\ \A p \in Peers : Link(p)' = Link(p)
    BY <1>7 DEF Exit, CarrierLost, Link
  <2>3. /\ rcv'[x] = [rcv[x] EXCEPT !.fd = None] /\ rcv'[Other(x)] = rcv[Other(x)]
        /\ ~alive'[x] /\ alive'[Other(x)] = alive[Other(x)]
    BY <2>1, <2>2 DEF Leave, Inv, RecvOK, StateOK
  <2>4. Course(Other(x))'
    BY <2>2, <2>3, IncomingClose
  <2>5. Course(x)'
    BY <2>1, <2>2, <2>3, SameCourse DEF Delivery
  <2> QED  BY <1>0, <2>4, <2>5
<1>8. ~Reconnect
  BY DEF Reconnect, Fresh, Inv, StateOK
<1>9. CASE UNCHANGED vars
  <2>1. \A p \in Peers : Link(p)' = Link(p) /\ Other(p) \in Peers /\ Course(p)
    BY <1>9, OtherPeer DEF Delivery, vars, Link
  <2> QED  BY <1>9, <2>1, SameCourse DEF vars
<1> QED  BY <1>1, <1>2, <1>3, <1>4, <1>5, <1>6, <1>7, <1>8, <1>9 DEF Next, Step, Terminated

\* What a step of x has to respect so that a receiver in INIT meets RQ first.
LEMMA GreetedStep ==
  ASSUME Inv, Delivery, NEW x \in Peers, NEW frames \in Seq(Wire(x)),
         Link(x)' = Link(x) \o frames,
         \/ Link(Other(x))' = Link(Other(x)) /\ (state'[x] = "INIT" => state[x] = "INIT")
         \/ state'[x] # "INIT",
         state'[Other(x)] = state[Other(x)],
         state[x] = "INIT" => \/ frames = <<>> /\ state'[x] = "INIT"
                              \/ frames # <<>> /\ Head(frames) = RQ
  PROVE  \A p \in Peers : Greeted(p)'
<1> DEFINE y == Other(x)
<1>1. y \in Peers /\ Other(y) = x /\ \A p \in Peers : p = x \/ p = y
  BY OtherPeer DEF Peers, Other
<1>2. Greeted(x)'
  <2>1. SUFFICES ASSUME state[y] = "INIT"
                 PROVE  /\ Link(x) \o frames # <<>> => Head(Link(x) \o frames) = RQ
                        /\ state'[x] # "INIT" => Link(x) \o frames # <<>>
    BY <1>1 DEF Greeted
  <2>2. Link(x) \in Seq(Wire(x))
    BY LinkType
  <2>3. CASE Link(x) # <<>>
    <3>1. Link(x) \o frames # <<>> /\ Head(Link(x) \o frames) = Head(Link(x))
      BY <2>2, <2>3, FirstOfTwo, Zenon
    <3> QED  BY <2>1, <2>3, <3>1 DEF Delivery, Greeted
  <2>4. CASE Link(x) = <<>>
    <3>1. Link(x) \o frames = frames
      BY <2>4, ConcatEmptySeq
    <3>2. state[x] = "INIT"
      BY <2>1, <2>4 DEF Delivery, Greeted
    <3> QED  BY <3>1, <3>2
  <2> QED  BY <2>3, <2>4
<1>3. Greeted(y)'
  BY <1>1 DEF Delivery, Greeted
<1> QED  BY <1>1, <1>2, <1>3

\* A peer in INIT acts on nothing but the RQ, which ends that state.
LEMMA NextGreeted ==
  ASSUME Inv, Ends, Fresh, Delivery, [Next]_vars PROVE \A p \in Peers : Greeted(p)'
<1>0. \A x \in Peers : /\ Other(x) \in Peers /\ Other(x) # x /\ Other(Other(x)) = x
                       /\ <<>> \in Seq(Wire(x)) /\ Link(x) \o <<>> = Link(x)
  BY OtherPeer, LinkType, ConcatEmptySeq, EmptySeq
<1>1. ASSUME NEW x \in Peers, Idle(x) \/ Exit(x) \/ CarrierLost(x)
      PROVE  \A p \in Peers : Greeted(p)'
  <2>1. state' = state
    BY <1>1 DEF Idle, Exit, CarrierLost
  <2>2. \A p \in Peers : Link(p)' = Link(p)
    BY <1>1, LinkIdle DEF Exit, CarrierLost, Link
  <2> QED  BY <1>0, <2>1, <2>2 DEF Delivery, Greeted
<1>2. ASSUME NEW x \in Peers, Ping(x) PROVE \A p \in Peers : Greeted(p)'
  <2> DEFINE frames == <<RQ>>
  <2>1. frames \in Seq(Wire(x)) /\ frames # <<>> /\ Head(frames) = RQ
    BY ControlFrames
  <2> HIDE DEF frames
  <2>2. Link(x)' = Link(x) \o frames /\ Link(Other(x))' = Link(Other(x))
    BY <1>2, <2>1, LinkSend DEF Ping, frames
  <2> QED  BY <1>2, <2>1, <2>2, GreetedStep DEF Ping
<1>3. ASSUME NEW x \in Peers, Pump(x) \/ Timeout(x) \/ AllSent(x)
      PROVE  \A p \in Peers : Greeted(p)'
  <2>1. state[x] # "INIT" /\ state' = state
    BY <1>3 DEF Pump, Timeout, PumpWith, AllSent, Sending
  <2>2. \E frames \in Seq(Wire(x)) : Send(x, frames) /\ inbox' = inbox
    <3>1. CASE AllSent(x)
      <4>1. <<Done>> \in Seq(Wire(x))
        BY ControlFrames
      <4> QED  BY <3>1, <4>1 DEF AllSent
    <3>2. ASSUME NEW resend \in BOOLEAN, resend => snd[x].unacked # {}, PumpWith(x, resend)
          PROVE  \E frames \in Seq(Wire(x)) : Send(x, frames) /\ inbox' = inbox
      <4>1. /\ snd[x] \in Senders /\ Books(x, snd[x])
            /\ snd[x].cur # None \/ snd[x].queue # <<>>
        BY <3>2 DEF PumpWith, Inv, SndOK, SenderAccounts
      <4>2. PumpFrames(snd[x], resend) \in Seq(Wire(x))
        BY <3>2, <4>1, PumpFramesOK
      <4> QED  BY <3>2, <4>2 DEF PumpWith
    <3> QED  BY <1>3, <3>1, <3>2 DEF Pump, Timeout
  <2>3. PICK frames \in Seq(Wire(x)) : Send(x, frames) /\ inbox' = inbox
    BY <2>2
  <2>4. Link(x)' = Link(x) \o frames /\ Link(Other(x))' = Link(Other(x))
    BY <2>3, LinkSend
  <2> QED  BY <2>1, <2>4, GreetedStep
<1>4. ASSUME NEW x \in Peers, Handshake(x) PROVE \A p \in Peers : Greeted(p)'
  <2> DEFINE frames == IF snd[x].queue = <<>> THEN <<RQ, Done>> ELSE <<RQ>>
  <2>1. frames \in Seq(Wire(x)) /\ frames # <<>> /\ Head(frames) = RQ
    BY ControlFrames
  <2> HIDE DEF frames
  <2>2. Link(x)' = Link(x) \o frames
    BY <1>4, <2>1, LinkReply DEF Handshake, Arrives, frames
  <2>3. state'[x] # "INIT" /\ state'[Other(x)] = state[Other(x)]
    BY <1>0, <1>4 DEF Handshake, Inv, StateOK
  <2> QED  BY <2>1, <2>2, <2>3, GreetedStep
<1>5. ASSUME NEW x \in Peers, Receive(x), ~Handshake(x) PROVE \A p \in Peers : Greeted(p)'
  <2>1. PICK frames \in Seq(Wire(x)) : Handles(x, frames)
    BY <1>5, ReceiveHandles
  <2>2. /\ Link(x)' = Link(x) \o frames
        /\ Link(Other(x)) # <<>> /\ Head(Link(Other(x))) = Packet(x)
    BY <2>1, LinkHandled DEF Handles
  <2>3. state[x] # "INIT"
    <3>1. SUFFICES ASSUME state[x] = "INIT" PROVE FALSE
      OBVIOUS
    <3>2. Packet(x).type = "RQ"
      BY <1>0, <2>2, <3>1 DEF Delivery, Greeted, RQ
    <3> QED  BY <1>5, <3>1, <3>2 DEF Receive, HandleAck, HandleNak, HandleSkip, HandleVerify,
             HandleOpen, OpenUnsafe, OpenSkip, OpenResume, OpenFresh, DataExpected, DataUnexpected,
             HandleSeek, HandleClose, HandleDone, Ignore, Ineffective, Transferring
  <2>4. state'[x] # "INIT" /\ state'[Other(x)] = state[Other(x)]
    BY <2>1, <2>3 DEF Handles
  <2> QED  BY <2>2, <2>3, <2>4, GreetedStep
<1>6. ASSUME NEW x \in Peers, Lose(x) PROVE \A p \in Peers : Greeted(p)'
  <2>1. /\ Link(x)' = Link(x)
        /\ Link(Other(x)) # <<>> /\ Head(Link(Other(x))) = Packet(x)
    BY <1>6, LinkTake DEF Lose
  <2>2. state' = state /\ Packet(x).type # "RQ"
    BY <1>6 DEF Lose, Fresh
  <2>3. state[x] # "INIT"
    BY <1>0, <2>1, <2>2 DEF Delivery, Greeted, RQ
  <2>4. Link(x)' = Link(x) \o <<>>
    BY <1>0, <2>1
  <2> QED  BY <1>0, <2>2, <2>3, <2>4, GreetedStep
<1>7. ~Reconnect
  BY DEF Reconnect, Fresh, Inv, StateOK
<1>8. CASE UNCHANGED vars
  BY <1>8 DEF vars, Delivery, Greeted, Link
<1> QED  BY <1>1, <1>2, <1>3, <1>4, <1>5, <1>6, <1>7, <1>8 DEF Next, Step, Terminated

\* No step writes K, V or S.
LEMMA PlainStep ==
  ASSUME Inv, Delivery, NEW x \in Peers, NEW frames \in Seq(Wire(x)),
         Link(x)' = Link(x) \o frames,
         \/ Link(Other(x))' = Link(Other(x))
         \/ Link(Other(x)) # <<>> /\ Link(Other(x))' = Tail(Link(Other(x))),
         \A i \in 1..Len(frames) : frames[i].type \notin {"K", "V", "S"}
  PROVE  \A p \in Peers : Plain(p)'
<1> DEFINE y == Other(x)
           w == Link(x)
           v == Link(y)
<1>1. y \in Peers /\ Other(y) = x /\ \A p \in Peers : p = x \/ p = y
  BY OtherPeer DEF Peers, Other
<1>2. w \in Seq(Wire(x)) /\ v \in Seq(Wire(y))
  BY <1>1, LinkType
<1>3. /\ \A i \in 1..Len(w) : w[i].type \notin {"K", "V", "S"}
      /\ \A i \in 1..Len(v) : v[i].type \notin {"K", "V", "S"}
  BY <1>1 DEF Delivery, Plain
<1>4. Plain(x)'
  <2> HIDE DEF w
  <2>1. SUFFICES ASSUME NEW i \in 1..Len(w \o frames)
                 PROVE  (w \o frames)[i].type \notin {"K", "V", "S"}
    BY DEF Plain, w
  <2>2. Len(w) \in Nat /\ Len(frames) \in Nat /\ Len(w \o frames) = Len(w) + Len(frames)
    BY <1>2, Joined
  <2>3. CASE i \in 1..Len(w)
    BY <1>2, <1>3, <2>3, Joined
  <2>4. CASE i \notin 1..Len(w)
    <3>1. i - Len(w) \in 1..Len(frames) /\ Len(w) + (i - Len(w)) = i
      BY <2>2, <2>4
    <3>2. (w \o frames)[i] = frames[i - Len(w)]
      BY <1>2, <3>1, Joined
    <3> QED  BY <3>1, <3>2
  <2> QED  BY <2>3, <2>4
<1>5. Plain(y)'
  <2>1. v # <<>> => \A i \in 1..Len(Tail(v)) : Tail(v)[i].type \notin {"K", "V", "S"}
    <3> HIDE DEF v
    <3> QED  BY <1>2, <1>3, Rest
  <2> QED  BY <1>3, <2>1 DEF Plain
<1> QED  BY <1>1, <1>4, <1>5

\* Nobody skips, verifies or resumes a file.
LEMMA NextPlain ==
  ASSUME Inv, Ends, Fresh, Delivery, [Next]_vars PROVE \A p \in Peers : Plain(p)'
<1>1. ASSUME NEW x \in Peers, Idle(x) \/ Exit(x) \/ CarrierLost(x)
      PROVE  \A p \in Peers : Plain(p)'
  <2>1. \A p \in Peers : Link(p)' = Link(p)
    BY <1>1, LinkIdle DEF Exit, CarrierLost, Link
  <2> QED  BY <2>1 DEF Delivery, Plain
<1>2. ASSUME NEW x \in Peers, NEW frames \in Seq(Wire(x)), Send(x, frames), inbox' = inbox,
             \A i \in 1..Len(frames) : frames[i].type \notin {"K", "V", "S"}
      PROVE  \A p \in Peers : Plain(p)'
  <2>1. Link(x)' = Link(x) \o frames /\ Link(Other(x))' = Link(Other(x))
    BY <1>2, LinkSend
  <2> QED  BY <1>2, <2>1, PlainStep
<1>3. ASSUME NEW x \in Peers, Ping(x) PROVE \A p \in Peers : Plain(p)'
  <2>1. <<RQ>> \in Seq(Wire(x)) /\ \A i \in 1..Len(<<RQ>>) : <<RQ>>[i].type \notin {"K", "V", "S"}
    BY ControlFrames DEF RQ
  <2> QED  BY <1>2, <1>3, <2>1 DEF Ping
<1>4. ASSUME NEW x \in Peers, AllSent(x) PROVE \A p \in Peers : Plain(p)'
  <2>1. <<Done>> \in Seq(Wire(x)) /\ \A i \in 1..Len(<<Done>>) : <<Done>>[i].type \notin {"K", "V", "S"}
    BY ControlFrames DEF Done
  <2> QED  BY <1>2, <1>4, <2>1 DEF AllSent
<1>5. ASSUME NEW x \in Peers, NEW resend \in BOOLEAN, resend => snd[x].unacked # {},
             PumpWith(x, resend)
      PROVE  \A p \in Peers : Plain(p)'
  <2>1. /\ snd[x] \in Senders /\ Books(x, snd[x])
        /\ snd[x].cur # None \/ snd[x].queue # <<>>
    BY <1>5 DEF PumpWith, Inv, SndOK, SenderAccounts
  <2>2. PumpFrames(snd[x], resend) \in Seq(Wire(x))
    BY <1>5, <2>1, PumpFramesOK
  <2>3. \A i \in 1..Len(PumpFrames(snd[x], resend)) :
          PumpFrames(snd[x], resend)[i].type \notin {"K", "V", "S"}
    BY <1>5, <2>1, PumpKinds
  <2> QED  BY <1>2, <1>5, <2>2, <2>3 DEF PumpWith
<1>6. ASSUME NEW x \in Peers, Receive(x) PROVE \A p \in Peers : Plain(p)'
  <2>1. PICK frames \in Seq(Wire(x)) : Handles(x, frames)
    BY <1>6, ReceiveHandles
  <2>2. /\ Link(x)' = Link(x) \o frames
        /\ Link(Other(x)) # <<>> /\ Link(Other(x))' = Tail(Link(Other(x)))
    BY <2>1, LinkHandled DEF Handles
  <2>3. \A i \in 1..Len(frames) : frames[i].type \notin {"K", "V", "S"}
    BY <2>1, ReplyFacts
  <2> QED  BY <2>2, <2>3, PlainStep
<1>7. ASSUME NEW x \in Peers, Lose(x) PROVE \A p \in Peers : Plain(p)'
  <2>1. /\ Link(x)' = Link(x)
        /\ Link(Other(x)) # <<>> /\ Link(Other(x))' = Tail(Link(Other(x)))
    BY <1>7, LinkTake DEF Lose
  <2>2. <<>> \in Seq(Wire(x)) /\ Link(x) \o <<>> = Link(x)
    BY LinkType, ConcatEmptySeq, EmptySeq
  <2>3. \A i \in 1..Len(<<>>) : <<>>[i].type \notin {"K", "V", "S"}
    BY EmptySeq
  <2> QED  BY <2>1, <2>2, <2>3, PlainStep
<1>8. ~Reconnect
  BY DEF Reconnect, Fresh, Inv, StateOK
<1>9. CASE UNCHANGED vars
  BY <1>9 DEF vars, Delivery, Plain, Link
<1> QED  BY <1>1, <1>3, <1>4, <1>5, <1>6, <1>7, <1>8, <1>9 DEF Next, Step, Terminated, Pump, Timeout

\* A session starts with nothing on the link and no file begun.
LEMMA InitDelivery == ASSUME Init, Fresh PROVE Delivery
<1> SUFFICES ASSUME NEW p \in Peers PROVE Greeted(p) /\ Plain(p) /\ Course(p)
  BY DEF Delivery
<1>1. Other(p) \in Peers /\ Other(Other(p)) = p
  BY OtherPeer
<1>2. Link(p) = <<>> /\ Link(Other(p)) = <<>>
  BY <1>1, EmptySeq, ConcatEmptySeq DEF Init, Link
<1>3. /\ snd[p].batch = 0 /\ snd[p].cur = None /\ state[p] = "INIT"
      /\ rcv[Other(p)].fd = None /\ rcv[Other(p)].batch = 0 /\ reported[p] = {}
      /\ disk = OnDisk
  BY <1>1 DEF Init, NewSender, NewReceiver
<1>4. Begun(p) = {}
  BY <1>3 DEF Begun, CopyAt, Copy, Fresh
<1>5. Greeted(p) /\ Plain(p)
  BY <1>2, <1>3 DEF Greeted, Plain
<1>6. Opener(p) /\ Earned(p, snd[p]) /\ Vouched(p, Link(Other(p)))
  BY <1>2, <1>3, <1>4 DEF Opener, Earned, Vouched
<1>7. Settled(p, snd[p], reported[p])
  BY <1>3 DEF Settled
<1>8. Flow(p)
  <2> DEFINE w == Link(p)
  <2>1. Len(w) = 0
    BY <1>2
  <2> HIDE DEF w
  <2>2. Tidy(w, Count(snd[p]), FALSE, {}, rcv[Other(p)].batch, FALSE)
    BY <2>1 DEF Tidy, InOrder, Ahead, Reaches
  <2>3. Tidy(w, Count(snd[p]), snd[p].cur # None, Begun(p), rcv[Other(p)].batch, rcv[Other(p)].fd # None)
    BY <1>3, <1>4, <2>2
  <2> QED  BY <2>3 DEF Flow, w
<1> QED  BY <1>5, <1>6, <1>7, <1>8 DEF Course

\* Under Fresh, Delivery holds with Inv and Ends in every reachable state.
LEMMA DeliveryInvariance == ASSUME Fresh PROVE Spec => [](Inv /\ Ends /\ Delivery)
<1>1. Init => Delivery
  BY InitDelivery
<1>2. Inv /\ Ends /\ Delivery /\ [Next]_vars => Delivery'
  BY NextCourse, NextGreeted, NextPlain DEF Delivery
<1>3. Inv /\ Ends /\ [Next]_vars => Ends'
  BY NextEnds
<1> QED  BY <1>1, <1>2, <1>3, InitOK, NextOK, InitEnds, PTL DEF Spec

-----------------------------------------------------------------------------
(***************************************************************************)
(* What follows from the course of the transfer.                           *)
(***************************************************************************)
\* The file a receiver has open is the last one it has begun.
LEMMA DeliveryExpected == Inv /\ Fresh /\ Delivery => ExpectedIsWritten
<1> SUFFICES ASSUME Inv, Fresh, Delivery, NEW p \in Peers, NEW f \in FilesOf(p),
                    rcv[Other(p)].fd = Name[f]
             PROVE  Copy(p, f) = Front(Content[f], rcv[Other(p)].expected)
  BY DEF ExpectedIsWritten, Front
<1> DEFINE r == rcv[Other(p)]
<1>1. PICK b \in Batches(p) : f = FileAt(p, b)
  BY Place
<1>2. r.fd # None
  BY <1>1, FileFacts, FilesAssumption
<1>3. r.batch \in Batches(p) /\ r.fd = Name[FileAt(p, r.batch)]
  BY <1>2 DEF Delivery, Course, Opener
<1>4. r.batch = b
  BY <1>1, <1>3, FileFacts
<1>5. r.batch \in Begun(p)
  BY <1>2, BegunFacts DEF Delivery, Course
<1> QED  BY <1>1, <1>4, <1>5 DEF Delivery, Course, Opener, CopyAt

\* A block outside the window is Earned, hence held.
LEMMA DeliveryAcked == Inv /\ Fresh /\ Delivery => AckedIsStored
<1> SUFFICES ASSUME Inv, Fresh, Delivery, NEW p \in Peers, snd[p].cur # None,
                    NEW k \in (0 .. snd[p].next - 1) \ snd[p].unacked
             PROVE  /\ Copy(p, snd[p].cur) # Absent
                    /\ Chunk(Copy(p, snd[p].cur), k) = Chunk(Content[snd[p].cur], k)
  BY DEF AckedIsStored
<1> DEFINE b == snd[p].batch
           r == rcv[Other(p)]
           c == Content[FileAt(p, b)]
<1>1. /\ b \in Batches(p) /\ snd[p].cur = FileAt(p, b) /\ Count(snd[p]) = b + 1
      /\ snd[p].next \in Nat
  BY CountFacts
<1>2. b \in Nat /\ c \in Seq(Unit)
  BY <1>1, FileFacts
<1>3. Course(p) /\ r.batch \in Nat /\ r.expected \in Nat
  BY BegunFacts DEF Delivery, Course
<1>4. Held(p, b, k)
  BY <1>3 DEF Course, Earned
<1>5. b \in Begun(p) /\ b <= r.batch
  BY <1>3, <1>4 DEF Course, Opener, Held
<1>6. r.batch = b
  <2>1. r.batch = 0 \/ r.batch < b + 1
    BY <1>1, <1>3 DEF Course, Opener
  <2> QED  BY <1>2, <1>3, <1>5, <2>1
<1>7. k \in Nat /\ k < r.expected
  BY <1>1, <1>4, <1>6 DEF Held
<1>8. Copy(p, snd[p].cur) # Absent /\ Copy(p, snd[p].cur) = Front(c, r.expected)
  BY <1>1, <1>3, <1>5, <1>6 DEF Course, Opener, Begun, CopyAt
<1> HIDE DEF c, r
<1>9. Chunk(Front(c, r.expected), k) = Chunk(c, k)
  BY <1>2, <1>3, <1>7, FrontChunk
<1> QED  BY <1>1, <1>8, <1>9 DEF c

\* A reported file is whole.
Whole == \A p \in Peers : \A f \in reported[p] : Copy(p, f) = Content[f]

\* What is reported is Settled, hence whole.
LEMMA DeliveryWhole == Inv /\ Delivery => Whole
<1> SUFFICES ASSUME Inv, Delivery, NEW p \in Peers, NEW f \in reported[p]
             PROVE  Copy(p, f) = Content[f]
  BY DEF Whole
<1>1. snd[p].batch \in Nat
  BY CountFacts
<1>2. PICK i \in 1..snd[p].batch : f = Queue[p][i]
  BY DEF Delivery, Course, Settled
<1>3. i - 1 \in 0 .. snd[p].batch - 1 /\ (i - 1) + 1 = i
  BY <1>1
<1>4. CopyAt(p, i - 1) = Content[FileAt(p, i - 1)]
  BY <1>3 DEF Delivery, Course, Settled
<1> QED  BY <1>2, <1>3, <1>4 DEF CopyAt, FileAt

\* What is reported is not taken back.
LEMMA ReportedStays ==
  ASSUME Inv, [Next]_vars PROVE \A p \in Peers : reported[p] \subseteq reported'[p]
<1>1. reported \in [Peers -> SUBSET Files]
  BY DEF Inv, StateOK
<1>2. ASSUME NEW x \in Peers, Pump(x) \/ Timeout(x)
      PROVE  \A p \in Peers : reported[p] \subseteq reported'[p]
  BY <1>1, <1>2 DEF Pump, Timeout, PumpWith
<1>3. ASSUME NEW x \in Peers, Receive(x) PROVE reported' = reported
  BY <1>3 DEF Receive, Handshake, HandleAck, HandleNak, HandleSkip, HandleVerify,
     HandleOpen, OpenUnsafe, OpenSkip, OpenResume, OpenFresh, DataExpected, DataUnexpected,
     HandleSeek, HandleClose, HandleDone, Ignore
<1>4. ASSUME NEW x \in Peers,
             Idle(x) \/ Ping(x) \/ AllSent(x) \/ Exit(x) \/ CarrierLost(x) \/ Lose(x)
      PROVE  reported' = reported
  BY <1>4 DEF Idle, Ping, AllSent, Exit, CarrierLost, Lose
<1>5. Reconnect \/ UNCHANGED vars => reported' = reported
  BY DEF Reconnect, vars
<1> QED  BY <1>2, <1>3, <1>4, <1>5 DEF Next, Step, Terminated

\* Between fresh directories, on a line that damages data, ACKs and NAKs: an open file
\* holds the blocks before the expected one, each once, and nothing else.
THEOREM ExpectedWritten == ASSUME Fresh PROVE Spec => []ExpectedIsWritten
<1>1. Inv /\ Delivery => ExpectedIsWritten
  BY DeliveryExpected
<1> QED  BY <1>1, DeliveryInvariance, PTL

\* There, a block that has left the window is on the receiver's disk, at its place: the
\* sender forgets no block it could still have to resend.
THEOREM AckedStored == ASSUME Fresh PROVE Spec => []AckedIsStored
<1>1. Inv /\ Delivery => AckedIsStored
  BY DeliveryAcked
<1> QED  BY <1>1, DeliveryInvariance, PTL

\* There, a file is logged as transferred only when the receiver has it, whole.
THEOREM FilesDelivered == ASSUME Fresh PROVE Spec => []Delivered
<1>1. Inv /\ Delivery => Delivered
  BY DeliveryWhole DEF Whole, Delivered
<1> QED  BY <1>1, DeliveryInvariance, PTL

\* There, nothing that is still in flight touches a file that has been reported.
THEOREM ReportsFinal == ASSUME Fresh PROVE Spec => ReportedIsFinal
<1> DEFINE Still == \A p \in Peers : \A f \in reported[p] :
                      disk'[Other(p)][Name[f]] = disk[Other(p)][Name[f]]
<1>1. Inv /\ [Next]_vars /\ Whole /\ Whole' => [Still]_vars
  <2> SUFFICES ASSUME Inv, [Next]_vars, Whole, Whole', NEW p \in Peers, NEW f \in reported[p]
               PROVE  disk'[Other(p)][Name[f]] = disk[Other(p)][Name[f]]
    OBVIOUS
  <2>1. f \in reported'[p]
    BY ReportedStays
  <2> QED  BY <2>1 DEF Whole, Copy
<1>2. Inv /\ Delivery => Whole
  BY DeliveryWhole
<1> QED  BY <1>1, <1>2, DeliveryInvariance, PTL DEF ReportedIsFinal, Spec

-----------------------------------------------------------------------------
(***************************************************************************)
(* The session implements FileTransfer.  A file is sent by one peer: the   *)
(* model's Files tells apart two that only look alike.                     *)
(***************************************************************************)

Copies == [f \in Offered |-> Copy(Owner(f), f)]
Reports == (reported[A] \cup reported[B]) \cap Offered

\* A file of p's queue is offered, and is p's.
LEMMA Ownership ==
  ASSUME Fresh, Apart, NEW p \in Peers, NEW b \in Batches(p)
  PROVE  FileAt(p, b) \in Offered /\ Owner(FileAt(p, b)) = p /\ FileAt(p, b) \in FilesOf(p)
<1>1. FileAt(p, b) \in Files /\ Accepted(FileAt(p, b)) /\ b + 1 \in 1..Len(Queue[p])
  BY FileFacts
<1>2. FileAt(p, b) \in FilesOf(p)
  BY <1>1 DEF FileAt, FilesOf
<1>3. \A q \in Peers : FileAt(p, b) \in FilesOf(q) => q = p
  BY <1>2 DEF Apart, Peers
<1> QED  BY <1>1, <1>2, <1>3 DEF Offered, Owner

\* What is reported by x are files of x.
LEMMA ReportedOwn ==
  ASSUME Inv, Delivery, NEW p \in Peers, NEW f \in reported[p]
  PROVE  \E b \in 0 .. snd[p].batch - 1 : b \in Begun(p) /\ f = FileAt(p, b)
<1>1. snd[p].batch \in Nat
  BY CountFacts
<1>2. PICK i \in 1..snd[p].batch : f = Queue[p][i]
  BY DEF Delivery, Course, Settled
<1>3. i - 1 \in 0 .. snd[p].batch - 1 /\ (i - 1) + 1 = i
  BY <1>1
<1>4. i - 1 \in Begun(p)
  BY <1>3 DEF Delivery, Course, Settled
<1> QED  BY <1>2, <1>3, <1>4 DEF FileAt

\* A report of a file of p is a report by p.
LEMMA ReportedBy ==
  ASSUME Inv, Fresh, Apart, Delivery, NEW p \in Peers, NEW b \in Batches(p),
         FileAt(p, b) \in Reports
  PROVE  FileAt(p, b) \in reported[p]
<1> DEFINE f == FileAt(p, b)
<1>1. PICK q \in Peers : f \in reported[q]
  BY DEF Reports, Peers
<1>2. PICK c \in 0 .. snd[q].batch - 1 : c \in Begun(q) /\ f = FileAt(q, c)
  BY <1>1, ReportedOwn
<1>3. c \in Batches(q)
  BY <1>2 DEF Begun
<1>4. Owner(f) = q /\ Owner(f) = p
  BY <1>2, <1>3, Ownership
<1> QED  BY <1>1, <1>4

\* A write to the copy of one file, as FileTransfer sees it.
LEMMA OneCopy ==
  ASSUME Inv, Fresh, Apart, NEW x \in Peers, NEW b \in Batches(Other(x)), NEW c \in Seq(Unit),
         disk'[x] = [disk[x] EXCEPT ![Name[FileAt(Other(x), b)]] = c],
         disk'[Other(x)] = disk[Other(x)]
  PROVE  Copies' = [Copies EXCEPT ![FileAt(Other(x), b)] = c]
<1> DEFINE y == Other(x)
           f == FileAt(y, b)
<1>1. y \in Peers /\ Other(y) = x /\ y # x /\ \A p \in Peers : p = x \/ p = y
  BY OtherPeer DEF Peers, Other
<1>2. f \in Offered /\ Owner(f) = y
  BY <1>1, Ownership
<1>3. Copy(y, f)' = c
  BY <1>1, Written DEF CopyAt, Copy
<1>4. ASSUME NEW g \in Offered, g # f PROVE Copy(Owner(g), g)' = Copy(Owner(g), g)
  <2>1. Owner(g) \in Peers
    BY OfferedPlace
  <2>2. PICK d \in Batches(Owner(g)) : g = FileAt(Owner(g), d)
    BY OfferedPlace
  <2>3. CASE Owner(g) = x
    BY <1>1, <2>3 DEF Copy
  <2>4. CASE Owner(g) = y
    <3>1. d # b /\ d \in Batches(y)
      BY <1>4, <2>2, <2>4
    <3>2. Name[FileAt(y, d)] # Name[f]
      BY <1>1, <3>1, FileFacts
    <3>3. Name[g] # Name[f] /\ Name[g] \in Names
      BY <1>1, <2>2, <2>4, <3>1, <3>2, FileFacts
    <3>4. disk'[x][Name[g]] = disk[x][Name[g]]
      BY <3>3 DEF Inv, RecvOK
    <3> QED  BY <1>1, <2>4, <3>4 DEF Copy
  <2> QED  BY <1>1, <2>1, <2>3, <2>4
<1>5. \A g \in Offered : Copy(Owner(g), g)' = IF g = f THEN c ELSE Copies[g]
  BY <1>2, <1>3, <1>4 DEF Copies
<1> HIDE DEF f, y
<1>6. Copies' = [g \in Offered |-> IF g = f THEN c ELSE Copies[g]]
  BY <1>5 DEF Copies
<1>7. [Copies EXCEPT ![f] = c] = [g \in Offered |-> IF g = f THEN c ELSE Copies[g]]
  BY DEF Copies
<1> QED  BY <1>6, <1>7 DEF f, y

\* An OPEN begins a copy.
LEMMA OpenTransfers ==
  ASSUME Inv, Ends, Fresh, Apart, Delivery, NEW x \in Peers, OpenFresh(x)
  PROVE  [Transfer!Next]_(Transfer!vars)
<1> DEFINE y == Other(x)
           b == Packet(x).batch
           f == FileAt(y, b)
<1>1. inbox[x] # <<>> /\ alive[x] /\ Packet(x).type = "O"
  BY DEF OpenFresh, Transferring, Arrives, Packet
<1>2. y \in Peers /\ y # x /\ b \in Batches(y)
  BY <1>1, PacketFacts
<1>3. b \notin Begun(y) /\ Packet(x).name = Name[f]
  BY <1>1, OpenFacts
<1>4. <<>> \in Seq(Unit)
  BY EmptySeq
<1>5. /\ disk'[x] = [disk[x] EXCEPT ![Name[f]] = <<>>] /\ disk'[y] = disk[y]
      /\ reported' = reported
  BY <1>2, <1>3 DEF OpenFresh, Inv, RecvOK
<1>6. Copies' = [Copies EXCEPT ![f] = <<>>] /\ f \in Offered
  <2> DEFINE d == <<>>
  <2>1. /\ b \in Batches(Other(x)) /\ d \in Seq(Unit)
        /\ disk'[x] = [disk[x] EXCEPT ![Name[FileAt(Other(x), b)]] = d]
        /\ disk'[Other(x)] = disk[Other(x)]
    BY <1>2, <1>4, <1>5
  <2>2. f \in Offered
    BY <1>2, Ownership
  <2> HIDE DEF b, d, y, f
  <2>3. Copies' = [Copies EXCEPT ![FileAt(Other(x), b)] = d]
    BY <2>1, OneCopy
  <2> QED  BY <2>2, <2>3 DEF d, f, y
<1>7. f \notin Reports
  <2>1. SUFFICES ASSUME f \in Reports PROVE FALSE
    OBVIOUS
  <2>2. f \in reported[y]
    BY <1>2, <2>1, ReportedBy
  <2>3. PICK c \in 0 .. snd[y].batch - 1 : c \in Begun(y) /\ f = FileAt(y, c)
    BY <1>2, <2>2, ReportedOwn
  <2>4. c \in Batches(y) /\ c # b
    BY <1>3, <2>3 DEF Begun
  <2> QED  BY <1>2, <2>3, <2>4, FileFacts
<1>8. Reports' = Reports
  BY <1>5 DEF Reports
<1> HIDE DEF f
<1>9. Transfer!Begin(f)
  BY <1>6, <1>7, <1>8 DEF Transfer!Begin, Copies, Reports
<1> QED  BY <1>6, <1>9 DEF Transfer!Next

\* The expected block extends a copy.
LEMMA DataTransfers ==
  ASSUME Inv, Ends, Fresh, Apart, Delivery, NEW x \in Peers, DataExpected(x)
  PROVE  [Transfer!Next]_(Transfer!vars)
<1> DEFINE y == Other(x)
           m == Packet(x)
           b == m.batch
           f == FileAt(y, b)
           c == Content[f]
           e == rcv[x].expected
           k == e + 1
           n == Len(Front(c, k))
<1>1. inbox[x] # <<>> /\ alive[x] /\ m.type = "D" /\ m.block = e
  BY DEF DataExpected, Transferring, Arrives, Packet
<1>2. /\ y \in Peers /\ y # x /\ b \in Batches(y) /\ Other(y) = x
      /\ e * BlockSize < Len(c) /\ m.data = Chunk(c, e)
  BY <1>1, PacketFacts
<1>3. /\ rcv[x].fd = Name[f] /\ rcv[x].fd # None /\ e \in Nat
      /\ disk[x][rcv[x].fd] = Front(c, e)
  BY <1>1, DataFacts
<1>4. c \in Seq(Unit) /\ Name[f] \in Names
  BY <1>2, FileFacts
<1>5. /\ Front(c, e) \o Chunk(c, e) = Front(c, k) /\ Len(Front(c, e)) < n
      /\ k \in Nat
  <2>1. c \in Seq(Unit) /\ e \in Nat /\ e * BlockSize < Len(c)
    BY <1>2, <1>3, <1>4
  <2> HIDE DEF c, e
  <2> QED  BY <2>1, FrontNext
<1>6. /\ Front(c, e) \in Seq(Unit) /\ Front(c, k) \in Seq(Unit)
      /\ Front(c, e) = SubSeq(c, 1, Len(Front(c, e)))
      /\ Front(c, k) = SubSeq(c, 1, n) /\ n \in 0..Len(c) /\ Len(Front(c, e)) \in Nat
      /\ Front(c, e) # c
  <2>1. c \in Seq(Unit) /\ e \in Nat /\ k \in Nat /\ e * BlockSize < Len(c)
    BY <1>2, <1>3, <1>4, <1>5
  <2> HIDE DEF c, e, k
  <2>2. Front(c, e) # c
    BY <2>1, FrontWhole, Zenon
  <2>3. /\ Front(c, e) \in Seq(Unit) /\ Len(Front(c, e)) = Minimum(Len(c), e * BlockSize)
        /\ Minimum(Len(c), e * BlockSize) \in 0..Len(c)
    BY <2>1, FrontType, Zenon
  <2>4. /\ Front(c, k) \in Seq(Unit) /\ Len(Front(c, k)) = Minimum(Len(c), k * BlockSize)
        /\ Minimum(Len(c), k * BlockSize) \in 0..Len(c)
    BY <2>1, FrontType, Zenon
  <2>5. Len(c) \in Nat
    BY <2>1
  <2> HIDE DEF Minimum
  <2> QED  BY <2>2, <2>3, <2>4, <2>5 DEF Front
<1>7. /\ disk'[x] = [disk[x] EXCEPT ![Name[f]] = Front(c, k)] /\ disk'[y] = disk[y]
      /\ reported' = reported
  <2>1. disk' = [disk EXCEPT ![x][rcv[x].fd] = disk[x][rcv[x].fd] \o m.data]
    BY <1>3 DEF DataExpected
  <2>2. reported' = reported
    BY DEF DataExpected
  <2> HIDE DEF b, c, e, m, f, k, n, y
  <2> QED  BY <1>2, <1>3, <1>5, <2>1, <2>2 DEF Inv, RecvOK
<1>8. f \in Offered /\ Owner(f) = y
  BY <1>2, Ownership
<1>9. Copies' = [Copies EXCEPT ![f] = Front(c, k)]
  <2> DEFINE d == Front(c, k)
  <2>1. /\ b \in Batches(Other(x)) /\ d \in Seq(Unit)
        /\ disk'[x] = [disk[x] EXCEPT ![Name[FileAt(Other(x), b)]] = d]
        /\ disk'[Other(x)] = disk[Other(x)]
    BY <1>2, <1>6, <1>7
  <2> HIDE DEF b, d, y, f, m, c, e, k, n
  <2>2. Copies' = [Copies EXCEPT ![FileAt(Other(x), b)] = d]
    BY <2>1, OneCopy
  <2> QED  BY <2>2 DEF d, f, y
<1>10. Copies[f] = Front(c, e) /\ Front(c, e) # Absent
  <2>1. Copies[f] = Copy(y, f)
    BY <1>8 DEF Copies
  <2> HIDE DEF c, e, f
  <2> QED  BY <1>2, <1>3, <1>6, <2>1, FilesAssumption DEF Copy
<1>11. f \notin Reports
  <2>1. SUFFICES ASSUME f \in Reports PROVE FALSE
    OBVIOUS
  <2>2. f \in reported[y]
    BY <1>2, <2>1, ReportedBy
  <2>3. Copy(y, f) = c
    BY <1>2, <2>2, DeliveryWhole DEF Whole
  <2>4. Copy(y, f) = Front(c, e)
    BY <1>8, <1>10 DEF Copies
  <2> QED  BY <1>6, <2>3, <2>4
<1>12. Reports' = Reports
  BY <1>7 DEF Reports
<1>13. n \in Len(Front(c, e)) + 1 .. Len(c)
  <2> HIDE DEF n, c, e
  <2> QED  BY <1>4, <1>5, <1>6
<1>14. Transfer!Extend(f)
  <2>1. /\ f \notin Reports /\ Copies[f] # Absent /\ Reports' = Reports
        /\ n \in Len(Copies[f]) + 1 .. Len(Content[f])
        /\ Copies[f] = SubSeq(Content[f], 1, Len(Copies[f]))
        /\ Copies' = [Copies EXCEPT ![f] = SubSeq(Content[f], 1, n)]
    BY <1>6, <1>9, <1>10, <1>11, <1>12, <1>13, Zenon
  <2> HIDE DEF f, n
  <2> QED  BY <2>1 DEF Transfer!Extend, Copies, Reports
<1> HIDE DEF f
<1> QED  BY <1>8, <1>14 DEF Transfer!Next

\* A step that writes to no file and reports none is a stutter.
LEMMA QuietTransfers ==
  ASSUME disk' = disk, reported' = reported PROVE [Transfer!Next]_(Transfer!vars)
BY DEF Transfer!vars, Copy

\* A pump may report one file, which is whole by then.
LEMMA PumpTransfers ==
  ASSUME Inv, Fresh, Apart, Delivery, Whole', NEW x \in Peers, NEW resend \in BOOLEAN,
         PumpWith(x, resend)
  PROVE  [Transfer!Next]_(Transfer!vars)
<1> DEFINE s == snd[x]
           o == Opened(s)
           f == Filled(o)
           g == f.cur
<1>1. /\ s \in Senders /\ Books(x, s) /\ (s.cur # None \/ s.queue # <<>>)
  BY DEF PumpWith, Inv, SndOK, SenderAccounts
<1>2. /\ o \in Senders /\ Books(x, o) /\ o.cur # None /\ o.batch = s.batch
  BY <1>1, OpenedOK
<1>3. g = o.cur
  BY <1>2, FilledOK
<1>4. /\ disk' = disk
      /\ reported' = [reported EXCEPT ![x] = IF Finished(f) THEN reported[x] \cup {g} ELSE reported[x]]
  BY DEF PumpWith
<1> HIDE DEF f, o, g
<1>5. CASE ~Finished(f)
  <2>1. reported' = reported
    BY <1>4, <1>5 DEF Inv, StateOK
  <2> QED  BY <1>4, <2>1, QuietTransfers
<1>6. CASE Finished(f)
  <2>1. s.batch \in Batches(x) /\ g = FileAt(x, s.batch)
    <3>1. /\ s.batch + 1 + Len(o.queue) = Len(Queue[x]) /\ Len(o.queue) \in Nat
          /\ Len(Queue[x]) \in Nat /\ s.batch \in Nat
      BY <1>1, <1>2, FilesAssumption DEF Books, Senders
    <3>2. s.batch \in Batches(x)
      BY <3>1 DEF Batches
    <3>3. o.cur = Queue[x][s.batch + 1]
      BY <1>2 DEF Books
    <3> QED  BY <1>3, <3>2, <3>3 DEF FileAt
  <2>2. g \in Offered /\ Owner(g) = x
    BY <2>1, Ownership
  <2>3. reported'[x] = reported[x] \cup {g} /\ reported'[Other(x)] = reported[Other(x)]
    BY <1>4, <1>6, OtherPeer DEF Inv, StateOK
  <2>4. Copy(x, g) = Content[g]
    BY <1>4, <2>3 DEF Whole, Copy
  <2>5. Copies[g] = Content[g] /\ Copies' = Copies
    BY <1>4, <2>2, <2>4 DEF Copies, Copy
  <2>6. Reports' = Reports \cup {g}
    BY <2>2, <2>3 DEF Reports, Peers, Other
  <2>7. g \notin Reports
    <3>1. SUFFICES ASSUME g \in Reports PROVE FALSE
      OBVIOUS
    <3>2. g \in reported[x]
      BY <2>1, <3>1, ReportedBy
    <3>3. PICK c \in 0 .. s.batch - 1 : c \in Begun(x) /\ g = FileAt(x, c)
      BY <3>2, ReportedOwn
    <3>4. c \in Batches(x) /\ c # s.batch
      <4>1. s.batch \in Nat
        BY <1>1 DEF Senders
      <4> QED  BY <3>3, <4>1 DEF Begun
    <3> QED  BY <2>1, <3>3, <3>4, FileFacts
  <2>8. Transfer!Report(g)
    BY <2>5, <2>6, <2>7 DEF Transfer!Report, Copies, Reports
  <2> QED  BY <2>2, <2>8 DEF Transfer!Next
<1> QED  BY <1>5, <1>6

\* Every step of the session is a step of the transfer, or a stutter.
LEMMA NextTransfers ==
  ASSUME Inv, Ends, Fresh, Apart, Delivery, Whole', [Next]_vars
  PROVE  [Transfer!Next]_(Transfer!vars)
<1>1. ASSUME NEW x \in Peers, Pump(x) \/ Timeout(x) PROVE [Transfer!Next]_(Transfer!vars)
  BY <1>1, PumpTransfers DEF Pump, Timeout
<1>2. ASSUME NEW x \in Peers, Receive(x) PROVE [Transfer!Next]_(Transfer!vars)
  <2>1. CASE OpenFresh(x)
    BY <2>1, OpenTransfers
  <2>2. CASE DataExpected(x)
    BY <2>2, DataTransfers
  <2>3. CASE ~OpenFresh(x) /\ ~DataExpected(x)
    <3>1. disk' = disk /\ reported' = reported
      BY <1>2, <2>3 DEF Receive, Handshake, HandleAck, HandleNak, HandleSkip, HandleVerify,
         HandleOpen, OpenUnsafe, OpenSkip, OpenResume, DataUnexpected,
         HandleSeek, HandleClose, HandleDone, Ignore
    <3> QED  BY <3>1, QuietTransfers
  <2> QED  BY <2>1, <2>2, <2>3
<1>3. ASSUME NEW x \in Peers,
             Idle(x) \/ Ping(x) \/ AllSent(x) \/ Exit(x) \/ CarrierLost(x) \/ Lose(x)
      PROVE  [Transfer!Next]_(Transfer!vars)
  <2>1. disk' = disk /\ reported' = reported
    BY <1>3 DEF Idle, Ping, AllSent, Exit, CarrierLost, Lose
  <2> QED  BY <2>1, QuietTransfers
<1>4. CASE UNCHANGED vars
  BY <1>4, QuietTransfers DEF vars
<1>5. ~Reconnect
  BY DEF Reconnect, Fresh, Inv, StateOK
<1> QED  BY <1>1, <1>2, <1>3, <1>4, <1>5 DEF Next, Step, Terminated

\* FileTransfer starts from the same disks, with nothing reported.
LEMMA InitTransfers == ASSUME Init PROVE Transfer!Init
<1>1. reported[A] = {} /\ reported[B] = {} /\ disk = OnDisk
  BY DEF Init, Peers
<1> QED  BY <1>1 DEF Transfer!Init, Copy

\* There, the session implements FileTransfer: copies grow from the front, and a file is
\* reported once, when its copy is whole.
THEOREM SessionTransfers == ASSUME Fresh, Apart PROVE Spec => Transfer!Spec
<1>1. Init => Transfer!Init
  BY InitTransfers
<1>2. Inv /\ Ends /\ Delivery /\ Whole' /\ [Next]_vars => [Transfer!Next]_(Transfer!vars)
  BY NextTransfers
<1>3. Inv /\ Delivery => Whole
  BY DeliveryWhole
<1> QED  BY <1>1, <1>2, <1>3, DeliveryInvariance, PTL DEF Spec, Transfer!Spec

=============================================================================
