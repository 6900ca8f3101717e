------------------------- MODULE WSLinkDeliveryProofs -------------------------
(***************************************************************************)
(* Theorems of WSLink on what arrives, where the frames that are sent once *)
(* and never acknowledged get through: the files are delivered block by    *)
(* block, whichever await each task stands at when an answer comes; a      *)
(* reported one is whole and final; no wake-up is lost; and the session    *)
(* implements FileTransfer.                                                *)
(***************************************************************************)
EXTENDS WSLinkProofs

-----------------------------------------------------------------------------
(***************************************************************************)
(* One session between fresh directories, on a line that damages only what *)
(* the protocol acknowledges or asks for again.  K, V and S do not occur   *)
(* then: no file is skipped or resumed.                                    *)
(***************************************************************************)
CopyAt(p, b) == Copy(p, FileAt(p, b))

Fresh ==
  /\ MaxReconnects = 0 /\ Lossy \subseteq {"D", "A", "N"}
  /\ \A p \in Peers : \A b \in Batches(p) :
       /\ Content[FileAt(p, b)] # <<>> /\ Accepted(FileAt(p, b))
       /\ OnDisk[Other(p)][Name[FileAt(p, b)]] = Absent
       /\ \A c \in Batches(p) : c # b => Name[FileAt(p, c)] # Name[FileAt(p, b)]

\* How many files the sender has opened and reported, and whether it may still send blocks of
\* the last one.  OPEN is on its way before there is a current file, and CLOSE while there
\* still is one.
Count(place, s) == s.batch + (IF s.cur # None \/ place = "opening" THEN 1 ELSE 0)
Told(place, s) == s.batch + (IF place = "closing" THEN 1 ELSE 0)
Sends(place, s) == place = "opening" \/ (s.cur # None /\ place # "closing")

Begun(p) == {b \in Batches(p) : CopyAt(p, b) # Absent}     \* files the receiver opened

\* A receiver in INIT has the peer's RQ before it, and ignores nothing else.
Greeted(p) == state[Other(p)] = "INIT" => wire[p] # <<>> /\ Head(wire[p]) = RQ

Plain(p) ==
  /\ buf[p] = <<>> /\ receiving[p] # "verify"
  /\ \A i \in 1..Len(wire[p]) : wire[p][i].type \notin {"K", "V", "S"}

\* The receiver is at the last file it has begun, and has its first blocks.
Opener(p) ==
  LET r == rcv[Other(p)] IN
  /\ r.fd # None => r.batch \in Batches(p) /\ r.fd = Name[FileAt(p, r.batch)]
  /\ \A b \in Begun(p) : b <= r.batch
  /\ r.batch = 0 \/ r.batch < Count(sending[p], snd[p])
  /\ r.batch \in Begun(p) =>
       CopyAt(p, r.batch) = Front(Content[FileAt(p, r.batch)], r.expected)

Flow(p) ==
  LET r == rcv[Other(p)] IN
  Tidy(wire[p], Count(sending[p], snd[p]), Sends(sending[p], snd[p]), Begun(p), r.batch,
       r.fd # None)

\* The receiver has written block k of file b, or is past that file.
Held(p, b, k) ==
  b \in Begun(p) /\ (b = rcv[Other(p)].batch => k < rcv[Other(p)].expected)

\* What has left the window is held, and so is what an ACK on its way speaks of.
Earned(p, s) == s.cur # None => \A k \in (0 .. s.next - 1) \ s.unacked : Held(p, s.batch, k)
Vouched(p, w) == \A i \in 1..Len(w) : w[i].type = "A" => Held(p, w[i].batch, w[i].block)

\* The first n files are what is reported, and they are delivered.
Settled(p, n, files) ==
  /\ files = {Queue[p][i] : i \in 1..n}
  /\ \A b \in 0 .. n - 1 : b \in Begun(p) /\ CopyAt(p, b) = Content[FileAt(p, b)]

Course(p) ==
  /\ Opener(p) /\ Flow(p) /\ Earned(p, snd[p]) /\ Vouched(p, wire[Other(p)])
  /\ Settled(p, Told(sending[p], snd[p]), reported[p])

Delivery == \A p \in Peers : Greeted(p) /\ Plain(p) /\ Course(p)

\* A file of a queue, under Fresh.
LEMMA FileFacts ==
  ASSUME Fresh, NEW p \in Peers, NEW b \in Batches(p)
  PROVE  /\ FileAt(p, b) \in Files /\ Name[FileAt(p, b)] \in Names
         /\ Content[FileAt(p, b)] \in Seq(Unit) /\ Content[FileAt(p, b)] # <<>>
         /\ Content[FileAt(p, b)] # Absent /\ Accepted(FileAt(p, b))
         /\ b \in Nat /\ b + 1 \in 1..Len(Queue[p]) /\ b < Len(Queue[p])
         /\ \A c \in Batches(p) : c # b => Name[FileAt(p, c)] # Name[FileAt(p, b)]
<1>1. Len(Queue[p]) \in Nat /\ \A i \in 1..Len(Queue[p]) : Queue[p][i] \in Files
  BY FilesAssumption
<1>2. b \in Nat /\ b + 1 \in 1..Len(Queue[p]) /\ b < Len(Queue[p])
  BY <1>1 DEF Batches
<1>3. FileAt(p, b) \in Files
  BY <1>1, <1>2 DEF FileAt
<1>4. /\ Content[FileAt(p, b)] # <<>> /\ Accepted(FileAt(p, b))
      /\ \A c \in Batches(p) : c # b => Name[FileAt(p, c)] # Name[FileAt(p, b)]
  BY DEF Fresh
<1> QED  BY <1>2, <1>3, <1>4, FilesAssumption

\* The frames on a wire.
LEMMA WireType ==
  ASSUME Inv, NEW p \in Peers
  PROVE  wire[p] \in Seq(Wire(p)) /\ wire[p] \in Seq(Frames) /\ Wire(p) \subseteq Frames
BY DEF Inv, LinkOK, Wire

\* How far a sender is with its queue.
LEMMA CountFacts ==
  ASSUME Inv, NEW p \in Peers
  PROVE  LET s == snd[p]
             n == Count(sending[p], s) IN
         /\ s \in Senders /\ Books(p, s) /\ s.batch \in Nat /\ n \in Nat /\ n <= Len(Queue[p])
         /\ Told(sending[p], s) \in Nat /\ Told(sending[p], s) <= n
         /\ sending[p] # "closing" => Told(sending[p], s) = s.batch
         /\ s.cur # None => /\ n = s.batch + 1 /\ s.batch \in Batches(p)
                            /\ s.cur = FileAt(p, s.batch) /\ s.total = Blocks(s.cur)
         /\ sending[p] = "opening" => /\ n = s.batch + 1 /\ s.batch \in Batches(p)
                                      /\ s.cur = None
         /\ s.cur = None /\ sending[p] # "opening" => n = s.batch
         /\ s.next \in Nat /\ s.total \in Nat /\ s.unacked \in SUBSET Nat
<1> DEFINE s == snd[p]
           n == Count(sending[p], s)
<1>1. s \in Senders /\ Books(p, s) /\ Relies(sending[p], s)
  BY DEF Inv, SndOK
<1>2. s.batch \in Nat /\ Len(s.queue) \in Nat /\ Len(Queue[p]) \in Nat /\ s.queue \in Seq(Files)
  BY <1>1, FilesAssumption DEF Senders
<1>3. s.batch + (IF s.cur = None THEN 0 ELSE 1) + Len(s.queue) = Len(Queue[p])
  BY <1>1 DEF Books
<1>4. sending[p] = "opening" => s.cur = None /\ Len(s.queue) > 0
  BY <1>1, <1>2, EmptySeq DEF Relies
<1>5. sending[p] = "closing" => s.cur # None
  BY <1>1 DEF Relies
<1>6. s.cur # None \/ sending[p] = "opening" => n = s.batch + 1 /\ s.batch \in Batches(p)
  BY <1>2, <1>3, <1>4 DEF Count, Batches
<1>7. n \in Nat /\ n <= Len(Queue[p])
  BY <1>2, <1>3, <1>4 DEF Count
<1>8. Told(sending[p], s) \in Nat /\ Told(sending[p], s) <= n
  BY <1>2, <1>5 DEF Told, Count
<1>9. sending[p] # "closing" => Told(sending[p], s) = s.batch
  BY <1>2 DEF Told
<1>10. s.cur = None /\ sending[p] # "opening" => n = s.batch
  BY <1>2 DEF Count
<1>11. s.cur # None => s.cur = FileAt(p, s.batch) /\ s.total = Blocks(s.cur)
  BY <1>1 DEF Books, FileAt
<1>12. s.next \in Nat /\ s.total \in Nat /\ s.unacked \in SUBSET Nat
  BY <1>1 DEF Senders
<1> HIDE DEF n
<1>13. /\ s.cur # None => /\ n = s.batch + 1 /\ s.batch \in Batches(p)
                         /\ s.cur = FileAt(p, s.batch) /\ s.total = Blocks(s.cur)
       /\ sending[p] = "opening" => n = s.batch + 1 /\ s.batch \in Batches(p) /\ s.cur = None
  BY <1>4, <1>6, <1>11
<1> QED  BY <1>1, <1>2, <1>7, <1>8, <1>9, <1>10, <1>12, <1>13 DEF n

\* The receiver's side: types, and an open file is one that has been begun.
LEMMA BegunFacts ==
  ASSUME Inv, NEW p \in Peers, Opener(p)
  PROVE  LET r == rcv[Other(p)] IN
         /\ r.batch \in Nat /\ r.expected \in Nat
         /\ Begun(p) \subseteq Batches(p) /\ Begun(p) \in SUBSET Nat /\ \A b \in Begun(p) : b \in Nat
         /\ r.fd # None => r.batch \in Begun(p)
<1>1. Other(p) \in Peers /\ rcv[Other(p)] \in Receivers
  BY OtherPeer DEF Inv, RecvOK
<1>2. Begun(p) \subseteq Batches(p) /\ Begun(p) \subseteq Nat
  <2>1. Batches(p) \subseteq Nat
    BY DEF Batches
  <2> QED  BY <2>1 DEF Begun
<1>3. ASSUME rcv[Other(p)].fd # None PROVE rcv[Other(p)].batch \in Begun(p)
  <2>1. disk[Other(p)][rcv[Other(p)].fd] # Absent
    BY <1>1, <1>3 DEF Inv, RecvOK
  <2> QED  BY <1>3, <2>1 DEF Opener, Begun, CopyAt, Copy
<1> QED  BY <1>1, <1>2, <1>3 DEF Receivers

\* Nothing is known less if neither the receiver nor its directory changes.
LEMMA SameCopies ==
  ASSUME NEW p \in Peers, rcv'[Other(p)] = rcv[Other(p)], disk'[Other(p)] = disk[Other(p)]
  PROVE  /\ Begun(p)' = Begun(p)
         /\ \A b : CopyAt(p, b)' = CopyAt(p, b)
         /\ \A b, k : Held(p, b, k)' = Held(p, b, k)
<1>1. \A b : CopyAt(p, b)' = CopyAt(p, b)
  BY DEF CopyAt, Copy
<1>2. Begun(p)' = Begun(p)
  BY <1>1 DEF Begun
<1> QED  BY <1>1, <1>2 DEF Held

\* ACKs are added that are vouched for as well.
LEMMA VouchedMore ==
  ASSUME NEW S, NEW w \in Seq(S), NEW v \in Seq(S), NEW p, Vouched(p, w), Vouched(p, v)
  PROVE  Vouched(p, w \o v)
<1>1. SUFFICES ASSUME NEW i \in 1..Len(w \o v), (w \o v)[i].type = "A"
               PROVE  Held(p, (w \o v)[i].batch, (w \o v)[i].block)
  BY DEF Vouched
<1>2. Len(w) \in Nat /\ Len(v) \in Nat /\ Len(w \o v) = Len(w) + Len(v)
  BY Joined
<1>3. CASE i <= Len(w)
  <2>1. i \in 1..Len(w)
    BY <1>2, <1>3
  <2>2. (w \o v)[i] = w[i]
    BY <2>1, Joined
  <2> QED  BY <1>1, <2>1, <2>2 DEF Vouched
<1>4. CASE ~(i <= Len(w))
  <2>1. i - Len(w) \in 1..Len(v) /\ Len(w) + (i - Len(w)) = i
    BY <1>2, <1>4
  <2>2. (w \o v)[i] = v[i - Len(w)]
    BY <2>1, Joined
  <2> QED  BY <1>1, <2>1, <2>2 DEF Vouched
<1> QED  BY <1>3, <1>4

\* Reading keeps them vouched for.
LEMMA VouchedTail ==
  ASSUME NEW S, NEW w \in Seq(S), w # <<>>, NEW p, Vouched(p, w) PROVE Vouched(p, Tail(w))
BY Rest DEF Vouched

\* What a step of x has to respect for the files it sends: the peer's half is unmoved.
LEMMA OutgoingStep ==
  ASSUME Inv, Delivery, NEW x \in Peers, NEW frames \in Seq(Wire(x)),
         wire'[x] = wire[x] \o frames,
         \/ wire'[Other(x)] = wire[Other(x)]
         \/ wire[Other(x)] # <<>> /\ wire'[Other(x)] = Tail(wire[Other(x)]),
         rcv'[Other(x)] = rcv[Other(x)], disk'[Other(x)] = disk[Other(x)],
         NEW n \in Nat, n = Count(sending'[x], snd'[x]), Count(sending[x], snd[x]) <= n,
         Tidy(wire[x] \o frames, n, Sends(sending'[x], snd'[x]), Begun(x),
              rcv[Other(x)].batch, rcv[Other(x)].fd # None),
         Earned(x, snd'[x]), Settled(x, Told(sending'[x], snd'[x]), reported'[x])
  PROVE  Course(x)'
<1> DEFINE y == Other(x)
<1>1. y \in Peers /\ Other(y) = x /\ Course(x)
  BY OtherPeer DEF Delivery
<1>2. /\ Begun(x)' = Begun(x)
      /\ \A b : CopyAt(x, b)' = CopyAt(x, b)
      /\ \A b, k : Held(x, b, k)' = Held(x, b, k)
  BY SameCopies
<1>3. Opener(x)'
  <2>1. Opener(x) /\ rcv[y].batch \in Nat
    BY <1>1, BegunFacts DEF Course
  <2>2. Count(sending[x], snd[x]) \in Nat
    BY CountFacts
  <2>3. rcv[y].batch = 0 \/ rcv[y].batch < n
    BY <2>1, <2>2 DEF Opener
  <2>4. rcv[y].batch = 0 \/ rcv[y].batch < Count(sending'[x], snd'[x])
    BY <2>3
  <2> QED  BY <1>2, <2>1, <2>4 DEF Opener, Count
<1>4. Flow(x)'
  BY <1>2 DEF Flow, Count, Sends
<1>5. Earned(x, snd[x])'
  BY <1>2 DEF Earned
<1>6. Vouched(x, wire[y])'
  <2>1. Vouched(x, wire[y]) /\ wire[y] \in Seq(Wire(y))
    BY <1>1, WireType DEF Course
  <2>2. wire[y] # <<>> => Vouched(x, Tail(wire[y]))
    BY <2>1, VouchedTail
  <2>3. Vouched(x, wire'[y])
    BY <2>1, <2>2
  <2> QED  BY <1>2, <2>3 DEF Vouched, Held
<1>7. Settled(x, Told(sending[x], snd[x]), reported[x])'
  BY <1>2 DEF Settled, Told
<1> QED  BY <1>1, <1>3, <1>4, <1>5, <1>6, <1>7 DEF Course, y

\* The other half of a step of x that opens, writes and closes no file: what the peer
\* sends to it may lose a frame in front, no OPEN, and what x answers is vouched for.
LEMMA IncomingPass ==
  ASSUME Inv, Delivery, NEW x \in Peers, NEW frames \in Seq(Wire(x)),
         wire'[x] = wire[x] \o frames, Vouched(Other(x), frames),
         \/ wire'[Other(x)] = wire[Other(x)]
         \/ /\ wire[Other(x)] # <<>> /\ Head(wire[Other(x)]).type # "O"
            /\ wire'[Other(x)] = Tail(wire[Other(x)]),
         rcv'[x] = rcv[x], disk'[x] = disk[x], sending'[Other(x)] = sending[Other(x)],
         snd'[Other(x)] = snd[Other(x)], reported'[Other(x)] = reported[Other(x)]
  PROVE  Course(Other(x))'
<1> DEFINE y == Other(x)
<1>1. y \in Peers /\ Other(y) = x /\ Course(y)
  BY OtherPeer DEF Delivery
<1>2. /\ Begun(y)' = Begun(y)
      /\ \A b : CopyAt(y, b)' = CopyAt(y, b)
      /\ \A b, k : Held(y, b, k)' = Held(y, b, k)
  BY <1>1, SameCopies
<1>3. Opener(y)'
  BY <1>1, <1>2 DEF Course, Opener, Count
<1>4. Flow(y)'
  <2> DEFINE n == Count(sending[y], snd[y])
             cur == Sends(sending[y], snd[y])
  <2>1. Tidy(wire[y], n, cur, Begun(y), rcv[x].batch, rcv[x].fd # None)
    BY <1>1 DEF Course, Flow
  <2>2. wire[y] \in Seq(Frames)
    BY <1>1, WireType
  <2> HIDE DEF n, cur
  <2>3. wire[y] # <<>> /\ Head(wire[y]).type # "O" =>
          Tidy(Tail(wire[y]), n, cur, Begun(y), rcv[x].batch, rcv[x].fd # None)
    BY <2>1, <2>2, TidyTail
  <2>4. Tidy(wire'[y], n, cur, Begun(y), rcv[x].batch, rcv[x].fd # None)
    BY <2>1, <2>3
  <2> QED  BY <1>1, <1>2, <2>4 DEF Flow, Count, Sends, n, cur
<1>5. Earned(y, snd[y])'
  BY <1>1, <1>2 DEF Course, Earned
<1>6. Vouched(y, wire[x])'
  <2>1. Vouched(y, wire[x]) /\ wire[x] \in Seq(Wire(x))
    BY <1>1, WireType DEF Course
  <2>2. Vouched(y, wire[x] \o frames)
    BY <2>1, VouchedMore
  <2>3. Vouched(y, wire'[x])
    BY <2>2
  <2> QED  BY <1>1, <1>2, <2>3 DEF Vouched, Held
<1>7. Settled(y, Told(sending[y], snd[y]), reported[y])'
  BY <1>1, <1>2 DEF Course, Settled, Told
<1> QED  BY <1>1, <1>3, <1>4, <1>5, <1>6, <1>7 DEF Course, y

\* A step of x that writes to its copy of file b of the peer, and to no other.
LEMMA Written ==
  ASSUME Inv, Fresh, NEW x \in Peers, NEW b \in Batches(Other(x)), NEW c \in Seq(Unit),
         disk'[x] = [disk[x] EXCEPT ![Name[FileAt(Other(x), b)]] = c]
  PROVE  /\ CopyAt(Other(x), b)' = c
         /\ \A d \in Batches(Other(x)) : d # b => CopyAt(Other(x), d)' = CopyAt(Other(x), d)
         /\ Begun(Other(x))' = Begun(Other(x)) \cup {b}
<1> DEFINE y == Other(x)
<1>1. y \in Peers /\ Other(y) = x
  BY OtherPeer
<1>2. /\ disk[x] \in [Names -> Seq(Unit) \cup {Absent}] /\ c # Absent
      /\ \A d \in Batches(y) : Name[FileAt(y, d)] \in Names
      /\ \A d \in Batches(y) : d # b => Name[FileAt(y, d)] # Name[FileAt(y, b)]
  BY <1>1, FileFacts, FilesAssumption DEF Inv, RecvOK
<1>3. CopyAt(y, b)' = c
  BY <1>1, <1>2 DEF CopyAt, Copy
<1>4. ASSUME NEW d \in Batches(y), d # b PROVE CopyAt(y, d)' = CopyAt(y, d)
  BY <1>1, <1>2, <1>4 DEF CopyAt, Copy
<1>5. Begun(y)' = Begun(y) \cup {b}
  BY <1>2, <1>3, <1>4 DEF Begun
<1> QED  BY <1>3, <1>4, <1>5

\* Such a step keeps the course of the file transfer, if it leaves the first blocks of
\* a file that is the last one begun and not yet closed.
LEMMA IncomingWrite ==
  ASSUME Inv, Fresh, Delivery, NEW x \in Peers, NEW frames \in Seq(Wire(x)),
         NEW b \in Batches(Other(x)), rcv'[x].batch = b, rcv'[x].expected \in Nat,
         rcv'[x].fd = Name[FileAt(Other(x), b)],
         disk'[x] = [disk[x] EXCEPT ![Name[FileAt(Other(x), b)]] =
                       Front(Content[FileAt(Other(x), b)], rcv'[x].expected)],
         b < Count(sending[Other(x)], snd[Other(x)]),
         ~(b < Told(sending[Other(x)], snd[Other(x)])),
         \A d \in Begun(Other(x)) :
           d < b \/ (d = b /\ b = rcv[x].batch /\ rcv[x].expected <= rcv'[x].expected),
         Tidy(wire'[Other(x)], Count(sending[Other(x)], snd[Other(x)]),
              Sends(sending[Other(x)], snd[Other(x)]), Begun(Other(x)) \cup {b}, b, TRUE),
         wire'[x] = wire[x] \o frames,
         \A i \in 1..Len(frames) : frames[i].type = "A" =>
           frames[i].batch = b /\ frames[i].block < rcv'[x].expected,
         sending'[Other(x)] = sending[Other(x)], snd'[Other(x)] = snd[Other(x)],
         reported'[Other(x)] = reported[Other(x)]
  PROVE  Course(Other(x))'
<1> DEFINE y == Other(x)
           n == Count(sending[y], snd[y])
           told == Told(sending[y], snd[y])
           e == rcv'[x].expected
           c == Front(Content[FileAt(y, b)], e)
<1>0. c \in Seq(Unit)
  <2>1. Content[FileAt(y, b)] \in Seq(Unit)
    BY OtherPeer, FileFacts
  <2> QED  BY <2>1, FrontType
<1>1. /\ y \in Peers /\ Other(y) = x /\ Course(y)
      /\ disk'[x] = [disk[x] EXCEPT ![Name[FileAt(Other(x), b)]] = c]
  BY OtherPeer DEF Delivery
<1> HIDE DEF c
<1>2. /\ CopyAt(y, b)' = c
      /\ \A d \in Batches(y) : d # b => CopyAt(y, d)' = CopyAt(y, d)
      /\ Begun(y)' = Begun(y) \cup {b}
  <2>1. /\ CopyAt(Other(x), b)' = c
        /\ \A d \in Batches(Other(x)) : d # b => CopyAt(Other(x), d)' = CopyAt(Other(x), d)
        /\ Begun(Other(x))' = Begun(Other(x)) \cup {b}
    BY <1>0, <1>1, Written
  <2> QED  BY <2>1
<1>3. /\ b \in Nat /\ Begun(y) \subseteq Batches(y) /\ \A d \in Begun(y) : d \in Nat
      /\ rcv[x].batch \in Nat /\ rcv[x].expected \in Nat
  BY <1>1, BegunFacts, FileFacts DEF Course
<1>4. /\ rcv'[x].fd = Name[FileAt(y, b)] /\ rcv'[x].batch = b /\ rcv'[x].expected = e
      /\ e \in Nat /\ c = Front(Content[FileAt(y, b)], e)
  BY DEF c
<1> HIDE DEF e
<1>5. ASSUME NEW d, NEW k \in Nat, Held(y, d, k)
      PROVE  d \in Begun(y)' /\ (d = rcv'[x].batch => k < rcv'[x].expected)
  <2>1. d \in Begun(y) /\ (d = rcv[x].batch => k < rcv[x].expected)
    BY <1>1, <1>5 DEF Held
  <2>2. CASE d < b
    BY <1>2, <1>3, <1>4, <2>1, <2>2
  <2>3. CASE d = b /\ b = rcv[x].batch /\ rcv[x].expected <= e
    BY <1>2, <1>3, <1>4, <2>1, <2>3
  <2> QED  BY <1>4, <2>1, <2>2, <2>3
<1>6. Opener(y)'
  <2>1. \A d \in Begun(y)' : d <= b
    BY <1>2, <1>3
  <2> QED  BY <1>1, <1>2, <1>4, <2>1 DEF Opener, Count
<1>7. Flow(y)'
  <2>1. (rcv'[x].fd # None) = TRUE
    <3>1. Name[FileAt(y, b)] \in Names /\ None \notin Names
      BY <1>1, FileFacts, FilesAssumption
    <3> QED  BY <1>4, <3>1
  <2> QED  BY <1>1, <1>2, <1>4, <2>1 DEF Flow, Count, Sends
<1>8. Earned(y, snd[y])'
  <2>1. SUFFICES ASSUME snd[y].cur # None, NEW k \in (0 .. snd[y].next - 1) \ snd[y].unacked
                 PROVE  snd[y].batch \in Begun(y)' /\ (snd[y].batch = rcv'[x].batch => k < rcv'[x].expected)
    BY <1>1 DEF Earned, Held
  <2>2. Held(y, snd[y].batch, k) /\ k \in Nat
    BY <1>1, <2>1 DEF Course, Earned
  <2> QED  BY <1>5, <2>2
<1>9. Vouched(y, wire[x])'
  <2> DEFINE w == wire[x]
  <2>1. Vouched(y, w) /\ w \in Seq(Wire(x))
    BY <1>1, WireType DEF Course
  <2> HIDE DEF w
  <2>2. /\ Len(w) \in Nat /\ Len(frames) \in Nat /\ Len(w \o frames) = Len(w) + Len(frames)
        /\ \A i \in 1..Len(w) : (w \o frames)[i] = w[i] /\ w[i] \in Wire(x)
        /\ \A i \in 1..Len(frames) : (w \o frames)[Len(w) + i] = frames[i]
    BY <2>1, Joined, ElementOfSeq
  <2>3. ASSUME NEW i \in 1..Len(w \o frames), (w \o frames)[i].type = "A"
        PROVE  /\ (w \o frames)[i].batch \in Begun(y)'
               /\ (w \o frames)[i].batch = rcv'[x].batch =>
                    (w \o frames)[i].block < rcv'[x].expected
    <3>1. CASE i \in 1..Len(w)
      <4>1. (w \o frames)[i] = w[i] /\ w[i].type = "A" /\ w[i] \in Frames
        BY <2>2, <2>3, <3>1 DEF Wire
      <4>2. w[i].block \in Nat
        BY <4>1, FrameFields
      <4>3. Held(y, w[i].batch, w[i].block)
        BY <2>1, <3>1, <4>1 DEF Vouched
      <4> QED  BY <1>5, <4>1, <4>2, <4>3
    <3>2. CASE i \notin 1..Len(w)
      <4>1. i - Len(w) \in 1..Len(frames) /\ Len(w) + (i - Len(w)) = i
        BY <2>2, <3>2
      <4>2. (w \o frames)[i] = frames[i - Len(w)]
        BY <2>2, <4>1
      <4> QED  BY <1>2, <1>4, <2>3, <4>1, <4>2
    <3> QED  BY <3>1, <3>2
  <2>4. wire'[x] = w \o frames
    BY DEF w
  <2> QED  BY <1>1, <2>3, <2>4 DEF Vouched, Held
<1>10. Settled(y, Told(sending[y], snd[y]), reported[y])'
  <2>1. Settled(y, told, reported[y]) /\ told \in Nat
    BY <1>1, CountFacts DEF Course
  <2>2. ASSUME NEW d \in 0 .. told - 1
        PROVE  d \in Begun(y)' /\ CopyAt(y, d)' = Content[FileAt(y, d)]
    <3>1. d \in Begun(y) /\ CopyAt(y, d) = Content[FileAt(y, d)]
      BY <2>1 DEF Settled
    <3>2. d # b
      BY <1>3, <2>1
    <3> QED  BY <1>2, <1>3, <3>1, <3>2
  <2> QED  BY <2>1, <2>2 DEF Settled, Told
<1> QED  BY <1>1, <1>6, <1>7, <1>8, <1>9, <1>10 DEF Course, y

\* A step of x that takes a CLOSE.
LEMMA IncomingClose ==
  ASSUME Inv, Delivery, NEW x \in Peers,
         rcv'[x].fd = None, rcv'[x].batch = rcv[x].batch, rcv'[x].expected = rcv[x].expected,
         disk'[x] = disk[x], wire'[x] = wire[x],
         wire[Other(x)] # <<>>, Head(wire[Other(x)]).type = "C",
         wire'[Other(x)] = Tail(wire[Other(x)]), sending'[Other(x)] = sending[Other(x)],
         snd'[Other(x)] = snd[Other(x)], reported'[Other(x)] = reported[Other(x)]
  PROVE  Course(Other(x))'
<1> DEFINE y == Other(x)
<1>1. y \in Peers /\ Other(y) = x /\ Course(y)
  BY OtherPeer DEF Delivery
<1>2. /\ Begun(y)' = Begun(y)
      /\ \A b : CopyAt(y, b)' = CopyAt(y, b)
  BY <1>1 DEF Begun, CopyAt, Copy
<1>3. Opener(y)'
  BY <1>1, <1>2 DEF Course, Opener, Count
<1>4. Flow(y)'
  <2> DEFINE n == Count(sending[y], snd[y])
             cur == Sends(sending[y], snd[y])
  <2>1. Tidy(wire[y], n, cur, Begun(y), rcv[x].batch, rcv[x].fd # None)
    BY <1>1 DEF Course, Flow
  <2>2. wire[y] \in Seq(Frames)
    BY <1>1, WireType
  <2> HIDE DEF n, cur
  <2>3. Tidy(wire'[y], n, cur, Begun(y), rcv[x].batch, FALSE)
    BY <2>1, <2>2, TidyClose
  <2>4. (rcv'[x].fd # None) = FALSE
    OBVIOUS
  <2> QED  BY <1>1, <1>2, <2>3, <2>4 DEF Flow, Count, Sends, n, cur
<1>5. Earned(y, snd[y])'
  BY <1>1, <1>2 DEF Course, Earned, Held
<1>6. Vouched(y, wire[x])'
  BY <1>1, <1>2 DEF Course, Vouched, Held
<1>7. Settled(y, Told(sending[y], snd[y]), reported[y])'
  BY <1>1, <1>2 DEF Course, Settled, Told
<1> QED  BY <1>1, <1>3, <1>4, <1>5, <1>6, <1>7 DEF Course, y

\* A step that moves nothing of what concerns the files of p.
LEMMA SameCourse ==
  ASSUME NEW p \in Peers, Course(p),
         wire'[p] = wire[p], wire'[Other(p)] = wire[Other(p)],
         rcv'[Other(p)] = rcv[Other(p)], disk'[Other(p)] = disk[Other(p)],
         sending'[p] = sending[p], snd'[p] = snd[p], reported'[p] = reported[p]
  PROVE  Course(p)'
<1>1. /\ Begun(p)' = Begun(p)
      /\ \A b : CopyAt(p, b)' = CopyAt(p, b)
      /\ \A b, k : Held(p, b, k)' = Held(p, b, k)
  BY SameCopies
<1>2. Opener(p)'
  BY <1>1 DEF Course, Opener, Count
<1>3. Settled(p, Told(sending[p], snd[p]), reported[p])'
  BY <1>1 DEF Course, Settled, Told
<1>4. Flow(p)'
  BY <1>1 DEF Course, Flow, Count, Sends
<1>5. Earned(p, snd[p])'
  BY <1>1 DEF Course, Earned
<1>6. Vouched(p, wire[Other(p)])'
  BY <1>1 DEF Course, Vouched, Held
<1> QED  BY <1>2, <1>3, <1>4, <1>5, <1>6 DEF Course

-----------------------------------------------------------------------------
(***************************************************************************)
(* What a handler meets under Fresh.                                       *)
(***************************************************************************)
\* x takes the frame at the head of the peer's link and writes frames to its own.
Taking(x, frames) ==
  /\ wire[Other(x)] # <<>> /\ wire'[Other(x)] = Tail(wire[Other(x)])
  /\ wire'[x] = wire[x] \o frames

\* Handlers with an answer and handlers without one do that.
LEMMA TakingAnswer ==
  ASSUME Inv, NEW x \in Peers, wire[Other(x)] # <<>>, NEW frames \in Seq(Wire(x)),
         wire' = [wire EXCEPT ![Other(x)] = Tail(@), ![x] = @ \o frames]
  PROVE  Taking(x, frames)
<1> DEFINE y == Other(x)
           t == Tail(wire[y])
           w == wire[x] \o frames
<1>1. y \in Peers /\ y # x
  BY OtherPeer
<1>2. wire' = [wire EXCEPT ![y] = t, ![x] = w]
  BY <1>1 DEF Inv, LinkOK
<1> HIDE DEF t, w, y
<1>3. wire'[y] = t /\ wire'[x] = w
  BY <1>1, <1>2 DEF Inv, LinkOK
<1> QED  BY <1>3 DEF Taking, t, w, y

LEMMA TakingSilently ==
  ASSUME Inv, NEW x \in Peers, wire[Other(x)] # <<>>, NoAnswer(x)
  PROVE  Taking(x, <<>>) /\ wire'[x] = wire[x] /\ <<>> \in Seq(Wire(x)) /\ buf' = buf
         /\ receiving' = receiving
<1>1. Other(x) \in Peers /\ Other(x) # x
  BY OtherPeer
<1>2. wire' = [wire EXCEPT ![Other(x)] = Tail(@)] /\ buf' = buf /\ receiving' = receiving
  BY DEF NoAnswer
<1>3. wire'[x] = wire[x] /\ wire'[Other(x)] = Tail(wire[Other(x)])
  BY <1>1, <1>2 DEF Inv, LinkOK
<1>4. wire[x] \o <<>> = wire[x] /\ <<>> \in Seq(Wire(x))
  <2>1. wire[x] \in Seq(Wire(x))
    BY WireType
  <2> QED  BY <2>1, ConcatEmptySeq, EmptySeq
<1> QED  BY <1>2, <1>3, <1>4 DEF Taking

\* The frame at the head of the link is one the peer wrote, of a file of its queue.
LEMMA PacketFacts ==
  ASSUME Inv, Fresh, Delivery, NEW x \in Peers, wire[Other(x)] # <<>>
  PROVE  LET y == Other(x)
             m == Packet(x) IN
         /\ y \in Peers /\ Other(y) = x /\ y # x
         /\ Head(wire[y]) = m /\ m \in Frames /\ 1 \in 1..Len(wire[y]) /\ m = wire[y][1]
         /\ m.type \notin {"K", "V", "S"}
         /\ m.type = "O" => m.batch \in Batches(y) /\ m = Open(FileAt(y, m.batch), m.batch)
         /\ m.type = "D" => /\ m.batch \in Batches(y) /\ m.block \in Nat
                            /\ m.block * BlockSize < Len(Content[FileAt(y, m.batch)])
                            /\ m.data = Chunk(Content[FileAt(y, m.batch)], m.block)
<1> DEFINE y == Other(x)
           m == Packet(x)
<1>1. y \in Peers /\ Other(y) = x /\ y # x
  BY OtherPeer
<1>2. Head(wire[y]) = m /\ wire[y] \in Seq(Wire(y))
  BY <1>1, WireType DEF Packet
<1> HIDE DEF m, y
<1>3. wire[y] # <<>>
  BY DEF y
<1>4. 1 \in 1..Len(wire[y]) /\ m = wire[y][1] /\ m \in Wire(y)
  BY <1>2, <1>3, Rest, HeadTailProperties
<1>5. m \in Frames /\ Genuine(y, m) /\ m.type \notin {"K", "V", "S"}
  BY <1>1, <1>4 DEF Wire, Delivery, Plain
<1>6. m.type \in {"O", "D"} => m.batch \in Batches(y)
  <2>1. Len(Queue[y]) \in Nat
    BY <1>1, FilesAssumption
  <2>2. m.type \in {"O", "D"} => m.batch \in Nat /\ m.batch < Len(Queue[y])
    BY <1>5, FrameFields DEF Genuine
  <2> QED  BY <2>1, <2>2 DEF Batches
<1>7. m.type = "O" => m = Open(FileAt(y, m.batch), m.batch)
  BY <1>5 DEF Genuine, FileAt
<1>8. ASSUME m.type = "D"
      PROVE  /\ m.block \in Nat /\ m.block * BlockSize < Len(Content[FileAt(y, m.batch)])
             /\ m.data = Chunk(Content[FileAt(y, m.batch)], m.block)
  <2>1. m.block \in Nat /\ m.block < Blocks(FileAt(y, m.batch))
    BY <1>5, <1>8, FrameFields DEF Genuine, FileAt
  <2>2. m.data = Chunk(Content[FileAt(y, m.batch)], m.block)
    BY <1>5, <1>8 DEF Genuine, FileAt, Data
  <2>3. FileAt(y, m.batch) \in Files
    BY <1>1, <1>6, <1>8, FileFacts
  <2> QED  BY <2>1, <2>2, <2>3, BlockCount
<1> QED  BY <1>1, <1>2, <1>4, <1>5, <1>6, <1>7, <1>8 DEF m, y

\* Every OPEN finds a file that is not there; the file is created, and is the last begun.
LEMMA OpenFacts ==
  ASSUME Inv, Fresh, Delivery, NEW x \in Peers, wire[Other(x)] # <<>>, Packet(x).type = "O"
  PROVE  LET y == Other(x)
             b == Packet(x).batch IN
         /\ b \notin Begun(y) /\ disk[x][Packet(x).name] = Absent
         /\ Packet(x).name \notin Unsafe /\ Packet(x).name = Name[FileAt(y, b)]
         /\ b < Count(sending[y], snd[y]) /\ \A c \in Begun(y) : c < b
         /\ Tidy(Tail(wire[y]), Count(sending[y], snd[y]), Sends(sending[y], snd[y]),
                 Begun(y) \cup {b}, b, TRUE)
<1> DEFINE y == Other(x)
           b == Packet(x).batch
<1>1. /\ y \in Peers /\ Other(y) = x /\ Head(wire[y]) = Packet(x)
      /\ b \in Batches(y) /\ Packet(x) = Open(FileAt(y, b), b)
  BY PacketFacts
<1>2. Course(y) /\ wire[y] \in Seq(Frames) /\ Count(sending[y], snd[y]) \in Nat
  BY <1>1, WireType, CountFacts DEF Delivery
<1>3. /\ rcv[x].batch \in Nat /\ Begun(y) \in SUBSET Nat
      /\ rcv[x].fd # None => rcv[x].batch \in Begun(y)
  BY <1>1, <1>2, BegunFacts DEF Course
<1>4. Tidy(wire[y], Count(sending[y], snd[y]), Sends(sending[y], snd[y]), Begun(y),
           rcv[x].batch, rcv[x].fd # None)
  BY <1>1, <1>2 DEF Course, Flow
<1>5. /\ b \notin Begun(y) /\ b < Count(sending[y], snd[y]) /\ \A c \in Begun(y) : c < b
      /\ Tidy(Tail(wire[y]), Count(sending[y], snd[y]), Sends(sending[y], snd[y]),
              Begun(y) \cup {b}, b, TRUE)
  <2> DEFINE w == wire[y]
             n == Count(sending[y], snd[y])
             cur == Sends(sending[y], snd[y])
             begun == Begun(y)
             rb == rcv[x].batch
             open == rcv[x].fd # None
  <2>1. /\ w \in Seq(Frames) /\ w # <<>> /\ Head(w).type = "O" /\ n \in Nat
        /\ begun \in SUBSET Nat /\ rb \in Nat /\ (open => rb \in begun)
        /\ Tidy(w, n, cur, begun, rb, open) /\ Head(w).batch = b
    BY <1>1, <1>2, <1>3, <1>4
  <2> HIDE DEF w, n, cur, begun, rb, open, b, y
  <2>2. /\ b \notin begun /\ b < n /\ (\A c \in begun : c < b)
        /\ Tidy(Tail(w), n, cur, begun \cup {b}, b, TRUE)
    BY <2>1, TidyOpen
  <2> QED  BY <2>2 DEF w, n, cur, begun, rb, open
<1>6. Packet(x).name = Name[FileAt(y, b)] /\ Packet(x).name \notin Unsafe
  BY <1>1, FileFacts DEF Open, Accepted
<1>7. disk[x][Packet(x).name] = Absent
  BY <1>1, <1>5, <1>6 DEF Begun, CopyAt, Copy
<1> QED  BY <1>5, <1>6, <1>7

\* Every block finds its file open.
LEMMA DataFacts ==
  ASSUME Inv, Fresh, Delivery, NEW x \in Peers, wire[Other(x)] # <<>>, Packet(x).type = "D"
  PROVE  LET y == Other(x) IN
         /\ Packet(x).batch = rcv[x].batch /\ rcv[x].fd = Name[FileAt(y, rcv[x].batch)]
         /\ rcv[x].batch \in Begun(y) /\ rcv[x].batch \in Batches(y) /\ rcv[x].expected \in Nat
         /\ rcv[x].fd # None
         /\ disk[x][rcv[x].fd] = Front(Content[FileAt(y, rcv[x].batch)], rcv[x].expected)
<1> DEFINE y == Other(x)
<1>1. /\ y \in Peers /\ Other(y) = x
      /\ 1 \in 1..Len(wire[y]) /\ wire[y][1] = Packet(x)
  BY PacketFacts
<1>2. Course(y)
  BY <1>1 DEF Delivery
<1>3. rcv[x].fd # None /\ Packet(x).batch = rcv[x].batch
  BY <1>1, <1>2 DEF Course, Flow, Tidy, Reaches
<1>4. /\ rcv[x].batch \in Begun(y) /\ Begun(y) \subseteq Batches(y) /\ rcv[x].expected \in Nat
  BY <1>1, <1>2, <1>3, BegunFacts DEF Course
<1>5. rcv[x].fd = Name[FileAt(y, rcv[x].batch)]
  BY <1>1, <1>2, <1>3 DEF Course, Opener
<1>6. disk[x][rcv[x].fd] = Front(Content[FileAt(y, rcv[x].batch)], rcv[x].expected)
  BY <1>1, <1>2, <1>4, <1>5 DEF Course, Opener, CopyAt, Copy
<1> QED  BY <1>3, <1>4, <1>5, <1>6

\* A block in the window is one of the current file, which may still send blocks.
LEMMA WindowFrame ==
  ASSUME Inv, NEW x \in Peers, NEW k \in snd[x].unacked
  PROVE  LET s == snd[x]
             m == Data(s.cur, s.batch, k) IN
         /\ m \in Wire(x) /\ m.type = "D" /\ m.batch = Count(sending[x], s) - 1
         /\ Sends(sending[x], s) /\ s.cur # None
<1> DEFINE s == snd[x]
           m == Data(s.cur, s.batch, k)
<1>1. /\ s \in Senders /\ Books(x, s) /\ Relies(sending[x], s)
  BY DEF Inv, SndOK
<1>2. s.cur # None /\ sending[x] # "closing" /\ k \in Nat /\ k < s.total
  BY <1>1 DEF Books, Relies, Senders
<1>3. /\ Count(sending[x], s) = s.batch + 1 /\ s.batch \in Batches(x) /\ s.batch \in Nat
      /\ s.cur = FileAt(x, s.batch) /\ s.total = Blocks(s.cur)
  BY <1>2, CountFacts
<1>4. s.batch < Len(Queue[x]) /\ s.cur = Queue[x][s.batch + 1]
  <2>1. Len(Queue[x]) \in Nat
    BY FilesAssumption
  <2> QED  BY <1>3, <2>1 DEF Batches, FileAt
<1>5. m \in Wire(x)
  BY <1>2, <1>3, <1>4, FileFrames
<1>6. m.type = "D" /\ m.batch = Count(sending[x], s) - 1
  BY <1>3 DEF Data
<1> QED  BY <1>2, <1>5, <1>6 DEF Sends

\* What x writes while it takes a packet: an ACK or a NAK, or a block of its own window.
Answers(x, frames) ==
  /\ Taking(x, frames) /\ buf' = buf
  /\ \A i \in 1..Len(frames) :
       \/ frames[i].type = "N"
       \/ /\ frames[i].type = "A" /\ Packet(x).type = "D"
          /\ frames[i].batch = rcv[x].batch /\ frames[i].block = Packet(x).block
          /\ Packet(x).block <= rcv[x].expected
       \/ /\ frames[i].type = "D" /\ Sends(sending[x], snd[x])
          /\ frames[i].batch = Count(sending[x], snd[x]) - 1

\* Every handler but the ones that Fresh excludes.
LEMMA ReceiveAnswers ==
  ASSUME Inv, Fresh, Delivery, NEW x \in Peers, RecvTask(x) \/ Lose(x), ~Answered(x)
  PROVE  /\ ~HandleSkip(x) /\ ~HandleVerify(x) /\ ~HandleSeek(x) /\ ~VerifySent(x)
         /\ HandleOpen(x) => OpenFresh(x)
         /\ \E frames \in Seq(Wire(x)) : Answers(x, frames)
         /\ receiving'[x] \in {receiving[x], "reply"}
         /\ receiving'[Other(x)] = receiving[Other(x)]
<1>1. ~VerifySent(x)
  BY DEF VerifySent, Delivery, Plain
<1>2. wire[Other(x)] # <<>>
  BY <1>1 DEF RecvTask, Handshake, HandleAck, HandleNak, HandleSkip, HandleVerify, HandleOpen,
     OpenUnsafe, OpenSkip, OpenResume, OpenFresh, DataExpected, DataUnexpected, HandleSeek,
     HandleClose, Ignore, Lose, Transferring, Arrives
<1>3. Packet(x).type \notin {"K", "V", "S"} /\ Other(x) \in Peers /\ Other(x) # x
  BY <1>2, PacketFacts
<1>4. ~HandleSkip(x) /\ ~HandleVerify(x) /\ ~HandleSeek(x)
  BY <1>3 DEF HandleSkip, HandleVerify, HandleSeek, Transferring, Arrives
<1>5. ASSUME HandleOpen(x) PROVE OpenFresh(x)
  <2>1. Packet(x).type = "O"
    BY <1>5 DEF HandleOpen, OpenUnsafe, OpenSkip, OpenResume, OpenFresh, Transferring, Arrives
  <2>2. Packet(x).name \notin Unsafe /\ Existing(x) = Absent
    BY <1>2, <2>1, OpenFacts DEF Existing
  <2> QED  BY <1>5, <2>2 DEF HandleOpen, OpenUnsafe, OpenSkip, OpenResume, SameSize, Resumable
<1>6. CASE \/ Handshake(x) \/ HandleAck(x) \/ OpenFresh(x) \/ HandleClose(x) \/ Ignore(x)
           \/ Lose(x)
  <2>1. NoAnswer(x)
    BY <1>6 DEF Handshake, HandleAck, OpenFresh, HandleClose, Ignore, Lose
  <2>2. Taking(x, <<>>) /\ <<>> \in Seq(Wire(x)) /\ buf' = buf /\ receiving' = receiving
    BY <1>2, <2>1, TakingSilently
  <2>3. Answers(x, <<>>)
    BY <2>2 DEF Answers
  <2> QED  BY <1>1, <1>4, <1>5, <2>2, <2>3
<1>7. ASSUME NEW frames \in Seq(Wire(x)), Answer(x, frames, "reply")
      PROVE  /\ Taking(x, frames) /\ buf' = buf /\ receiving'[x] \in {receiving[x], "reply"}
             /\ receiving'[Other(x)] = receiving[Other(x)]
  <2>1. /\ wire' = [wire EXCEPT ![Other(x)] = Tail(@), ![x] = @ \o frames]
        /\ receiving' = [receiving EXCEPT ![x] = "reply"] /\ buf' = buf
    BY <1>7 DEF Answer, RecvGoes
  <2>2. Taking(x, frames)
    BY <1>2, <2>1, TakingAnswer
  <2> QED  BY <1>3, <2>1, <2>2 DEF Inv, RecvOK
<1>8. CASE HandleNak(x)
  <2> DEFINE m == Data(snd[x].cur, snd[x].batch, Packet(x).block)
             frames == <<m>>
  <2>1. Packet(x).block \in snd[x].unacked /\ Answer(x, frames, "reply")
    BY <1>8 DEF HandleNak
  <2>2. /\ m \in Wire(x) /\ m.type = "D" /\ m.batch = Count(sending[x], snd[x]) - 1
        /\ Sends(sending[x], snd[x])
    BY <2>1, WindowFrame
  <2> HIDE DEF m
  <2>3. frames \in Seq(Wire(x)) /\ \A i \in 1..Len(frames) : frames[i] = m
    BY <2>2
  <2> HIDE DEF frames
  <2>4. /\ Taking(x, frames) /\ buf' = buf /\ receiving'[x] \in {receiving[x], "reply"}
        /\ receiving'[Other(x)] = receiving[Other(x)]
    BY <1>7, <2>1, <2>3
  <2>5. Answers(x, frames)
    BY <2>2, <2>3, <2>4 DEF Answers
  <2> QED  BY <1>1, <1>4, <1>5, <2>3, <2>4, <2>5
<1>9. CASE DataExpected(x) \/ DataUnexpected(x)
  <2> DEFINE p == Packet(x)
             e == rcv[x].expected
             frames == IF p.block > e THEN <<Nak(p.batch, e)>> ELSE <<Ack(p.batch, p.block)>>
  <2>1. p.type = "D"
    BY <1>9 DEF DataExpected, DataUnexpected, Transferring, Arrives
  <2>2. p.batch = rcv[x].batch /\ e \in Nat /\ p.block \in Nat /\ p.batch \in Nat
    <3>1. p.batch \in Batches(Other(x)) /\ p.block \in Nat
      BY <1>2, <2>1, PacketFacts
    <3>2. p.batch \in Nat
      BY <1>3, <3>1, FileFacts
    <3> QED  BY <1>2, <2>1, <3>1, <3>2, DataFacts
  <2>3. Answer(x, frames, "reply")
    <3>1. CASE DataExpected(x)
      <4>1. Answer(x, <<Ack(p.batch, p.block)>>, "reply") /\ p.block = e
        BY <3>1 DEF DataExpected
      <4>2. frames = <<Ack(p.batch, p.block)>>
        BY <2>2, <4>1
      <4> QED  BY <4>1, <4>2
    <3>2. CASE DataUnexpected(x)
      BY <3>2 DEF DataUnexpected
    <3> QED  BY <1>9, <3>1, <3>2
  <2>4. frames \in Seq(Wire(x))
    <3>1. Nak(p.batch, e) \in Wire(x) /\ Ack(p.batch, p.block) \in Wire(x)
      BY <2>2, ControlFrames
    <3> QED  BY <3>1
  <2>5. \A i \in 1..Len(frames) :
          \/ frames[i].type = "N"
          \/ frames[i].type = "A" /\ frames[i].batch = p.batch /\ frames[i].block = p.block
             /\ p.block <= e
    BY <2>2 DEF Nak, Ack
  <2> HIDE DEF frames, p, e
  <2>6. /\ Taking(x, frames) /\ buf' = buf /\ receiving'[x] \in {receiving[x], "reply"}
        /\ receiving'[Other(x)] = receiving[Other(x)]
    BY <1>7, <2>3, <2>4
  <2>7. Answers(x, frames)
    BY <2>1, <2>2, <2>5, <2>6 DEF Answers, p, e
  <2> QED  BY <1>1, <1>4, <1>5, <2>4, <2>6, <2>7
<1> QED  BY <1>1, <1>4, <1>5, <1>6, <1>8, <1>9 DEF RecvTask

\* Taking a packet keeps the course of what x sends, if no acknowledgement is taken
\* unearned.
LEMMA OutgoingReply ==
  ASSUME Inv, Delivery, NEW x \in Peers, NEW frames \in Seq(Wire(x)), Answers(x, frames),
         rcv'[Other(x)] = rcv[Other(x)], disk'[Other(x)] = disk[Other(x)],
         sending'[x] = sending[x], reported'[x] = reported[x],
         snd'[x].cur = snd[x].cur, snd'[x].batch = snd[x].batch, Earned(x, snd'[x])
  PROVE  Course(x)'
<1> DEFINE y == Other(x)
           n == Count(sending[x], snd[x])
           cur == Sends(sending[x], snd[x])
           w == wire[x]
           begun == Begun(x)
           rb == rcv[y].batch
           open == rcv[y].fd # None
<1>1. y \in Peers /\ Other(y) = x /\ Course(x)
  BY OtherPeer DEF Delivery
<1>2. /\ wire'[x] = wire[x] \o frames
      /\ wire[y] # <<>> /\ wire'[y] = Tail(wire[y])
  BY DEF Answers, Taking
<1>3. /\ Count(sending'[x], snd'[x]) = n /\ Sends(sending'[x], snd'[x]) = cur
      /\ Told(sending'[x], snd'[x]) = Told(sending[x], snd[x])
  BY DEF Count, Sends, Told
<1>4. n \in Nat /\ w \in Seq(Frames) /\ \A b \in begun : b \in Nat
  BY <1>1, CountFacts, WireType, BegunFacts DEF Course
<1>5. frames \in Seq(Frames)
  <2>1. Wire(x) \subseteq Frames
    BY DEF Wire
  <2> QED  BY <2>1, SeqMonotonic
<1>6. Tidy(w \o frames, n, cur, begun, rb, open)
  <2>1. Tidy(w, n, cur, begun, rb, open)
    BY <1>1 DEF Course, Flow
  <2>2. \A i \in 1..Len(frames) : \/ frames[i].type \notin {"O", "D", "C"}
                                  \/ cur /\ frames[i].type = "D" /\ frames[i].batch = n - 1
    BY DEF Answers
  <2> HIDE DEF w, n, cur, begun, rb, open
  <2> QED  BY <1>4, <1>5, <2>1, <2>2, TidyMore
<1>7. Settled(x, Told(sending'[x], snd'[x]), reported'[x])
  BY <1>1, <1>3 DEF Course
<1>8. n = Count(sending'[x], snd'[x]) /\ Count(sending[x], snd[x]) <= n
  BY <1>3, <1>4
<1>9. Tidy(wire[x] \o frames, n, Sends(sending'[x], snd'[x]), Begun(x), rcv[Other(x)].batch,
           rcv[Other(x)].fd # None)
  BY <1>3, <1>6
<1> HIDE DEF n, cur, w, begun, rb, open
<1> QED  BY <1>2, <1>4, <1>7, <1>8, <1>9, OutgoingStep DEF y

\* No OPEN is ignored or lost: a receiver in INIT meets RQ, and one in DONE reads no more.
LEMMA OpenHeeded ==
  ASSUME Inv, Fresh, Delivery, NEW x \in Peers, Ignore(x) \/ Lose(x)
  PROVE  Packet(x).type # "O"
<1> SUFFICES ASSUME Packet(x).type = "O" PROVE FALSE
  OBVIOUS
<1>1. CASE Lose(x)
  BY <1>1 DEF Lose, Fresh
<1>2. CASE Ignore(x)
  <2>1. wire[Other(x)] # <<>> /\ state[x] # "DONE" /\ state[x] # "TRANSFERRING"
    BY <1>2 DEF Ignore, Ineffective
  <2>2. state[x] = "INIT"
    BY <2>1 DEF Inv, StateOK
  <2>3. Other(x) \in Peers /\ Other(Other(x)) = x /\ Head(wire[Other(x)]) = Packet(x)
    BY <2>1, PacketFacts
  <2>4. Packet(x) = RQ
    BY <2>2, <2>3 DEF Delivery, Greeted
  <2> QED  BY <2>4 DEF RQ
<1> QED  BY <1>1, <1>2

\* The window only forgets what the receiver holds.
LEMMA AckEarned ==
  ASSUME Inv, Fresh, Delivery, NEW x \in Peers, HandleAck(x)
  PROVE  /\ Earned(x, snd'[x]) /\ snd'[x].cur = snd[x].cur /\ snd'[x].batch = snd[x].batch
         /\ snd'[Other(x)] = snd[Other(x)]
<1> DEFINE y == Other(x)
           m == Packet(x)
           s == snd[x]
           u == s.unacked \ {m.block}
           d == s.timed \ {m.block}
<1>1. wire[y] # <<>> /\ m.type = "A" /\ m.batch = s.batch
  BY DEF HandleAck, Transferring, Arrives
<1>2. /\ y \in Peers /\ Other(y) = x /\ y # x /\ 1 \in 1..Len(wire[y]) /\ wire[y][1] = m
  BY <1>1, PacketFacts
<1>3. Held(x, s.batch, m.block) /\ Earned(x, s)
  BY <1>1, <1>2 DEF Delivery, Course, Vouched
<1>4. s \in Senders
  BY DEF Inv, SndOK
<1>5. PICK w \in IF m.block \in s.timed THEN Windows(s) ELSE {s.window} :
        snd' = [snd EXCEPT ![x] = [s EXCEPT !.window = w, !.unacked = u, !.timed = d]]
  BY DEF HandleAck
<1> HIDE DEF d
<1>6. /\ snd'[x] = [s EXCEPT !.window = w, !.unacked = u, !.timed = d] /\ snd'[y] = snd[y]
  BY <1>2, <1>5 DEF Inv, SndOK
<1>7. /\ snd'[x].cur = s.cur /\ snd'[x].next = s.next /\ snd'[x].batch = s.batch
      /\ snd'[x].unacked = u
  BY <1>4, <1>6 DEF Senders
<1>8. ASSUME s.cur # None, NEW k \in (0 .. s.next - 1) \ u
      PROVE  Held(x, s.batch, k)
  <2>1. CASE k \notin s.unacked
    BY <1>3, <1>8, <2>1 DEF Earned
  <2>2. CASE k \in s.unacked
    BY <1>3, <1>8, <2>2
  <2> QED  BY <2>1, <2>2
<1> HIDE DEF s, u, y
<1> QED  BY <1>6, <1>7, <1>8 DEF Earned, s, y

\* OPEN: the copy of the next file begins, empty.
LEMMA OpenCourse ==
  ASSUME Inv, Fresh, Delivery, NEW x \in Peers, OpenFresh(x)
  PROVE  Course(Other(x))'
<1> DEFINE y == Other(x)
           m == Packet(x)
           b == m.batch
           none == <<>>
           zero == 0
           told == Told(sending[y], snd[y])
<1>1. wire[y] # <<>> /\ m.type = "O"
  BY DEF OpenFresh, Transferring, Arrives
<1>2. /\ y \in Peers /\ Other(y) = x /\ b \in Batches(y)
  BY <1>1, PacketFacts
<1>3. /\ b \notin Begun(y) /\ m.name = Name[FileAt(y, b)]
      /\ b < Count(sending[y], snd[y]) /\ \A d \in Begun(y) : d < b
      /\ Tidy(Tail(wire[y]), Count(sending[y], snd[y]), Sends(sending[y], snd[y]),
              Begun(y) \cup {b}, b, TRUE)
  BY <1>1, OpenFacts
<1>4. Taking(x, none) /\ none \in Seq(Wire(x))
  BY <1>1, TakingSilently DEF OpenFresh
<1>5. none \in Seq(Unit) /\ zero \in Nat
  BY EmptySeq
<1>6. disk'[x] = [disk[x] EXCEPT ![Name[FileAt(y, b)]] = none]
  BY <1>3 DEF OpenFresh, Inv, RecvOK
<1>7. /\ rcv'[x].fd = Name[FileAt(y, b)] /\ rcv'[x].batch = b /\ rcv'[x].expected = zero
  <2>1. rcv[x] \in Receivers /\ rcv'[x] = [Named(x) EXCEPT !.fd = m.name]
    BY DEF OpenFresh, Inv, RecvOK
  <2>2. Named(x) = [rcv[x] EXCEPT !.file = m.name, !.batch = b, !.expected = 0]
    BY DEF Named
  <2> HIDE DEF m, b
  <2> QED  BY <1>3, <2>1, <2>2 DEF Receivers
<1>8. none = Front(Content[FileAt(y, b)], zero)
  <2> DEFINE c == Content[FileAt(y, b)]
  <2>1. c \in Seq(Unit)
    BY <1>2, FileFacts
  <2> HIDE DEF c
  <2>2. Len(c) \in Nat /\ zero * BlockSize = 0
    BY <2>1, BlocksAssumption
  <2>3. Front(c, zero) \in Seq(Unit) /\ Len(Front(c, zero)) = 0
    BY <1>5, <2>1, <2>2, FrontType DEF Minimum
  <2>4. Front(c, zero) = <<>>
    BY <2>3, EmptySeq
  <2> QED  BY <2>4 DEF c
<1>9. ~(b < told)
  <2>1. \A d \in 0 .. told - 1 : d \in Begun(y)
    BY <1>2 DEF Delivery, Course, Settled
  <2>2. told \in Nat /\ b \in Nat
    BY <1>2, CountFacts, FileFacts
  <2> QED  BY <1>3, <2>1, <2>2
<1>10. wire'[x] = wire[x] \o none /\ wire'[y] = Tail(wire[y])
  BY <1>4 DEF Taking
<1>11. snd'[y] = snd[y] /\ reported'[y] = reported[y] /\ sending'[y] = sending[y]
  BY DEF OpenFresh, Transferring
<1>12. \A i \in 1..Len(none) : none[i].type = "A" => none[i].batch = b /\ none[i].block < zero
  BY EmptySeq
<1>13. Tidy(wire'[y], Count(sending[y], snd[y]), Sends(sending[y], snd[y]),
            Begun(y) \cup {b}, b, TRUE)
  BY <1>3, <1>10
<1>14. \A d \in Begun(y) : d < b \/ (d = b /\ b = rcv[x].batch /\ rcv[x].expected <= zero)
  BY <1>3
<1>15. /\ none \in Seq(Wire(x)) /\ b \in Batches(Other(x))
       /\ rcv'[x].batch = b /\ rcv'[x].expected = zero /\ zero \in Nat
       /\ rcv'[x].fd = Name[FileAt(Other(x), b)]
       /\ disk'[x] = [disk[x] EXCEPT ![Name[FileAt(Other(x), b)]] =
                        Front(Content[FileAt(Other(x), b)], zero)]
  BY <1>2, <1>4, <1>5, <1>6, <1>7, <1>8
<1> HIDE DEF b, m, none, zero
<1> QED  BY <1>3, <1>9, <1>10, <1>11, <1>12, <1>13, <1>14, <1>15, IncomingWrite DEF y, told

\* DATA: the copy of the file that is open grows by its next block.
LEMMA DataCourse ==
  ASSUME Inv, Fresh, Delivery, NEW x \in Peers, DataExpected(x)
  PROVE  Course(Other(x))'
<1> DEFINE y == Other(x)
           m == Packet(x)
           b == m.batch
           e == rcv[x].expected
           f == e + 1
           c == Content[FileAt(y, b)]
           frames == <<Ack(b, m.block)>>
           n == Count(sending[y], snd[y])
           cur == Sends(sending[y], snd[y])
<1>1. wire[y] # <<>> /\ m.type = "D" /\ m.block = e
  BY DEF DataExpected, Transferring, Arrives
<1>2. /\ y \in Peers /\ Other(y) = x /\ y # x /\ Head(wire[y]) = m
      /\ b \in Batches(y) /\ m.block \in Nat
      /\ e * BlockSize < Len(c) /\ m.data = Chunk(c, e)
  BY <1>1, PacketFacts
<1>3. /\ b = rcv[x].batch /\ rcv[x].fd = Name[FileAt(y, b)] /\ rcv[x].fd # None
      /\ b \in Begun(y) /\ e \in Nat
      /\ disk[x][rcv[x].fd] = Front(c, e)
  BY <1>1, DataFacts
<1>4. c \in Seq(Unit) /\ b \in Nat /\ Name[FileAt(y, b)] \in Names
  BY <1>2, FileFacts
<1>5. frames \in Seq(Wire(x)) /\ \A i \in 1..Len(frames) :
        frames[i].type = "A" => frames[i].batch = b /\ frames[i].block < f
  <2>1. Ack(b, m.block) \in Wire(x) /\ Ack(b, m.block).batch = b /\ Ack(b, m.block).block = e
    BY <1>1, <1>2, <1>4, ControlFrames DEF Ack
  <2> QED  BY <1>3, <2>1
<1>6. wire' = [wire EXCEPT ![Other(x)] = Tail(@), ![x] = @ \o frames]
  BY DEF DataExpected, Answer
<1> HIDE DEF frames
<1>7. wire'[x] = wire[x] \o frames /\ wire'[y] = Tail(wire[y])
  <2>1. Taking(x, frames)
    BY <1>1, <1>5, <1>6, TakingAnswer
  <2> QED  BY <2>1 DEF Taking
<1>8. Front(c, e) \o Chunk(c, e) = Front(c, f) /\ f \in Nat /\ Front(c, f) \in Seq(Unit)
  <2>1. c \in Seq(Unit) /\ e \in Nat /\ e * BlockSize < Len(c)
    BY <1>2, <1>3, <1>4
  <2> HIDE DEF c, e
  <2>2. f \in Nat
    BY <2>1
  <2>3. Front(c, e) \o Chunk(c, e) = Front(c, f)
    BY <2>1, FrontNext, Zenon
  <2> HIDE DEF f
  <2>4. Front(c, f) \in Seq(Unit)
    BY <2>1, <2>2, FrontType, Zenon
  <2> QED  BY <2>2, <2>3, <2>4
<1>9. disk'[x] = [disk[x] EXCEPT ![Name[FileAt(y, b)]] = Front(c, f)]
  <2>1. disk' = [disk EXCEPT ![x][rcv[x].fd] = disk[x][rcv[x].fd] \o m.data]
    BY <1>3 DEF DataExpected
  <2> HIDE DEF b, c, e, m, f
  <2> QED  BY <1>2, <1>3, <1>8, <2>1 DEF Inv, RecvOK
<1>10. rcv'[x].fd = Name[FileAt(y, b)] /\ rcv'[x].batch = b /\ rcv'[x].expected = f
  <2>1. rcv[x] \in Receivers /\ rcv'[x] = [rcv[x] EXCEPT !.expected = f]
    BY DEF DataExpected, Inv, RecvOK
  <2> HIDE DEF b, c, e, m, f
  <2> QED  BY <1>3, <2>1 DEF Receivers
<1>11. /\ Course(y) /\ n \in Nat /\ Told(sending[y], snd[y]) \in Nat
  BY <1>2, CountFacts DEF Delivery
<1>12. Tidy(wire[y], n, cur, Begun(y), b, TRUE)
  <2>1. (rcv[x].fd # None) = TRUE
    BY <1>3
  <2> QED  BY <1>2, <1>3, <1>11, <2>1 DEF Course, Flow
<1>13. Tidy(wire'[y], n, cur, Begun(y) \cup {b}, b, TRUE)
  <2>1. wire[y] \in Seq(Frames) /\ Head(wire[y]).type # "O" /\ wire[y] # <<>>
    BY <1>1, <1>2, WireType
  <2>2. Begun(y) \cup {b} = Begun(y)
    BY <1>3
  <2> HIDE DEF n, cur, b
  <2>3. Tidy(Tail(wire[y]), n, cur, Begun(y), b, TRUE)
    BY <1>12, <2>1, TidyTail
  <2> QED  BY <1>7, <2>2, <2>3
<1>14. b < n
  BY <1>3, <1>12 DEF Tidy, Ahead
<1>15. ~(b < Told(sending[y], snd[y]))
  <2>1. SUFFICES ASSUME b < Told(sending[y], snd[y]) PROVE FALSE
    OBVIOUS
  <2>2. CopyAt(y, b) = c
    <3>1. b \in 0 .. Told(sending[y], snd[y]) - 1
      BY <1>4, <1>11, <2>1
    <3> QED  BY <1>11, <3>1 DEF Course, Settled
  <2>3. CopyAt(y, b) = Front(c, e)
    BY <1>2, <1>3 DEF CopyAt, Copy
  <2> QED  BY <1>2, <1>3, <1>4, <2>2, <2>3, FrontWhole
<1>16. \A d \in Begun(y) : d < b \/ (d = b /\ b = rcv[x].batch /\ rcv[x].expected <= f)
  <2>1. \A d \in Begun(y) : d <= b /\ d \in Nat
    BY <1>2, <1>3, <1>11, BegunFacts DEF Course, Opener
  <2> QED  BY <1>3, <1>4, <2>1
<1>17. sending'[y] = sending[y] /\ snd'[y] = snd[y] /\ reported'[y] = reported[y]
  BY DEF DataExpected, Transferring
<1>18. /\ frames \in Seq(Wire(x)) /\ b \in Batches(Other(x))
       /\ rcv'[x].batch = b /\ rcv'[x].expected = f /\ f \in Nat
       /\ rcv'[x].fd = Name[FileAt(Other(x), b)]
       /\ disk'[x] = [disk[x] EXCEPT ![Name[FileAt(Other(x), b)]] =
                        Front(Content[FileAt(Other(x), b)], f)]
  BY <1>2, <1>5, <1>8, <1>9, <1>10
<1> HIDE DEF b, m, e, f, c
<1>19. /\ frames \in Seq(Wire(x)) /\ b \in Batches(Other(x))
       /\ rcv'[x].batch = b /\ rcv'[x].expected \in Nat
       /\ rcv'[x].fd = Name[FileAt(Other(x), b)]
       /\ disk'[x] = [disk[x] EXCEPT ![Name[FileAt(Other(x), b)]] =
                        Front(Content[FileAt(Other(x), b)], rcv'[x].expected)]
       /\ b < Count(sending[Other(x)], snd[Other(x)])
       /\ ~(b < Told(sending[Other(x)], snd[Other(x)]))
       /\ wire'[x] = wire[x] \o frames
       /\ sending'[Other(x)] = sending[Other(x)] /\ snd'[Other(x)] = snd[Other(x)]
       /\ reported'[Other(x)] = reported[Other(x)]
  BY <1>7, <1>14, <1>15, <1>17, <1>18
<1>20. \A d \in Begun(Other(x)) :
         d < b \/ (d = b /\ b = rcv[x].batch /\ rcv[x].expected <= rcv'[x].expected)
  BY <1>16, <1>18
<1>21. Tidy(wire'[Other(x)], Count(sending[Other(x)], snd[Other(x)]),
            Sends(sending[Other(x)], snd[Other(x)]), Begun(Other(x)) \cup {b}, b, TRUE)
  BY <1>13
<1>22. \A i \in 1..Len(frames) : frames[i].type = "A" =>
         frames[i].batch = b /\ frames[i].block < rcv'[x].expected
  BY <1>5, <1>18
<1> HIDE DEF y, n, cur
<1> QED  BY <1>19, <1>20, <1>21, <1>22, IncomingWrite

\* An ACK for a block that was not the expected one speaks of an earlier block.
LEMMA ReplyVouched ==
  ASSUME Inv, Fresh, Delivery, NEW x \in Peers, NEW frames, Answers(x, frames),
         Packet(x).type = "D" => Packet(x).block # rcv[x].expected
  PROVE  Vouched(Other(x), frames)
<1> DEFINE y == Other(x)
<1>1. wire[y] # <<>> /\ Other(y) = x
  BY OtherPeer DEF Answers, Taking
<1>2. SUFFICES ASSUME NEW i \in 1..Len(frames), frames[i].type = "A"
               PROVE  Held(y, frames[i].batch, frames[i].block)
  BY DEF Vouched
<1>3. /\ Packet(x).type = "D" /\ frames[i].batch = rcv[x].batch
      /\ frames[i].block = Packet(x).block /\ Packet(x).block <= rcv[x].expected
  BY <1>2 DEF Answers
<1>4. rcv[x].batch \in Begun(y) /\ rcv[x].expected \in Nat
  BY <1>1, <1>3, DataFacts
<1>5. Packet(x).block \in Nat
  BY <1>1, <1>3, PacketFacts
<1>6. Packet(x).block < rcv[x].expected
  BY <1>3, <1>4, <1>5
<1> QED  BY <1>1, <1>3, <1>4, <1>6 DEF Held

\* Taking a packet, seen from the files that its reader sends.
LEMMA ReceiveOutgoing ==
  ASSUME Inv, Fresh, Delivery, NEW x \in Peers, RecvTask(x) \/ Lose(x), ~Answered(x)
  PROVE  Course(x)'
<1> DEFINE y == Other(x)
<1>1. y \in Peers /\ y # x
  BY OtherPeer
<1>2. PICK frames \in Seq(Wire(x)) : Answers(x, frames)
  BY ReceiveAnswers
<1>3. /\ ~HandleSkip(x) /\ ~HandleVerify(x) /\ ~HandleSeek(x) /\ ~VerifySent(x)
      /\ HandleOpen(x) => OpenFresh(x)
  BY ReceiveAnswers
<1>4. Earned(x, snd'[x]) /\ snd'[x].cur = snd[x].cur /\ snd'[x].batch = snd[x].batch
  <2>1. CASE HandleAck(x)
    BY <2>1, AckEarned
  <2>2. CASE HandleNak(x)
    <3>1. /\ snd' = [snd EXCEPT ![x] = Halved(snd[x])] /\ snd[x] \in Senders
          /\ Books(x, snd[x]) /\ snd \in [Peers -> Senders]
      BY <2>2 DEF HandleNak, Inv, SndOK
    <3>2. snd'[x] = Halved(snd[x])
      BY <3>1
    <3>3. /\ snd'[x].cur = snd[x].cur /\ snd'[x].batch = snd[x].batch
          /\ snd'[x].next = snd[x].next /\ snd'[x].unacked = snd[x].unacked
      BY <3>1, <3>2, HalvedOK
    <3> QED  BY <3>3 DEF Delivery, Course, Earned
  <2>3. CASE ~HandleAck(x) /\ ~HandleNak(x)
    <3>1. snd' = snd
      BY <1>3, <2>3 DEF RecvTask, Handshake, OpenFresh, DataExpected, DataUnexpected,
         HandleClose, Ignore, Answered, Lose
    <3> QED  BY <3>1 DEF Delivery, Course
  <2> QED  BY <2>1, <2>2, <2>3
<1>5. rcv'[y] = rcv[y] /\ disk'[y] = disk[y]
  BY <1>1, <1>3 DEF RecvTask, Handshake, HandleAck, HandleNak, OpenFresh, DataExpected,
     DataUnexpected, HandleClose, Ignore, Lose, Inv, RecvOK
<1>6. sending'[x] = sending[x] /\ reported'[x] = reported[x]
  BY <1>3 DEF RecvTask, Handshake, HandleAck, HandleNak, OpenFresh, DataExpected,
     DataUnexpected, HandleClose, Ignore, Lose, Transferring
<1> HIDE DEF y
<1> QED  BY <1>2, <1>4, <1>5, <1>6, OutgoingReply DEF y

\* Taking a packet, seen from the files that the peer sends.
LEMMA ReceiveIncoming ==
  ASSUME Inv, Fresh, Delivery, NEW x \in Peers, RecvTask(x) \/ Lose(x), ~Answered(x)
  PROVE  Course(Other(x))'
<1> DEFINE y == Other(x)
<1>1. y \in Peers /\ y # x
  BY OtherPeer
<1>2. PICK frames \in Seq(Wire(x)) : Answers(x, frames)
  BY ReceiveAnswers
<1>3. /\ ~HandleSkip(x) /\ ~HandleVerify(x) /\ ~HandleSeek(x) /\ ~VerifySent(x)
      /\ HandleOpen(x) => OpenFresh(x)
  BY ReceiveAnswers
<1>4. CASE OpenFresh(x)
  BY <1>4, OpenCourse
<1>5. CASE DataExpected(x)
  BY <1>5, DataCourse
<1>6. sending'[y] = sending[y] /\ reported'[y] = reported[y]
  BY <1>3 DEF RecvTask, Handshake, HandleAck, HandleNak, OpenFresh, DataExpected,
     DataUnexpected, HandleClose, Ignore, Lose, Transferring
<1>7. snd'[y] = snd[y]
  <2>1. CASE HandleAck(x)
    BY <2>1, AckEarned
  <2>2. CASE HandleNak(x)
    <3>1. snd' = [snd EXCEPT ![x] = Halved(snd[x])] /\ snd \in [Peers -> Senders]
      BY <2>2 DEF HandleNak, Inv, SndOK
    <3> QED  BY <1>1, <3>1
  <2>3. CASE ~HandleAck(x) /\ ~HandleNak(x)
    BY <1>3, <2>3 DEF RecvTask, Handshake, OpenFresh, DataExpected, DataUnexpected,
       HandleClose, Ignore, Lose
  <2> QED  BY <2>1, <2>2, <2>3
<1>8. CASE HandleClose(x)
  <2>1. /\ rcv'[x] = [rcv[x] EXCEPT !.fd = None, !.file = None] /\ rcv[x] \in Receivers
        /\ disk' = disk /\ Packet(x).type = "C" /\ wire[y] # <<>> /\ NoAnswer(x)
    BY <1>8 DEF HandleClose, Transferring, Arrives, Inv, RecvOK
  <2>2. /\ rcv'[x].fd = None /\ rcv'[x].batch = rcv[x].batch
        /\ rcv'[x].expected = rcv[x].expected
    BY <2>1 DEF Receivers
  <2>3. Taking(x, <<>>) /\ wire'[x] = wire[x]
    BY <2>1, TakingSilently
  <2>4. wire'[y] = Tail(wire[y]) /\ Head(wire[y]).type = "C"
    BY <2>1, <2>3 DEF Taking, Packet
  <2> HIDE DEF y
  <2> QED  BY <1>6, <1>7, <2>1, <2>2, <2>3, <2>4, IncomingClose DEF y
<1>9. CASE ~OpenFresh(x) /\ ~DataExpected(x) /\ ~HandleClose(x)
  <2>1. rcv'[x] = rcv[x] /\ disk'[x] = disk[x]
    BY <1>3, <1>9 DEF RecvTask, Handshake, HandleAck, HandleNak, DataUnexpected, Ignore, Lose
  <2>2. Packet(x).type # "O"
    <3>1. CASE Ignore(x) \/ Lose(x)
      BY <3>1, OpenHeeded
    <3>2. CASE ~Ignore(x) /\ ~Lose(x)
      BY <1>3, <1>9, <3>2 DEF RecvTask, Handshake, HandleAck, HandleNak, DataUnexpected,
         Transferring, Arrives
    <3> QED  BY <3>1, <3>2
  <2>3. PICK reply \in Seq(Wire(x)) : Answers(x, reply) /\ Vouched(y, reply)
    <3>1. CASE Ignore(x) \/ Lose(x)
      <4>1. wire[y] # <<>> /\ NoAnswer(x)
        BY <3>1 DEF Ignore, Lose
      <4>2. Taking(x, <<>>) /\ <<>> \in Seq(Wire(x)) /\ buf' = buf
        BY <4>1, TakingSilently
      <4>3. Answers(x, <<>>) /\ Vouched(y, <<>>)
        BY <4>2 DEF Answers, Vouched
      <4> QED  BY <4>2, <4>3
    <3>2. CASE ~Ignore(x) /\ ~Lose(x)
      <4>1. Packet(x).type = "D" => Packet(x).block # rcv[x].expected
        BY <1>3, <1>9, <3>2 DEF RecvTask, Handshake, HandleAck, HandleNak, DataUnexpected,
           Transferring, Arrives
      <4>2. Vouched(Other(x), frames)
        BY <1>2, <4>1, ReplyVouched
      <4> QED  BY <1>2, <4>2
    <3> QED  BY <3>1, <3>2
  <2>4. /\ wire'[x] = wire[x] \o reply
        /\ wire[y] # <<>> /\ wire'[y] = Tail(wire[y]) /\ Head(wire[y]).type # "O"
    BY <2>2, <2>3 DEF Answers, Taking, Packet
  <2> HIDE DEF y
  <2> QED  BY <1>6, <1>7, <2>1, <2>3, <2>4, IncomingPass DEF y
<1> QED  BY <1>4, <1>5, <1>8, <1>9

-----------------------------------------------------------------------------
(***************************************************************************)
(* The send task under Fresh.                                              *)
(***************************************************************************)
\* What a stretch of the send task of x leaves alone.
Aside(x) ==
  /\ UNCHANGED <<state, receiving, rcv, disk, buf>>
  /\ sending'[Other(x)] = sending[Other(x)] /\ snd'[Other(x)] = snd[Other(x)]
  /\ reported'[Other(x)] = reported[Other(x)]

\* The task writes frames, and the files of x keep their course.
Sent(x, frames) ==
  /\ Aside(x)
  /\ wire'[x] = wire[x] \o frames /\ wire'[Other(x)] = wire[Other(x)]
  /\ \A i \in 1..Len(frames) : frames[i].type \in {"O", "D", "C", "Z"}
  /\ Count(sending'[x], snd'[x]) \in Nat
  /\ Count(sending[x], snd[x]) <= Count(sending'[x], snd'[x])
  /\ Tidy(wire[x] \o frames, Count(sending'[x], snd'[x]), Sends(sending'[x], snd'[x]), Begun(x),
          rcv[Other(x)].batch, rcv[Other(x)].fd # None)
  /\ Earned(x, snd'[x])
  /\ Settled(x, Told(sending'[x], snd'[x]), reported'[x])

\* Such a stretch keeps the course of the files in both directions.
LEMMA SentCourse ==
  ASSUME Inv, Fresh, Delivery, NEW x \in Peers, NEW frames \in Seq(Wire(x)), Sent(x, frames)
  PROVE  Course(x)' /\ Course(Other(x))'
<1> DEFINE y == Other(x)
           n == Count(sending'[x], snd'[x])
<1>1. /\ wire'[x] = wire[x] \o frames /\ wire'[Other(x)] = wire[Other(x)]
      /\ rcv'[Other(x)] = rcv[Other(x)] /\ disk'[Other(x)] = disk[Other(x)]
      /\ rcv'[x] = rcv[x] /\ disk'[x] = disk[x]
      /\ sending'[Other(x)] = sending[Other(x)] /\ snd'[Other(x)] = snd[Other(x)]
      /\ reported'[Other(x)] = reported[Other(x)]
  BY DEF Sent, Aside
<1>2. Vouched(Other(x), frames)
  BY DEF Sent, Vouched
<1>3. Course(Other(x))'
  BY <1>1, <1>2, IncomingPass
<1>4. /\ n \in Nat /\ n = Count(sending'[x], snd'[x]) /\ Count(sending[x], snd[x]) <= n
      /\ Tidy(wire[x] \o frames, n, Sends(sending'[x], snd'[x]), Begun(x),
              rcv[Other(x)].batch, rcv[Other(x)].fd # None)
      /\ Earned(x, snd'[x]) /\ Settled(x, Told(sending'[x], snd'[x]), reported'[x])
  BY DEF Sent
<1> HIDE DEF n
<1>5. Course(x)'
  BY <1>1, <1>4, OutgoingStep
<1> QED  BY <1>3, <1>5

\* Nothing is opened, closed or reported: blocks of the current file may be written, or Z.
LEMMA AddSent ==
  ASSUME Inv, Fresh, Delivery, NEW x \in Peers, NEW frames \in Seq(Wire(x)),
         Write(x, frames), Aside(x), reported' = reported,
         \A i \in 1..Len(frames) :
           \/ frames[i].type = "Z"
           \/ /\ frames[i].type = "D" /\ Sends(sending[x], snd[x])
              /\ frames[i].batch = Count(sending[x], snd[x]) - 1,
         Count(sending'[x], snd'[x]) = Count(sending[x], snd[x]),
         Sends(sending'[x], snd'[x]) = Sends(sending[x], snd[x]),
         Told(sending'[x], snd'[x]) = Told(sending[x], snd[x]),
         Earned(x, snd'[x])
  PROVE  Sent(x, frames)
<1> DEFINE y == Other(x)
           n == Count(sending[x], snd[x])
           cur == Sends(sending[x], snd[x])
           w == wire[x]
           begun == Begun(x)
           rb == rcv[y].batch
           open == rcv[y].fd # None
<1>1. y \in Peers /\ y # x /\ Course(x)
  BY OtherPeer DEF Delivery
<1>2. wire'[x] = wire[x] \o frames /\ wire'[y] = wire[y]
  BY <1>1 DEF Write, Inv, LinkOK
<1>3. n \in Nat /\ w \in Seq(Frames) /\ \A b \in begun : b \in Nat
  BY <1>1, CountFacts, WireType, BegunFacts DEF Course
<1>4. frames \in Seq(Frames)
  <2>1. Wire(x) \subseteq Frames
    BY DEF Wire
  <2> QED  BY <2>1, SeqMonotonic
<1>5. Tidy(w \o frames, n, cur, begun, rb, open)
  <2>1. Tidy(w, n, cur, begun, rb, open)
    BY <1>1 DEF Course, Flow
  <2>2. \A i \in 1..Len(frames) : \/ frames[i].type \notin {"O", "D", "C"}
                                  \/ cur /\ frames[i].type = "D" /\ frames[i].batch = n - 1
    OBVIOUS
  <2> HIDE DEF w, n, cur, begun, rb, open
  <2> QED  BY <1>3, <1>4, <2>1, <2>2, TidyMore
<1>6. Settled(x, Told(sending'[x], snd'[x]), reported'[x])
  BY <1>1 DEF Course
<1>7. Count(sending'[x], snd'[x]) \in Nat
      /\ Count(sending[x], snd[x]) <= Count(sending'[x], snd'[x])
  BY <1>3
<1>8. \A i \in 1..Len(frames) : frames[i].type \in {"O", "D", "C", "Z"}
  OBVIOUS
<1>9. Tidy(wire[x] \o frames, Count(sending'[x], snd'[x]), Sends(sending'[x], snd'[x]), Begun(x),
           rcv[Other(x)].batch, rcv[Other(x)].fd # None)
  BY <1>5
<1> HIDE DEF n, cur, w, begun, rb, open
<1> QED  BY <1>2, <1>6, <1>7, <1>8, <1>9 DEF Sent, y

\* Blocks that have just been sent are not acknowledged: nothing more is earned.
LEMMA MoreEarned ==
  ASSUME NEW p \in Peers, NEW s \in Senders, Books(p, s), s.cur # None, Unsent(s) > 0,
         Earned(p, s)
  PROVE  Earned(p, More(s, Unsent(s)))
<1> DEFINE n == Unsent(s)
           new == s.next .. s.next + n - 1
           u == s.unacked \cup new
           t == s.timed \cup new
           m == [s EXCEPT !.next = s.next + n, !.unacked = u, !.timed = t]
<1>1. n \in Nat
  BY MoreOK
<1>2. More(s, n) = m
  BY DEF More
<1> HIDE DEF n, u, t
<1>3. m.next = s.next + n /\ m.unacked = u /\ m.cur = s.cur /\ m.batch = s.batch /\ s.next \in Nat
  BY DEF Senders
<1> HIDE DEF m
<1>4. ASSUME NEW k \in (0 .. s.next + n - 1) \ u PROVE k \in (0 .. s.next - 1) \ s.unacked
  BY <1>1, <1>3, <1>4 DEF u
<1>5. \A k \in (0 .. m.next - 1) \ m.unacked : Held(p, s.batch, k)
  <2>1. m.next - 1 = s.next + n - 1 /\ m.unacked = u
    BY <1>1, <1>3
  <2>2. (0 .. m.next - 1) \ m.unacked = (0 .. s.next + n - 1) \ u
    BY <2>1
  <2> QED  BY <1>4, <2>2 DEF Earned
<1> QED  BY <1>2, <1>3, <1>5 DEF Earned, n

\* A file of which nothing is left to send or acknowledge has arrived.
LEMMA FinishedArrived ==
  ASSUME Inv, Fresh, NEW x \in Peers, Course(x),
         NEW f \in Senders, Books(x, f), Earned(x, f), Finished(f), f.cur # None,
         Count(sending[x], snd[x]) = f.batch + 1, f.batch \in Batches(x)
  PROVE  f.batch \in Begun(x) /\ CopyAt(x, f.batch) = Content[FileAt(x, f.batch)]
<1> DEFINE b == f.batch
           c == Content[FileAt(x, b)]
           r == rcv[Other(x)]
           t == Blocks(FileAt(x, b))
<1>1. /\ FileAt(x, b) \in Files /\ c \in Seq(Unit) /\ c # <<>> /\ b \in Nat
  BY FileFacts
<1>2. t \in Nat /\ f.total = t /\ f.next \in Nat /\ f.next >= t /\ f.unacked = {}
  BY <1>1, BlocksType DEF Books, FileAt, Finished, Senders
<1>3. r.batch \in Nat /\ r.expected \in Nat
  BY BegunFacts DEF Course
<1>4. 0 < t
  <2> DEFINE z == 0
  <2>1. z \in Nat /\ z * BlockSize = 0 /\ 0 < Len(c)
    BY <1>1, BlocksAssumption, EmptySeq
  <2> HIDE DEF z, t, c
  <2>2. z < t <=> z * BlockSize < Len(c)
    BY <1>1, <2>1, BlockCount DEF t, c
  <2> QED  BY <2>1, <2>2 DEF z
<1>5. Held(x, b, t - 1)
  <2>1. t - 1 \in (0 .. f.next - 1) \ f.unacked
    BY <1>2, <1>4
  <2> QED  BY <2>1 DEF Earned
<1>6. b \in Begun(x) /\ b <= r.batch
  BY <1>5 DEF Held, Course, Opener
<1>7. r.batch = b
  <2>1. r.batch = 0 \/ r.batch < b + 1
    BY DEF Course, Opener
  <2> QED  BY <1>1, <1>3, <1>6, <2>1
<1>8. ~(r.expected < t)
  BY <1>2, <1>3, <1>5, <1>7 DEF Held
<1>9. CopyAt(x, b) = Front(c, r.expected)
  BY <1>6, <1>7 DEF Course, Opener
<1>10. ~(r.expected * BlockSize < Len(c))
  BY <1>1, <1>3, <1>8, BlockCount
<1>11. Front(c, r.expected) = c
  <2> HIDE DEF c, r
  <2> QED  BY <1>1, <1>3, <1>10, FrontWhole
<1> QED  BY <1>6, <1>9, <1>11

\* The sender as the rest of a call of _pump_sender() finds it: it has a current file that is
\* not reported yet, and has opened no file after it.
Ready(x, t) ==
  /\ t \in Senders /\ Books(x, t) /\ t.cur # None /\ Earned(x, t)
  /\ Count(sending[x], snd[x]) = t.batch + 1 /\ Sends(sending[x], snd[x])
  /\ Told(sending[x], snd[x]) = t.batch

LEMMA ReadyFacts ==
  ASSUME Inv, Fresh, Delivery, NEW x \in Peers, NEW t, Ready(x, t)
  PROVE  /\ t.batch \in Nat /\ t.batch \in Batches(x) /\ t.cur = FileAt(x, t.batch)
         /\ t.total = Blocks(t.cur) /\ t.next \in Nat /\ t.total \in Nat
         /\ \A k \in Nat : k < t.total => Data(t.cur, t.batch, k) \in Wire(x)
         /\ Course(x) /\ Settled(x, t.batch, reported[x])
         /\ Tidy(wire[x], t.batch + 1, TRUE, Begun(x), rcv[Other(x)].batch,
                 rcv[Other(x)].fd # None)
<1>1. /\ t.batch \in Nat /\ t.next \in Nat /\ t.total \in Nat /\ Len(t.queue) \in Nat
      /\ t.batch + 1 + Len(t.queue) = Len(Queue[x])
      /\ t.cur = Queue[x][t.batch + 1] /\ t.total = Blocks(t.cur)
  BY DEF Ready, Books, Senders
<1>2. t.batch < Len(Queue[x]) /\ Len(Queue[x]) \in Nat
  BY <1>1, FilesAssumption
<1>3. t.batch \in Batches(x) /\ t.cur = FileAt(x, t.batch)
  BY <1>1, <1>2 DEF Batches, FileAt
<1>4. \A k \in Nat : k < t.total => Data(t.cur, t.batch, k) \in Wire(x)
  BY <1>1, <1>2, FileFrames
<1>5. Course(x)
  BY DEF Delivery
<1>6. Settled(x, t.batch, reported[x])
  BY <1>5 DEF Course, Ready
<1>7. Tidy(wire[x], t.batch + 1, TRUE, Begun(x), rcv[Other(x)].batch, rcv[Other(x)].fd # None)
  <2>1. Sends(sending[x], snd[x]) = TRUE
    BY DEF Ready, Sends
  <2> QED  BY <1>5, <2>1 DEF Course, Flow, Ready
<1> QED  BY <1>1, <1>3, <1>4, <1>5, <1>6, <1>7

\* The end of a call: CLOSE and a report, if the file is finished.
LEMMA FinishSent ==
  ASSUME Inv, Fresh, Delivery, NEW x \in Peers, NEW t, Ready(x, t), Finish(x, t),
         UNCHANGED <<state, receiving, rcv, disk>>
  PROVE  \E frames \in Seq(Wire(x)) : Sent(x, frames)
<1> DEFINE y == Other(x)
           b == t.batch
<1>1. y \in Peers /\ y # x
  BY OtherPeer
<1>2. /\ b \in Nat /\ b \in Batches(x) /\ t.cur = FileAt(x, b)
      /\ Course(x) /\ Settled(x, b, reported[x])
      /\ Tidy(wire[x], b + 1, TRUE, Begun(x), rcv[y].batch, rcv[y].fd # None)
  BY ReadyFacts
<1>3. /\ t \in Senders /\ Books(x, t) /\ t.cur # None /\ Earned(x, t)
      /\ Count(sending[x], snd[x]) = b + 1 /\ Sends(sending[x], snd[x])
      /\ Told(sending[x], snd[x]) = b
  BY DEF Ready
<1>4. /\ snd' = [snd EXCEPT ![x] = t] /\ buf' = buf
      /\ snd \in [Peers -> Senders] /\ sending \in [Peers -> Places]
      /\ reported \in [Peers -> SUBSET Files]
  BY DEF Finish, Inv, SndOK, StateOK
<1>5. snd'[x] = t /\ snd'[y] = snd[y]
  BY <1>1, <1>4
<1>6. CASE Finished(t)
  <2> DEFINE frames == <<Close>>
  <2>1. /\ reported' = [reported EXCEPT ![x] = reported[x] \cup {t.cur}]
        /\ Write(x, frames) /\ sending' = [sending EXCEPT ![x] = "closing"]
    BY <1>6 DEF Finish, SendGoes
  <2>2. /\ reported'[x] = reported[x] \cup {t.cur} /\ reported'[y] = reported[y]
        /\ sending'[x] = "closing" /\ sending'[y] = sending[y]
    BY <1>1, <1>4, <2>1
  <2>3. frames \in Seq(Wire(x)) /\ Close \in Frames /\ Close.type = "C"
    BY ControlFrames DEF Close, Wire
  <2>4. wire'[x] = wire[x] \o frames /\ wire'[y] = wire[y]
    BY <1>1, <2>1 DEF Write, Inv, LinkOK
  <2>5. /\ Count(sending'[x], snd'[x]) = b + 1 /\ Told(sending'[x], snd'[x]) = b + 1
        /\ Sends(sending'[x], snd'[x]) = FALSE
    BY <1>2, <1>3, <1>5, <2>2 DEF Count, Told, Sends
  <2>6. Tidy(wire[x] \o frames, b + 1, FALSE, Begun(x), rcv[y].batch, rcv[y].fd # None)
    <3>1. wire[x] \in Seq(Frames)
      BY WireType
    <3> QED  BY <1>2, <2>3, <3>1, TidyDone
  <2>7. Settled(x, b + 1, reported'[x])
    <3>1. b \in Begun(x) /\ CopyAt(x, b) = Content[FileAt(x, b)]
      BY <1>2, <1>3, <1>6, FinishedArrived
    <3>2. reported'[x] = {Queue[x][i] : i \in 1..b + 1}
      <4>1. t.cur = Queue[x][b + 1]
        BY <1>2 DEF FileAt
      <4>2. 1..b + 1 = (1..b) \cup {b + 1}
        BY <1>2
      <4> QED  BY <1>2, <2>2, <4>1, <4>2 DEF Settled
    <3>3. \A d \in 0 .. (b + 1) - 1 : d = b \/ d \in 0 .. b - 1
      BY <1>2
    <3> QED  BY <1>2, <3>1, <3>2, <3>3 DEF Settled
  <2>8. \A i \in 1..Len(frames) : frames[i].type \in {"O", "D", "C", "Z"}
    BY <2>3
  <2>9. Aside(x)
    BY <1>4, <1>5, <2>2 DEF Aside
  <2>10. Count(sending[x], snd[x]) <= Count(sending'[x], snd'[x]) /\ b + 1 \in Nat
    BY <1>2, <1>3, <2>5
  <2> HIDE DEF frames
  <2>11. Sent(x, frames)
    BY <1>3, <1>5, <2>4, <2>5, <2>6, <2>7, <2>8, <2>9, <2>10 DEF Sent
  <2> QED  BY <2>3, <2>11
<1>7. CASE ~Finished(t)
  <2> DEFINE none == <<>>
  <2>1. wire' = wire /\ reported' = reported /\ sending' = [sending EXCEPT ![x] = "wait"]
    BY <1>7 DEF Finish, SendGoes
  <2>2. sending'[x] = "wait" /\ sending'[y] = sending[y]
    BY <1>1, <1>4, <2>1
  <2>3. /\ Count(sending'[x], snd'[x]) = b + 1 /\ Told(sending'[x], snd'[x]) = b
        /\ Sends(sending'[x], snd'[x]) = TRUE
    BY <1>2, <1>3, <1>5, <2>2 DEF Count, Told, Sends
  <2>4. none \in Seq(Wire(x)) /\ \A i \in 1..Len(none) : none[i].type = "Z"
    BY EmptySeq
  <2>5. Write(x, none)
    <3>1. wire[x] \o none = wire[x]
      BY WireType, ConcatEmptySeq
    <3> QED  BY <2>1, <3>1 DEF Write, Inv, LinkOK
  <2>6. Aside(x)
    BY <1>4, <1>5, <2>1, <2>2 DEF Aside
  <2>7. Sends(sending'[x], snd'[x]) = Sends(sending[x], snd[x])
    BY <1>3, <2>3 DEF Sends
  <2> HIDE DEF none
  <2>8. Sent(x, none)
    BY <1>3, <1>5, <2>1, <2>3, <2>4, <2>5, <2>6, <2>7, AddSent
  <2> QED  BY <2>4, <2>8
<1> QED  BY <1>6, <1>7

\* From "Fill Window" on.
LEMMA FillSent ==
  ASSUME Inv, Fresh, Delivery, NEW x \in Peers, NEW t, Ready(x, t), FillFrom(x, t),
         UNCHANGED <<state, receiving, rcv, disk>>
  PROVE  \E frames \in Seq(Wire(x)) : Sent(x, frames)
<1>1. CASE Unsent(t) <= 0
  BY <1>1, FinishSent DEF FillFrom
<1>2. CASE ~(Unsent(t) <= 0)
  <2> DEFINE y == Other(x)
             b == t.batch
             n == Unsent(t)
             frames == [i \in 1..n |-> Data(t.cur, b, t.next + i - 1)]
             m == More(t, n)
  <2>1. y \in Peers /\ y # x
    BY OtherPeer
  <2>2. /\ b \in Nat /\ t.next \in Nat /\ t.total \in Nat
        /\ \A k \in Nat : k < t.total => Data(t.cur, b, k) \in Wire(x)
    BY ReadyFacts
  <2>3. /\ t \in Senders /\ Books(x, t) /\ t.cur # None /\ Earned(x, t)
        /\ Count(sending[x], snd[x]) = b + 1 /\ Sends(sending[x], snd[x])
        /\ Told(sending[x], snd[x]) = b
    BY DEF Ready
  <2>4. n > 0
    <3>1. n \in Int
      BY <2>3, UnsentType
    <3> QED  BY <1>2, <3>1
  <2>5. /\ n \in Nat /\ t.next + n <= t.total /\ Earned(x, m)
    BY <2>3, <2>4, MoreOK, MoreEarned
  <2>6. m.batch = b /\ m.cur = t.cur
    BY <2>3 DEF More, Senders
  <2>7. /\ snd' = [snd EXCEPT ![x] = m] /\ Write(x, buf[x] \o frames)
        /\ buf' = [buf EXCEPT ![x] = <<>>]
        /\ sending' = [sending EXCEPT ![x] = "flushed"] /\ reported' = reported
    BY <1>2 DEF FillFrom, SendGoes, More
  <2> HIDE DEF n, m
  <2>8. ASSUME NEW i \in 1..n PROVE Data(t.cur, b, t.next + i - 1) \in Wire(x)
    <3>1. t.next + i - 1 \in Nat /\ t.next + i - 1 < t.total
      BY <2>2, <2>5
    <3> QED  BY <2>2, <3>1
  <2>9. frames \in Seq(Wire(x))
    BY <2>5, <2>8, IsASeq
  <2>10. \A i \in 1..Len(frames) : frames[i].type = "D" /\ frames[i].batch = (b + 1) - 1
    <3>1. Len(frames) = n /\ \A i \in 1..n : frames[i] = Data(t.cur, b, t.next + i - 1)
      BY <2>5
    <3> HIDE DEF frames
    <3> QED  BY <2>2, <3>1 DEF Data
  <2> HIDE DEF frames
  <2>11. buf[x] \o frames = frames /\ buf' = buf
    <3>1. buf[x] = <<>>
      BY DEF Delivery, Plain
    <3> QED  BY <2>7, <2>9, <3>1, ConcatEmptySeq DEF Inv, LinkOK
  <2>12. /\ snd'[x] = m /\ snd'[y] = snd[y] /\ sending'[x] = "flushed" /\ sending'[y] = sending[y]
    BY <2>1, <2>7 DEF Inv, SndOK
  <2>13. /\ Count(sending'[x], snd'[x]) = b + 1 /\ Told(sending'[x], snd'[x]) = b
         /\ Sends(sending'[x], snd'[x]) = Sends(sending[x], snd[x])
    BY <2>2, <2>3, <2>6, <2>12 DEF Count, Told, Sends
  <2>14. Aside(x)
    BY <2>7, <2>11, <2>12 DEF Aside
  <2>15. Sent(x, frames)
    <3>1. Write(x, frames) /\ Earned(x, snd'[x]) /\ reported' = reported
      BY <2>5, <2>7, <2>11, <2>12
    <3>2. \A i \in 1..Len(frames) :
            \/ frames[i].type = "Z"
            \/ /\ frames[i].type = "D" /\ Sends(sending[x], snd[x])
               /\ frames[i].batch = Count(sending[x], snd[x]) - 1
      BY <2>3, <2>10
    <3>3. /\ Count(sending'[x], snd'[x]) = Count(sending[x], snd[x])
          /\ Sends(sending'[x], snd'[x]) = Sends(sending[x], snd[x])
          /\ Told(sending'[x], snd'[x]) = Told(sending[x], snd[x])
      BY <2>3, <2>13
    <3> QED  BY <2>9, <2>14, <3>1, <3>2, <3>3, AddSent
  <2> QED  BY <2>9, <2>15
<1> QED  BY <1>1, <1>2

\* OPEN: one more file is begun by the sender, although it is not yet the current one.
LEMMA OpenNextSent ==
  ASSUME Inv, Fresh, Delivery, NEW x \in Peers, OpenNext(x)
  PROVE  \E frames \in Seq(Wire(x)) : Sent(x, frames)
<1> DEFINE y == Other(x)
           s == snd[x]
           b == s.batch
           m == Open(Head(s.queue), b)
           frames == <<m>>
<1>1. y \in Peers /\ y # x /\ Course(x)
  BY OtherPeer DEF Delivery
<1>2. /\ sending[x] = "wait" /\ s.cur = None /\ s.queue # <<>>
      /\ Write(x, frames) /\ sending' = [sending EXCEPT ![x] = "opening"] /\ snd' = snd
  BY DEF OpenNext, Wakes, SendGoes
<1>3. s \in Senders /\ Books(x, s)
  BY DEF Inv, SndOK
<1>4. /\ b \in Nat /\ Count(sending[x], s) = b /\ Told(sending[x], s) = b
      /\ Sends(sending[x], s) = FALSE
  BY <1>2, <1>3 DEF Senders, Count, Told, Sends
<1>5. b < Len(Queue[x]) /\ Head(s.queue) = Queue[x][b + 1]
  <2>1. /\ s.queue \in Seq(Files) /\ b + 0 + Len(s.queue) = Len(Queue[x])
        /\ \A i \in 1..Len(s.queue) : s.queue[i] = Queue[x][b + 0 + i]
    BY <1>2, <1>3 DEF Books, Senders
  <2>2. Len(s.queue) \in Nat /\ Len(s.queue) > 0 /\ Head(s.queue) = s.queue[1]
    BY <1>2, <2>1, Rest
  <2>3. 1 \in 1..Len(s.queue) /\ b + 0 + 1 = b + 1
    BY <1>4, <2>2
  <2>4. s.queue[1] = Queue[x][b + 1]
    BY <2>1, <2>3
  <2>5. Len(Queue[x]) \in Nat
    BY FilesAssumption
  <2> QED  BY <1>4, <2>1, <2>2, <2>4, <2>5
<1>6. m \in Wire(x) /\ m.type = "O" /\ m.batch = b
  BY <1>4, <1>5, FileFrames DEF Open
<1> HIDE DEF m
<1>7. /\ frames \in Seq(Wire(x)) /\ m \in Frames
      /\ \A i \in 1..Len(frames) : frames[i].type \in {"O", "D", "C", "Z"}
  BY <1>6 DEF Wire
<1>8. wire'[x] = wire[x] \o frames /\ wire'[y] = wire[y]
  BY <1>1, <1>2 DEF Write, Inv, LinkOK
<1>9. snd'[x] = s /\ sending'[x] = "opening" /\ sending'[y] = sending[y]
  BY <1>1, <1>2 DEF Inv, SndOK
<1>10. /\ Count(sending'[x], snd'[x]) = b + 1 /\ Told(sending'[x], snd'[x]) = b
       /\ Sends(sending'[x], snd'[x]) = TRUE
  BY <1>2, <1>4, <1>9 DEF Count, Told, Sends
<1>11. Aside(x) /\ reported' = reported
  BY <1>2, <1>9 DEF Aside, OpenNext
<1>12. Tidy(wire[x] \o frames, b + 1, TRUE, Begun(x), rcv[y].batch, rcv[y].fd # None)
  <2>1. wire[x] \in Seq(Frames) /\ \A d \in Begun(x) : d \in Nat
    BY <1>1, WireType, BegunFacts DEF Course
  <2>2. Tidy(wire[x], b, FALSE, Begun(x), rcv[y].batch, rcv[y].fd # None)
    BY <1>1, <1>4 DEF Course, Flow
  <2> QED  BY <1>4, <1>6, <1>7, <2>1, <2>2, TidyNew
<1>13. Earned(x, snd'[x]) /\ Settled(x, Told(sending'[x], snd'[x]), reported'[x])
  BY <1>1, <1>4, <1>9, <1>10, <1>11 DEF Course
<1>14. b + 1 \in Nat /\ Count(sending[x], snd[x]) <= Count(sending'[x], snd'[x])
  BY <1>4, <1>10
<1> HIDE DEF frames
<1>15. Sent(x, frames)
  BY <1>7, <1>8, <1>10, <1>11, <1>12, <1>13, <1>14 DEF Sent
<1> QED  BY <1>7, <1>15

\* The stretches that end in "Fill Window" or behind it.
LEMMA FillReady ==
  ASSUME Inv, Fresh, Delivery, NEW x \in Peers,
         OpenSent(x) \/ Pump(x) \/ Resent(x) \/ Flushed(x)
  PROVE  /\ UNCHANGED <<state, receiving, rcv, disk>>
         /\ \E t : Ready(x, t) /\ (FillFrom(x, t) \/ Finish(x, t))
<1> DEFINE s == snd[x]
<1>1. /\ s \in Senders /\ Books(x, s) /\ Relies(sending[x], s) /\ Earned(x, s) /\ s.batch \in Nat
  BY DEF Inv, SndOK, Delivery, Course, Senders
<1>2. UNCHANGED <<state, receiving, rcv, disk>>
  BY DEF OpenSent, Pump, Resent, Flushed
<1>3. ASSUME s.cur # None, sending[x] \notin {"opening", "closing"} PROVE Ready(x, s)
  BY <1>1, <1>3 DEF Ready, Count, Sends, Told
<1>4. CASE OpenSent(x)
  <2> DEFINE t == Opened(s)
  <2>1. sending[x] = "opening" /\ FillFrom(x, t)
    BY <1>4 DEF OpenSent, AtAwait
  <2>2. t \in Senders /\ Books(x, t) /\ t.cur # None
    BY <1>1, <2>1, OpenedOK
  <2>3. t.next = 0 /\ t.batch = s.batch
    BY <1>1 DEF Opened, Senders
  <2> HIDE DEF t
  <2>4. Earned(x, t)
    <3>1. 0 .. t.next - 1 = {}
      BY <2>3
    <3> QED  BY <3>1 DEF Earned
  <2>5. Ready(x, t)
    BY <1>1, <2>1, <2>2, <2>3, <2>4 DEF Ready, Count, Sends, Told
  <2> QED  BY <1>2, <2>1, <2>5
<1>5. CASE Pump(x)
  <2>1. s.cur # None /\ sending[x] = "wait" /\ FillFrom(x, s)
    BY <1>5 DEF Pump, Wakes
  <2>2. Ready(x, s)
    BY <1>3, <2>1
  <2> QED  BY <1>2, <2>1, <2>2
<1>6. CASE Resent(x)
  <2> DEFINE d == s.timed \cup {s.oldest}
             zero == 0
             t == [s EXCEPT !.timed = d, !.oldest = zero]
  <2>1. sending[x] = "resent" /\ FillFrom(x, t)
    BY <1>6 DEF Resent, AtAwait
  <2>2. s.cur # None
    BY <1>1, <2>1 DEF Relies
  <2>3. d \in SUBSET Nat /\ s.timed \subseteq d /\ zero \in Nat
    BY <1>1 DEF Senders
  <2> HIDE DEF d, zero
  <2>4. /\ t \in Senders /\ t.cur = s.cur /\ t.queue = s.queue /\ t.unacked = s.unacked
        /\ t.next = s.next /\ t.total = s.total /\ t.batch = s.batch /\ t.timed = d
    BY <1>1, <2>3 DEF Senders
  <2> HIDE DEF t
  <2>5. Books(x, t)
    BY <1>1, <2>3, <2>4 DEF Books
  <2>6. Earned(x, t)
    BY <1>1, <2>4 DEF Earned
  <2>7. Ready(x, s)
    BY <1>3, <2>1, <2>2
  <2>8. Ready(x, t)
    BY <2>2, <2>4, <2>5, <2>6, <2>7 DEF Ready
  <2> QED  BY <1>2, <2>1, <2>8
<1>7. CASE Flushed(x)
  <2>1. sending[x] = "flushed" /\ Finish(x, s)
    BY <1>7 DEF Flushed, AtAwait
  <2>2. s.cur # None
    BY <1>1, <2>1 DEF Relies
  <2>3. Ready(x, s)
    BY <1>3, <2>1, <2>2
  <2> QED  BY <1>2, <2>1, <2>3
<1> QED  BY <1>4, <1>5, <1>6, <1>7

\* They write frames, and the files of x keep their course.
LEMMA FillActionsSent ==
  ASSUME Inv, Fresh, Delivery, NEW x \in Peers,
         OpenSent(x) \/ Pump(x) \/ Resent(x) \/ Flushed(x)
  PROVE  \E frames \in Seq(Wire(x)) : Sent(x, frames)
BY FillReady, FillSent, FinishSent

\* An ARQ timeout writes the oldest block again.
LEMMA TimeoutSent ==
  ASSUME Inv, Fresh, Delivery, NEW x \in Peers, Timeout(x)
  PROVE  \E frames \in Seq(Wire(x)) : Sent(x, frames)
<1> DEFINE y == Other(x)
           s == snd[x]
           k == Oldest(s.unacked)
           h == Halved(s)
           t == [h EXCEPT !.oldest = k]
           m == Data(s.cur, s.batch, k)
           frames == <<m>>
<1>1. y \in Peers /\ y # x /\ Earned(x, s)
  BY OtherPeer DEF Delivery, Course
<1>2. /\ sending[x] = "wait" /\ s.unacked # {} /\ snd' = [snd EXCEPT ![x] = t]
      /\ Write(x, frames) /\ sending' = [sending EXCEPT ![x] = "resent"]
      /\ reported' = reported /\ UNCHANGED <<state, receiving, rcv, disk, buf>>
  BY DEF Timeout, Wakes, SendGoes
<1>3. s \in Senders /\ Books(x, s) /\ s.unacked \in SUBSET Nat
  BY DEF Inv, SndOK, Senders
<1>4. k \in s.unacked /\ k \in Nat
  BY <1>2, <1>3, OldestType
<1>5. /\ m \in Wire(x) /\ m.type = "D" /\ m.batch = Count(sending[x], s) - 1
      /\ Sends(sending[x], s) /\ s.cur # None
  BY <1>4, WindowFrame
<1>6. /\ h \in Senders /\ h.cur = s.cur /\ h.unacked = s.unacked /\ h.next = s.next
      /\ h.batch = s.batch
  BY <1>3, HalvedOK
<1> HIDE DEF h, k, m
<1>7. t.cur = s.cur /\ t.unacked = s.unacked /\ t.next = s.next /\ t.batch = s.batch
  BY <1>6 DEF Senders
<1> HIDE DEF t
<1>8. /\ snd'[x] = t /\ snd'[y] = snd[y] /\ sending'[x] = "resent" /\ sending'[y] = sending[y]
  BY <1>1, <1>2 DEF Inv, SndOK
<1>9. /\ Count(sending'[x], snd'[x]) = Count(sending[x], snd[x])
      /\ Sends(sending'[x], snd'[x]) = Sends(sending[x], snd[x])
      /\ Told(sending'[x], snd'[x]) = Told(sending[x], snd[x])
  BY <1>2, <1>7, <1>8 DEF Count, Sends, Told
<1>10. Earned(x, snd'[x])
  BY <1>1, <1>7, <1>8 DEF Earned
<1>11. Aside(x)
  BY <1>2, <1>8 DEF Aside
<1>12. frames \in Seq(Wire(x)) /\ \A i \in 1..Len(frames) : frames[i] = m
  BY <1>5
<1> HIDE DEF frames
<1>13. Sent(x, frames)
  BY <1>2, <1>5, <1>9, <1>10, <1>11, <1>12, AddSent
<1> QED  BY <1>12, <1>13

\* The steps without a current file, and the one that gives it up.
LEMMA IdleSent ==
  ASSUME Inv, Fresh, Delivery, NEW x \in Peers, AllSent(x) \/ DoneSent(x) \/ CloseSent(x)
  PROVE  \E frames \in Seq(Wire(x)) : Sent(x, frames)
<1> DEFINE y == Other(x)
           s == snd[x]
           none == <<>>
<1>1. y \in Peers /\ y # x /\ Earned(x, s)
  BY OtherPeer DEF Delivery, Course
<1>2. /\ s \in Senders /\ s.batch \in Nat /\ Relies(sending[x], s)
      /\ snd \in [Peers -> Senders] /\ sending \in [Peers -> Places]
  BY DEF Inv, SndOK, Senders
<1>3. none \in Seq(Wire(x)) /\ (\A i \in 1..Len(none) : none[i].type = "Z")
      /\ wire[x] \o none = wire[x]
  BY WireType, ConcatEmptySeq, EmptySeq
<1> HIDE DEF none
<1>4. /\ UNCHANGED <<state, receiving, rcv, disk, buf>> /\ reported' = reported
  BY DEF AllSent, DoneSent, CloseSent, links
<1>5. \E frames \in Seq(Wire(x)) :
        Write(x, frames) /\ \A i \in 1..Len(frames) : frames[i].type = "Z"
  <2>1. CASE wire' = wire
    <3>1. Write(x, none)
      BY <1>3, <2>1 DEF Write, Inv, LinkOK
    <3> QED  BY <1>3, <3>1
  <2>2. CASE Write(x, <<Done>>)
    <3>1. <<Done>> \in Seq(Wire(x)) /\ \A i \in 1..Len(<<Done>>) : <<Done>>[i].type = "Z"
      BY ControlFrames DEF Done
    <3> QED  BY <2>2, <3>1
  <2> QED  BY <2>1, <2>2 DEF AllSent, DoneSent, CloseSent, links
<1>6. PICK frames \in Seq(Wire(x)) :
        Write(x, frames) /\ \A i \in 1..Len(frames) : frames[i].type = "Z"
  BY <1>5
<1>7. /\ Aside(x)
      /\ Count(sending'[x], snd'[x]) = Count(sending[x], s)
      /\ Sends(sending'[x], snd'[x]) = Sends(sending[x], s)
      /\ Told(sending'[x], snd'[x]) = Told(sending[x], s)
      /\ Earned(x, snd'[x])
  <2>1. CASE AllSent(x) \/ DoneSent(x)
    <3>1. /\ s.cur = None /\ sending[x] \in {"wait", "ending"}
      BY <1>2, <2>1 DEF AllSent, DoneSent, Wakes, AtAwait, Relies
    <3>2. /\ sending'[x] \in {"wait", "ending"} /\ sending'[y] = sending[y]
      BY <1>1, <1>2, <2>1, <3>1 DEF AllSent, DoneSent, SendGoes
    <3>3. snd' = snd \/ snd' = [snd EXCEPT ![x].sentZ = TRUE]
      BY <2>1 DEF AllSent, DoneSent
    <3>4. snd'[y] = snd[y] /\ snd'[x].cur = None /\ snd'[x].batch = s.batch
      BY <1>1, <1>2, <3>1, <3>3 DEF Senders
    <3>5. Aside(x)
      BY <1>4, <3>2, <3>4 DEF Aside
    <3> QED  BY <1>2, <3>1, <3>2, <3>4, <3>5 DEF Count, Sends, Told, Earned
  <2>2. CASE CloseSent(x)
    <3>1. sending[x] = "closing" /\ s.cur # None
      BY <1>2, <2>2 DEF CloseSent, AtAwait, Relies
    <3>2. /\ sending' = [sending EXCEPT ![x] = "wait"]
          /\ snd' = [snd EXCEPT ![x] = [s EXCEPT !.cur = None, !.batch = s.batch + 1]]
      BY <1>2, <2>2 DEF CloseSent, SendGoes
    <3>3. sending'[x] = "wait" /\ sending'[y] = sending[y] /\ snd'[y] = snd[y]
      BY <1>1, <1>2, <3>2
    <3>4. snd'[x].cur = None /\ snd'[x].batch = s.batch + 1
      BY <1>2, <3>2 DEF Senders
    <3>5. Aside(x)
      BY <1>4, <3>3 DEF Aside
    <3> QED  BY <1>2, <3>1, <3>3, <3>4, <3>5 DEF Count, Sends, Told, Earned
  <2> QED  BY <2>1, <2>2
<1>8. Sent(x, frames)
  <2>1. \A i \in 1..Len(frames) :
          \/ frames[i].type = "Z"
          \/ /\ frames[i].type = "D" /\ Sends(sending[x], snd[x])
             /\ frames[i].batch = Count(sending[x], snd[x]) - 1
    BY <1>6
  <2> QED  BY <1>4, <1>6, <1>7, <2>1, AddSent
<1> QED  BY <1>8

\* Whatever the send task does, it writes frames and the files keep their course.
LEMMA SendTaskSent ==
  ASSUME Inv, Fresh, Delivery, NEW x \in Peers, SendTask(x) \/ Timeout(x)
  PROVE  \E frames \in Seq(Wire(x)) : Sent(x, frames)
BY OpenNextSent, FillActionsSent, TimeoutSent, IdleSent DEF SendTask

-----------------------------------------------------------------------------
(***************************************************************************)
(* Every step.                                                             *)
(***************************************************************************)
\* What a step of x has to respect so that a receiver in INIT meets RQ first, and nobody
\* skips, verifies or resumes a file.
LEMMA LinkStep ==
  ASSUME Inv, Delivery, NEW x \in Peers, NEW frames \in Seq(Wire(x)),
         wire'[x] = wire[x] \o frames,
         \/ wire'[Other(x)] = wire[Other(x)] /\ (state'[x] = "INIT" => state[x] = "INIT")
         \/ /\ wire[Other(x)] # <<>> /\ wire'[Other(x)] = Tail(wire[Other(x)])
            /\ state'[x] # "INIT",
         state'[Other(x)] = state[Other(x)], buf' = buf,
         receiving'[x] # "verify", receiving'[Other(x)] = receiving[Other(x)],
         \A i \in 1..Len(frames) : frames[i].type \notin {"K", "V", "S"}
  PROVE  \A p \in Peers : Greeted(p)' /\ Plain(p)'
<1> DEFINE y == Other(x)
           w == wire[x]
           v == wire[y]
<1>1. y \in Peers /\ Other(y) = x /\ \A p \in Peers : p = x \/ p = y
  BY OtherPeer DEF Peers, Other
<1>2. w \in Seq(Wire(x)) /\ v \in Seq(Wire(y))
  BY <1>1, WireType
<1>3. /\ \A i \in 1..Len(w) : w[i].type \notin {"K", "V", "S"}
      /\ \A i \in 1..Len(v) : v[i].type \notin {"K", "V", "S"}
      /\ buf[x] = <<>> /\ buf[y] = <<>> /\ receiving[y] # "verify"
  BY <1>1 DEF Delivery, Plain
<1>4. Greeted(x)'
  <2>1. SUFFICES ASSUME state[y] = "INIT"
                 PROVE  w \o frames # <<>> /\ Head(w \o frames) = RQ
    BY <1>1 DEF Greeted
  <2>2. w # <<>> /\ Head(w) = RQ
    BY <1>1, <2>1 DEF Delivery, Greeted
  <2> HIDE DEF w
  <2>3. w \o frames # <<>> /\ Head(w \o frames) = Head(w)
    BY <1>2, <2>2, FirstOfTwo, Zenon
  <2> QED  BY <2>2, <2>3
<1>5. Greeted(y)'
  BY <1>1 DEF Delivery, Greeted
<1>6. Plain(x)'
  <2> HIDE DEF w
  <2>1. SUFFICES ASSUME NEW i \in 1..Len(w \o frames)
                 PROVE  (w \o frames)[i].type \notin {"K", "V", "S"}
    BY <1>3 DEF Plain, w
  <2>2. Len(w) \in Nat /\ Len(frames) \in Nat /\ Len(w \o frames) = Len(w) + Len(frames)
    BY <1>2, Joined
  <2>3. CASE i \in 1..Len(w)
    BY <1>2, <1>3, <2>3, Joined
  <2>4. CASE i \notin 1..Len(w)
    <3>1. i - Len(w) \in 1..Len(frames) /\ Len(w) + (i - Len(w)) = i
      BY <2>2, <2>4
    <3>2. (w \o frames)[i] = frames[i - Len(w)]
      BY <1>2, <3>1, Joined
    <3> QED  BY <3>1, <3>2
  <2> QED  BY <2>3, <2>4
<1>7. Plain(y)'
  <2>1. v # <<>> => \A i \in 1..Len(Tail(v)) : Tail(v)[i].type \notin {"K", "V", "S"}
    <3> HIDE DEF v
    <3> QED  BY <1>2, <1>3, Rest
  <2> QED  BY <1>1, <1>3, <2>1 DEF Plain
<1> QED  BY <1>1, <1>4, <1>5, <1>6, <1>7

\* A peer that takes a packet is not in INIT afterwards: RQ ends that state, and nothing
\* else comes before it.
LEMMA TakingEndsInit ==
  ASSUME Inv, Fresh, Delivery, NEW x \in Peers, RecvTask(x) \/ Lose(x), ~Answered(x)
  PROVE  state'[x] # "INIT" /\ state'[Other(x)] = state[Other(x)]
<1>1. /\ ~HandleSkip(x) /\ ~HandleVerify(x) /\ ~HandleSeek(x) /\ ~VerifySent(x)
      /\ HandleOpen(x) => OpenFresh(x)
  BY ReceiveAnswers
<1>2. CASE Handshake(x)
  BY <1>2, OtherPeer DEF Handshake, Inv, StateOK
<1>3. CASE ~Handshake(x)
  <2>1. state' = state
    BY <1>1, <1>3 DEF RecvTask, HandleAck, HandleNak, OpenFresh, DataExpected, DataUnexpected,
       HandleClose, Ignore, Lose, Transferring
  <2>2. CASE Ignore(x) \/ Lose(x)
    <3>1. SUFFICES ASSUME state[x] = "INIT" PROVE FALSE
      BY <2>1
    <3>2. wire[Other(x)] # <<>>
      BY <2>2 DEF Ignore, Lose
    <3>3. Packet(x).type = "RQ"
      BY <3>1, <3>2, PacketFacts DEF Delivery, Greeted, RQ
    <3> QED  BY <2>2, <3>1, <3>3 DEF Ignore, Lose, Ineffective, Fresh
  <2>3. CASE ~Ignore(x) /\ ~Lose(x)
    BY <1>1, <1>3, <2>1, <2>3 DEF RecvTask, HandleAck, HandleNak, OpenFresh, DataExpected,
       DataUnexpected, HandleClose, Transferring
  <2> QED  BY <2>1, <2>2, <2>3
<1> QED  BY <1>2, <1>3

\* Delivery is kept by every step.
LEMMA NextDelivery == ASSUME Inv, Fresh, Delivery, [Next]_vars PROVE Delivery'
<1>0. \A x, p \in Peers : p = x \/ p = Other(x)
  BY DEF Peers, Other
<1>1. ASSUME NEW x \in Peers, SendTask(x) \/ Timeout(x) PROVE Delivery'
  <2>1. PICK frames \in Seq(Wire(x)) : Sent(x, frames)
    BY <1>1, SendTaskSent
  <2>2. Course(x)' /\ Course(Other(x))'
    BY <2>1, SentCourse
  <2>3. /\ wire'[x] = wire[x] \o frames /\ wire'[Other(x)] = wire[Other(x)]
        /\ state' = state /\ buf' = buf /\ receiving' = receiving
        /\ \A i \in 1..Len(frames) : frames[i].type \notin {"K", "V", "S"}
    BY <2>1 DEF Sent, Aside
  <2>4. receiving[x] # "verify"
    BY DEF Delivery, Plain
  <2>5. \A p \in Peers : Greeted(p)' /\ Plain(p)'
    BY <2>3, <2>4, LinkStep
  <2> QED  BY <1>0, <2>2, <2>5 DEF Delivery
<1>2. ASSUME NEW x \in Peers, RecvTask(x) \/ Lose(x), ~Answered(x) PROVE Delivery'
  <2>1. PICK frames \in Seq(Wire(x)) : Answers(x, frames)
    BY <1>2, ReceiveAnswers
  <2>2. Course(x)' /\ Course(Other(x))'
    BY <1>2, ReceiveOutgoing, ReceiveIncoming
  <2>3. /\ wire'[x] = wire[x] \o frames /\ buf' = buf
        /\ wire[Other(x)] # <<>> /\ wire'[Other(x)] = Tail(wire[Other(x)])
        /\ \A i \in 1..Len(frames) : frames[i].type \notin {"K", "V", "S"}
    BY <2>1 DEF Answers, Taking
  <2>4. receiving'[x] # "verify" /\ receiving'[Other(x)] = receiving[Other(x)]
    <3>1. receiving[x] # "verify"
      BY DEF Delivery, Plain
    <3> QED  BY <1>2, <3>1, ReceiveAnswers
  <2>5. state'[x] # "INIT" /\ state'[Other(x)] = state[Other(x)]
    BY <1>2, TakingEndsInit
  <2>6. \A p \in Peers : Greeted(p)' /\ Plain(p)'
    BY <2>3, <2>4, <2>5, LinkStep
  <2> QED  BY <1>0, <2>2, <2>6 DEF Delivery
<1>3. ASSUME wire' = wire, buf' = buf, rcv' = rcv, disk' = disk, sending' = sending, snd' = snd,
             reported' = reported,
             \A p \in Peers : /\ state'[p] = "INIT" => state[p] = "INIT"
                              /\ receiving'[p] = "verify" => receiving[p] = "verify"
      PROVE  Delivery'
  <2>1. \A p \in Peers : Other(p) \in Peers /\ Course(p)
    BY OtherPeer DEF Delivery
  <2>2. \A p \in Peers : Course(p)'
    BY <1>3, <2>1, SameCourse
  <2>3. \A p \in Peers : Greeted(p)' /\ Plain(p)'
    BY <1>3, <2>1 DEF Delivery, Greeted, Plain
  <2> QED  BY <2>2, <2>3 DEF Delivery
<1>4. ASSUME NEW x \in Peers, Answered(x) PROVE Delivery'
  <2>1. \A p \in Peers : receiving'[p] = "verify" => receiving[p] = "verify"
    BY <1>4 DEF Answered, RecvGoes, Inv, RecvOK
  <2> QED  BY <1>3, <1>4, <2>1 DEF Answered, links
<1>5. ASSUME NEW x \in Peers, IdleTimeout(x) \/ ConnectionClosed(x) PROVE Delivery'
  <2>1. \A p \in Peers : state'[p] = "INIT" => state[p] = "INIT"
    BY <1>5 DEF IdleTimeout, ConnectionClosed, Inv, StateOK
  <2> QED  BY <1>3, <1>5, <2>1 DEF IdleTimeout, ConnectionClosed, links, tasks
<1>6. ~Reconnect
  BY DEF Reconnect, Fresh, Inv, BudgetsOK
<1>7. CASE UNCHANGED vars
  BY <1>3, <1>7 DEF vars, links, tasks
<1> QED  BY <1>1, <1>2, <1>4, <1>5, <1>6, <1>7 DEF Next, Terminated

\* A session starts with RQ on each link and no file begun.
LEMMA InitDelivery == ASSUME Init, Fresh PROVE Delivery
<1> SUFFICES ASSUME NEW p \in Peers PROVE Greeted(p) /\ Plain(p) /\ Course(p)
  BY DEF Delivery
<1>1. Other(p) \in Peers /\ Other(Other(p)) = p
  BY OtherPeer
<1>2. wire[p] = <<RQ>> /\ wire[Other(p)] = <<RQ>>
  BY <1>1 DEF Init, Start
<1>3. /\ snd[p].batch = 0 /\ snd[p].cur = None /\ sending[p] = "wait"
      /\ receiving[p] = "read" /\ buf[p] = <<>>
      /\ rcv[Other(p)].fd = None /\ rcv[Other(p)].batch = 0 /\ reported[p] = {}
      /\ disk = OnDisk
  BY <1>1 DEF Init, Start, NewSender, NewReceiver
<1>4. Begun(p) = {}
  BY <1>3 DEF Begun, CopyAt, Copy, Fresh
<1>5. Len(<<RQ>>) = 1 /\ \A i \in 1..Len(<<RQ>>) : <<RQ>>[i].type = "RQ"
  BY DEF RQ
<1>6. Greeted(p) /\ Plain(p)
  BY <1>2, <1>3, <1>5 DEF Greeted, Plain
<1>7. Opener(p) /\ Earned(p, snd[p]) /\ Vouched(p, wire[Other(p)])
  BY <1>2, <1>3, <1>4, <1>5 DEF Opener, Earned, Vouched
<1>8. /\ Count(sending[p], snd[p]) = 0 /\ Told(sending[p], snd[p]) = 0
      /\ Sends(sending[p], snd[p]) = FALSE
  BY <1>3 DEF Count, Told, Sends
<1>9. Settled(p, Told(sending[p], snd[p]), reported[p])
  BY <1>3, <1>8 DEF Settled
<1>10. Flow(p)
  <2> DEFINE w == wire[p]
  <2>1. Len(w) = 1 /\ \A i \in 1..Len(w) : w[i].type = "RQ"
    BY <1>2, <1>5
  <2> HIDE DEF w
  <2>2. Tidy(w, 0, FALSE, {}, rcv[Other(p)].batch, FALSE)
    BY <2>1 DEF Tidy, InOrder, Ahead, Reaches, OfFile
  <2>3. Tidy(w, Count(sending[p], snd[p]), Sends(sending[p], snd[p]), Begun(p),
             rcv[Other(p)].batch, rcv[Other(p)].fd # None)
    BY <1>3, <1>4, <1>8, <2>2
  <2> QED  BY <2>3 DEF Flow, w
<1> QED  BY <1>6, <1>7, <1>9, <1>10 DEF Course

\* Under Fresh, Delivery holds with Inv in every reachable state.
LEMMA DeliveryInvariance == ASSUME Fresh PROVE Spec => [](Inv /\ Delivery)
<1>1. Init => Delivery
  BY InitDelivery
<1>2. Inv /\ Delivery /\ [Next]_vars => Delivery'
  BY NextDelivery
<1> QED  BY <1>1, <1>2, InitOK, NextOK, PTL DEF Spec

-----------------------------------------------------------------------------
(***************************************************************************)
(* What follows from the course of the transfer.                           *)
(***************************************************************************)
\* A block outside the window is Earned, hence held.
LEMMA DeliveryAcked == Inv /\ Fresh /\ Delivery => AckedIsStored
<1> SUFFICES ASSUME Inv, Fresh, Delivery, NEW p \in Peers, snd[p].cur # None,
                    NEW k \in (0 .. snd[p].next - 1) \ snd[p].unacked
             PROVE  /\ Copy(p, snd[p].cur) # Absent
                    /\ Chunk(Copy(p, snd[p].cur), k) = Chunk(Content[snd[p].cur], k)
  BY DEF AckedIsStored
<1> DEFINE b == snd[p].batch
           r == rcv[Other(p)]
           c == Content[FileAt(p, b)]
<1>1. /\ b \in Batches(p) /\ snd[p].cur = FileAt(p, b)
      /\ Count(sending[p], snd[p]) = b + 1 /\ snd[p].next \in Nat
  BY CountFacts
<1>2. b \in Nat /\ c \in Seq(Unit)
  BY <1>1, FileFacts
<1>3. Course(p) /\ r.batch \in Nat /\ r.expected \in Nat
  BY BegunFacts DEF Delivery, Course
<1>4. Held(p, b, k)
  BY <1>3 DEF Course, Earned
<1>5. b \in Begun(p) /\ b <= r.batch
  BY <1>3, <1>4 DEF Course, Opener, Held
<1>6. r.batch = b
  <2>1. r.batch = 0 \/ r.batch < b + 1
    BY <1>1, <1>3 DEF Course, Opener
  <2> QED  BY <1>2, <1>3, <1>5, <2>1
<1>7. k \in Nat /\ k < r.expected
  BY <1>1, <1>4, <1>6 DEF Held
<1>8. Copy(p, snd[p].cur) # Absent /\ Copy(p, snd[p].cur) = Front(c, r.expected)
  BY <1>1, <1>3, <1>5, <1>6 DEF Course, Opener, Begun, CopyAt
<1> HIDE DEF c, r
<1>9. Chunk(Front(c, r.expected), k) = Chunk(c, k)
  BY <1>2, <1>3, <1>7, FrontChunk
<1> QED  BY <1>1, <1>8, <1>9 DEF c

\* A reported file is whole.
Whole == \A p \in Peers : \A f \in reported[p] : Copy(p, f) = Content[f]

\* What is reported by p are files of p that are Settled.
LEMMA ReportedOwn ==
  ASSUME Inv, Delivery, NEW p \in Peers, NEW f \in reported[p]
  PROVE  \E b \in 0 .. Told(sending[p], snd[p]) - 1 :
           b \in Begun(p) /\ f = FileAt(p, b) /\ CopyAt(p, b) = Content[FileAt(p, b)]
<1> DEFINE n == Told(sending[p], snd[p])
<1>1. n \in Nat
  BY CountFacts
<1>2. Settled(p, n, reported[p])
  BY DEF Delivery, Course
<1> HIDE DEF n
<1>3. PICK i \in 1..n : f = Queue[p][i]
  BY <1>2 DEF Settled
<1>4. i - 1 \in 0 .. n - 1 /\ (i - 1) + 1 = i
  BY <1>1
<1>5. i - 1 \in Begun(p) /\ CopyAt(p, i - 1) = Content[FileAt(p, i - 1)]
  BY <1>2, <1>4 DEF Settled
<1>6. f = FileAt(p, i - 1)
  BY <1>3, <1>4 DEF FileAt
<1> QED  BY <1>4, <1>5, <1>6 DEF n

\* Hence it is whole.
LEMMA DeliveryWhole == Inv /\ Delivery => Whole
BY ReportedOwn DEF Whole, CopyAt

\* Only the end of a call of _pump_sender() reports a file.
LEMMA ReportedStays ==
  ASSUME Inv, [Next]_vars PROVE \A p \in Peers : reported[p] \subseteq reported'[p]
<1>1. reported \in [Peers -> SUBSET Files]
  BY DEF Inv, StateOK
<1>2. ASSUME NEW x \in Peers, NEW t, FillFrom(x, t) \/ Finish(x, t)
      PROVE  \A p \in Peers : reported[p] \subseteq reported'[p]
  BY <1>1, <1>2 DEF FillFrom, Finish
<1>3. ASSUME NEW x \in Peers, OpenSent(x) \/ Pump(x) \/ Resent(x) \/ Flushed(x)
      PROVE  \A p \in Peers : reported[p] \subseteq reported'[p]
  BY <1>2, <1>3 DEF OpenSent, Pump, Resent, Flushed
<1>4. ASSUME NEW x \in Peers,
             AllSent(x) \/ DoneSent(x) \/ OpenNext(x) \/ CloseSent(x) \/ Timeout(x)
      PROVE  reported' = reported
  BY <1>4 DEF AllSent, DoneSent, OpenNext, CloseSent, Timeout
<1>5. ASSUME NEW x \in Peers,
             RecvTask(x) \/ IdleTimeout(x) \/ ConnectionClosed(x) \/ Lose(x)
      PROVE  reported' = reported
  BY <1>5 DEF RecvTask, Handshake, HandleAck, HandleNak, HandleSkip, HandleVerify,
     HandleOpen, OpenUnsafe, OpenSkip, OpenResume, OpenFresh, DataExpected, DataUnexpected,
     HandleSeek, HandleClose, Ignore, Answered, VerifySent, IdleTimeout, ConnectionClosed,
     Lose, Transferring
<1>6. Reconnect \/ UNCHANGED vars => reported' = reported
  BY DEF Reconnect, vars
<1> QED  BY <1>3, <1>4, <1>5, <1>6 DEF Next, SendTask, Terminated

\* Between fresh directories, on a line that damages data, ACKs and NAKs: a block that has
\* left the window, in any order and in the middle of any write of the send task, is on the
\* receiver's disk, at its place.
THEOREM AckedStored == ASSUME Fresh PROVE Spec => []AckedIsStored
<1>1. Inv /\ Delivery => AckedIsStored
  BY DeliveryAcked
<1> QED  BY <1>1, DeliveryInvariance, PTL

\* There, a file is logged as transferred only when the receiver has it, whole.
THEOREM FilesDelivered == ASSUME Fresh PROVE Spec => []Delivered
<1>1. Inv /\ Delivery => Delivered
  BY DeliveryWhole DEF Whole, Delivered
<1> QED  BY <1>1, DeliveryInvariance, PTL

\* There, nothing that is still in flight touches a file that has been reported.
THEOREM ReportsFinal == ASSUME Fresh PROVE Spec => ReportedIsFinal
<1> DEFINE Still == \A p \in Peers : \A f \in reported[p] :
                      disk'[Other(p)][Name[f]] = disk[Other(p)][Name[f]]
<1>1. Inv /\ [Next]_vars /\ Whole /\ Whole' => [Still]_vars
  <2> SUFFICES ASSUME Inv, [Next]_vars, Whole, Whole', NEW p \in Peers, NEW f \in reported[p]
               PROVE  disk'[Other(p)][Name[f]] = disk[Other(p)][Name[f]]
    OBVIOUS
  <2>1. f \in reported'[p]
    BY ReportedStays
  <2> QED  BY <2>1 DEF Whole, Copy
<1>2. Inv /\ Delivery => Whole
  BY DeliveryWhole
<1> QED  BY <1>1, <1>2, DeliveryInvariance, PTL DEF ReportedIsFinal, Spec

\* There no file is resumed, and so no answer goes unnoticed: a send task that sleeps while
\* its file can be continued or closed has its event set.
THEOREM WakeupsKept == ASSUME Fresh PROVE Spec => []NoLostWakeup
<1>1. Inv /\ Delivery => NoVerify
  BY DEF Delivery, Plain, NoVerify
<1> QED  BY <1>1, DeliveryInvariance, Wakeups, PTL
-----------------------------------------------------------------------------
(***************************************************************************)
(* The session implements FileTransfer.  A file is sent by one peer: the   *)
(* model's Files tells apart two that only look alike.                     *)
(***************************************************************************)

Copies == [f \in Offered |-> Copy(Owner(f), f)]
Reports == (reported[A] \cup reported[B]) \cap Offered

\* A file of p's queue is offered, and is p's.
LEMMA Ownership ==
  ASSUME Fresh, Apart, NEW p \in Peers, NEW b \in Batches(p)
  PROVE  FileAt(p, b) \in Offered /\ Owner(FileAt(p, b)) = p /\ FileAt(p, b) \in FilesOf(p)
<1>1. FileAt(p, b) \in Files /\ Accepted(FileAt(p, b)) /\ b + 1 \in 1..Len(Queue[p])
  BY FileFacts
<1>2. FileAt(p, b) \in FilesOf(p)
  BY <1>1 DEF FileAt, FilesOf
<1>3. \A q \in Peers : FileAt(p, b) \in FilesOf(q) => q = p
  BY <1>2 DEF Apart, Peers
<1> QED  BY <1>1, <1>2, <1>3 DEF Offered, Owner

\* A report of a file of p is a report by p.
LEMMA ReportedBy ==
  ASSUME Inv, Fresh, Apart, Delivery, NEW p \in Peers, NEW b \in Batches(p),
         FileAt(p, b) \in Reports
  PROVE  FileAt(p, b) \in reported[p]
<1> DEFINE f == FileAt(p, b)
<1>1. PICK q \in Peers : f \in reported[q]
  BY DEF Reports, Peers
<1>2. PICK c \in 0 .. Told(sending[q], snd[q]) - 1 : c \in Begun(q) /\ f = FileAt(q, c)
  BY <1>1, ReportedOwn
<1>3. c \in Batches(q)
  BY <1>2 DEF Begun
<1>4. Owner(f) = q /\ Owner(f) = p
  BY <1>2, <1>3, Ownership
<1> QED  BY <1>1, <1>4

\* A write to the copy of one file, as FileTransfer sees it.
LEMMA OneCopy ==
  ASSUME Inv, Fresh, Apart, NEW x \in Peers, NEW b \in Batches(Other(x)), NEW c \in Seq(Unit),
         disk'[x] = [disk[x] EXCEPT ![Name[FileAt(Other(x), b)]] = c],
         disk'[Other(x)] = disk[Other(x)]
  PROVE  Copies' = [Copies EXCEPT ![FileAt(Other(x), b)] = c]
<1> DEFINE y == Other(x)
           f == FileAt(y, b)
<1>1. y \in Peers /\ Other(y) = x /\ y # x /\ \A p \in Peers : p = x \/ p = y
  BY OtherPeer DEF Peers, Other
<1>2. f \in Offered /\ Owner(f) = y
  BY <1>1, Ownership
<1>3. Copy(y, f)' = c
  BY <1>1, Written DEF CopyAt, Copy
<1>4. ASSUME NEW g \in Offered, g # f PROVE Copy(Owner(g), g)' = Copy(Owner(g), g)
  <2>1. Owner(g) \in Peers
    BY OfferedPlace
  <2>2. PICK d \in Batches(Owner(g)) : g = FileAt(Owner(g), d)
    BY OfferedPlace
  <2>3. CASE Owner(g) = x
    BY <1>1, <2>3 DEF Copy
  <2>4. CASE Owner(g) = y
    <3>1. d # b /\ d \in Batches(y)
      BY <1>4, <2>2, <2>4
    <3>2. Name[FileAt(y, d)] # Name[f]
      BY <1>1, <3>1, FileFacts
    <3>3. Name[g] # Name[f] /\ Name[g] \in Names
      BY <1>1, <2>2, <2>4, <3>1, <3>2, FileFacts
    <3>4. disk'[x][Name[g]] = disk[x][Name[g]]
      BY <3>3 DEF Inv, RecvOK
    <3> QED  BY <1>1, <2>4, <3>4 DEF Copy
  <2> QED  BY <1>1, <2>1, <2>3, <2>4
<1>5. \A g \in Offered : Copy(Owner(g), g)' = IF g = f THEN c ELSE Copies[g]
  BY <1>2, <1>3, <1>4 DEF Copies
<1> HIDE DEF f, y
<1>6. Copies' = [g \in Offered |-> IF g = f THEN c ELSE Copies[g]]
  BY <1>5 DEF Copies
<1>7. [Copies EXCEPT ![f] = c] = [g \in Offered |-> IF g = f THEN c ELSE Copies[g]]
  BY DEF Copies
<1> QED  BY <1>6, <1>7 DEF f, y

\* An OPEN begins a copy.
LEMMA OpenTransfers ==
  ASSUME Inv, Fresh, Apart, Delivery, NEW x \in Peers, OpenFresh(x)
  PROVE  [Transfer!Next]_(Transfer!vars)
<1> DEFINE y == Other(x)
           b == Packet(x).batch
           f == FileAt(y, b)
<1>1. wire[y] # <<>> /\ Packet(x).type = "O"
  BY DEF OpenFresh, Transferring, Arrives, Packet
<1>2. y \in Peers /\ y # x /\ b \in Batches(y)
  BY <1>1, PacketFacts
<1>3. b \notin Begun(y) /\ Packet(x).name = Name[f]
  BY <1>1, OpenFacts
<1>4. <<>> \in Seq(Unit)
  BY EmptySeq
<1>5. /\ disk'[x] = [disk[x] EXCEPT ![Name[f]] = <<>>] /\ disk'[y] = disk[y]
      /\ reported' = reported
  BY <1>2, <1>3 DEF OpenFresh, Transferring, Inv, RecvOK
<1>6. Copies' = [Copies EXCEPT ![f] = <<>>] /\ f \in Offered
  <2> DEFINE d == <<>>
  <2>1. /\ b \in Batches(Other(x)) /\ d \in Seq(Unit)
        /\ disk'[x] = [disk[x] EXCEPT ![Name[FileAt(Other(x), b)]] = d]
        /\ disk'[Other(x)] = disk[Other(x)]
    BY <1>2, <1>4, <1>5
  <2>2. f \in Offered
    BY <1>2, Ownership
  <2> HIDE DEF b, d, y, f
  <2>3. Copies' = [Copies EXCEPT ![FileAt(Other(x), b)] = d]
    BY <2>1, OneCopy
  <2> QED  BY <2>2, <2>3 DEF d, f, y
<1>7. f \notin Reports
  <2>1. SUFFICES ASSUME f \in Reports PROVE FALSE
    OBVIOUS
  <2>2. f \in reported[y]
    BY <1>2, <2>1, ReportedBy
  <2>3. PICK c \in 0 .. Told(sending[y], snd[y]) - 1 : c \in Begun(y) /\ f = FileAt(y, c)
    BY <1>2, <2>2, ReportedOwn
  <2>4. c \in Batches(y) /\ c # b
    BY <1>3, <2>3 DEF Begun
  <2> QED  BY <1>2, <2>3, <2>4, FileFacts
<1>8. Reports' = Reports
  BY <1>5 DEF Reports
<1> HIDE DEF f
<1>9. Transfer!Begin(f)
  BY <1>6, <1>7, <1>8 DEF Transfer!Begin, Copies, Reports
<1> QED  BY <1>6, <1>9 DEF Transfer!Next

\* The expected block extends a copy.
LEMMA DataTransfers ==
  ASSUME Inv, Fresh, Apart, Delivery, NEW x \in Peers, DataExpected(x)
  PROVE  [Transfer!Next]_(Transfer!vars)
<1> DEFINE y == Other(x)
           m == Packet(x)
           b == m.batch
           f == FileAt(y, b)
           c == Content[f]
           e == rcv[x].expected
           k == e + 1
           n == Len(Front(c, k))
<1>1. wire[y] # <<>> /\ m.type = "D" /\ m.block = e
  BY DEF DataExpected, Transferring, Arrives, Packet
<1>2. /\ y \in Peers /\ y # x /\ b \in Batches(y) /\ Other(y) = x
      /\ e * BlockSize < Len(c) /\ m.data = Chunk(c, e)
  BY <1>1, PacketFacts
<1>3. /\ rcv[x].fd = Name[f] /\ rcv[x].fd # None /\ e \in Nat
      /\ disk[x][rcv[x].fd] = Front(c, e)
  BY <1>1, DataFacts
<1>4. c \in Seq(Unit) /\ Name[f] \in Names
  BY <1>2, FileFacts
<1>5. /\ Front(c, e) \o Chunk(c, e) = Front(c, k) /\ Len(Front(c, e)) < n
      /\ k \in Nat
  <2>1. c \in Seq(Unit) /\ e \in Nat /\ e * BlockSize < Len(c)
    BY <1>2, <1>3, <1>4
  <2> HIDE DEF c, e
  <2> QED  BY <2>1, FrontNext
<1>6. /\ Front(c, e) \in Seq(Unit) /\ Front(c, k) \in Seq(Unit)
      /\ Front(c, e) = SubSeq(c, 1, Len(Front(c, e)))
      /\ Front(c, k) = SubSeq(c, 1, n) /\ n \in 0..Len(c) /\ Len(Front(c, e)) \in Nat
      /\ Front(c, e) # c
  <2>1. c \in Seq(Unit) /\ e \in Nat /\ k \in Nat /\ e * BlockSize < Len(c)
    BY <1>2, <1>3, <1>4, <1>5
  <2> HIDE DEF c, e, k
  <2>2. Front(c, e) # c
    BY <2>1, FrontWhole, Zenon
  <2>3. /\ Front(c, e) \in Seq(Unit) /\ Len(Front(c, e)) = Minimum(Len(c), e * BlockSize)
        /\ Minimum(Len(c), e * BlockSize) \in 0..Len(c)
    BY <2>1, FrontType, Zenon
  <2>4. /\ Front(c, k) \in Seq(Unit) /\ Len(Front(c, k)) = Minimum(Len(c), k * BlockSize)
        /\ Minimum(Len(c), k * BlockSize) \in 0..Len(c)
    BY <2>1, FrontType, Zenon
  <2>5. Len(c) \in Nat
    BY <2>1
  <2> HIDE DEF Minimum
  <2> QED  BY <2>2, <2>3, <2>4, <2>5 DEF Front
<1>7. /\ disk'[x] = [disk[x] EXCEPT ![Name[f]] = Front(c, k)] /\ disk'[y] = disk[y]
      /\ reported' = reported
  <2>1. disk' = [disk EXCEPT ![x][rcv[x].fd] = disk[x][rcv[x].fd] \o m.data]
    BY <1>3 DEF DataExpected
  <2>2. reported' = reported
    BY DEF DataExpected, Transferring
  <2> HIDE DEF b, c, e, m, f, k, n, y
  <2> QED  BY <1>2, <1>3, <1>5, <2>1, <2>2 DEF Inv, RecvOK
<1>8. f \in Offered /\ Owner(f) = y
  BY <1>2, Ownership
<1>9. Copies' = [Copies EXCEPT ![f] = Front(c, k)]
  <2> DEFINE d == Front(c, k)
  <2>1. /\ b \in Batches(Other(x)) /\ d \in Seq(Unit)
        /\ disk'[x] = [disk[x] EXCEPT ![Name[FileAt(Other(x), b)]] = d]
        /\ disk'[Other(x)] = disk[Other(x)]
    BY <1>2, <1>6, <1>7
  <2> HIDE DEF b, d, y, f, m, c, e, k, n
  <2>2. Copies' = [Copies EXCEPT ![FileAt(Other(x), b)] = d]
    BY <2>1, OneCopy
  <2> QED  BY <2>2 DEF d, f, y
<1>10. Copies[f] = Front(c, e) /\ Front(c, e) # Absent
  <2>1. Copies[f] = Copy(y, f)
    BY <1>8 DEF Copies
  <2> HIDE DEF c, e, f
  <2> QED  BY <1>2, <1>3, <1>6, <2>1, FilesAssumption DEF Copy
<1>11. f \notin Reports
  <2>1. SUFFICES ASSUME f \in Reports PROVE FALSE
    OBVIOUS
  <2>2. f \in reported[y]
    BY <1>2, <2>1, ReportedBy
  <2>3. Copy(y, f) = c
    BY <1>2, <2>2, DeliveryWhole DEF Whole
  <2>4. Copy(y, f) = Front(c, e)
    BY <1>8, <1>10 DEF Copies
  <2> QED  BY <1>6, <2>3, <2>4
<1>12. Reports' = Reports
  BY <1>7 DEF Reports
<1>13. n \in Len(Front(c, e)) + 1 .. Len(c)
  <2> HIDE DEF n, c, e
  <2> QED  BY <1>4, <1>5, <1>6
<1>14. Transfer!Extend(f)
  <2>1. /\ f \notin Reports /\ Copies[f] # Absent /\ Reports' = Reports
        /\ n \in Len(Copies[f]) + 1 .. Len(Content[f])
        /\ Copies[f] = SubSeq(Content[f], 1, Len(Copies[f]))
        /\ Copies' = [Copies EXCEPT ![f] = SubSeq(Content[f], 1, n)]
    BY <1>6, <1>9, <1>10, <1>11, <1>12, <1>13, Zenon
  <2> HIDE DEF f, n
  <2> QED  BY <2>1 DEF Transfer!Extend, Copies, Reports
<1> HIDE DEF f
<1> QED  BY <1>8, <1>14 DEF Transfer!Next

\* A step that writes to no file and reports none is a stutter.
LEMMA QuietTransfers ==
  ASSUME disk' = disk, reported' = reported PROVE [Transfer!Next]_(Transfer!vars)
BY DEF Transfer!vars, Copy

\* The end of a call may report one file, which is whole by then.
LEMMA FinishTransfers ==
  ASSUME Inv, Fresh, Apart, Delivery, Whole', NEW x \in Peers, NEW t, Ready(x, t),
         Finish(x, t), disk' = disk
  PROVE  [Transfer!Next]_(Transfer!vars)
<1> DEFINE g == t.cur
           b == t.batch
<1>1. /\ b \in Nat /\ b \in Batches(x) /\ g = FileAt(x, b)
      /\ Told(sending[x], snd[x]) = b
  BY ReadyFacts DEF Ready
<1>2. CASE ~Finished(t)
  BY <1>2, QuietTransfers DEF Finish
<1>3. CASE Finished(t)
  <2>1. reported' = [reported EXCEPT ![x] = reported[x] \cup {g}]
    BY <1>3 DEF Finish
  <2>2. g \in Offered /\ Owner(g) = x
    BY <1>1, Ownership
  <2> HIDE DEF g, b
  <2>3. reported'[x] = reported[x] \cup {g} /\ reported'[Other(x)] = reported[Other(x)]
    BY <2>1, OtherPeer DEF Inv, StateOK
  <2>4. Copy(x, g) = Content[g]
    BY <2>3 DEF Whole, Copy
  <2>5. Copies[g] = Content[g] /\ Copies' = Copies
    BY <2>2, <2>4 DEF Copies, Copy
  <2>6. Reports' = Reports \cup {g}
    BY <2>2, <2>3 DEF Reports, Peers, Other
  <2>7. g \notin Reports
    <3>1. SUFFICES ASSUME g \in Reports PROVE FALSE
      OBVIOUS
    <3>2. g \in reported[x]
      BY <1>1, <3>1, ReportedBy
    <3>3. PICK c \in 0 .. b - 1 : c \in Begun(x) /\ g = FileAt(x, c)
      BY <1>1, <3>2, ReportedOwn
    <3>4. c \in Batches(x) /\ c # b
      BY <1>1, <3>3 DEF Begun
    <3> QED  BY <1>1, <3>3, <3>4, FileFacts
  <2>8. Transfer!Report(g)
    BY <2>5, <2>6, <2>7 DEF Transfer!Report, Copies, Reports
  <2> QED  BY <2>2, <2>8 DEF Transfer!Next
<1> QED  BY <1>2, <1>3

\* Every step of the session is a step of the transfer, or a stutter.
LEMMA NextTransfers ==
  ASSUME Inv, Fresh, Apart, Delivery, Whole', [Next]_vars
  PROVE  [Transfer!Next]_(Transfer!vars)
<1>1. ASSUME NEW x \in Peers, OpenSent(x) \/ Pump(x) \/ Resent(x) \/ Flushed(x)
      PROVE  [Transfer!Next]_(Transfer!vars)
  <2>1. disk' = disk /\ \E t : Ready(x, t) /\ (FillFrom(x, t) \/ Finish(x, t))
    BY <1>1, FillReady
  <2>2. PICK t : Ready(x, t) /\ (FillFrom(x, t) \/ Finish(x, t))
    BY <2>1
  <2>3. CASE Finish(x, t)
    BY <2>1, <2>2, <2>3, FinishTransfers
  <2>4. CASE ~Finish(x, t)
    <3>1. reported' = reported
      BY <2>2, <2>4 DEF FillFrom
    <3> QED  BY <2>1, <3>1, QuietTransfers
  <2> QED  BY <2>3, <2>4
<1>2. ASSUME NEW x \in Peers,
             AllSent(x) \/ DoneSent(x) \/ OpenNext(x) \/ CloseSent(x) \/ Timeout(x)
      PROVE  [Transfer!Next]_(Transfer!vars)
  <2>1. disk' = disk /\ reported' = reported
    BY <1>2 DEF AllSent, DoneSent, OpenNext, CloseSent, Timeout
  <2> QED  BY <2>1, QuietTransfers
<1>3. ASSUME NEW x \in Peers, RecvTask(x) \/ Lose(x) PROVE [Transfer!Next]_(Transfer!vars)
  <2>1. CASE OpenFresh(x)
    BY <2>1, OpenTransfers
  <2>2. CASE DataExpected(x)
    BY <2>2, DataTransfers
  <2>3. CASE ~OpenFresh(x) /\ ~DataExpected(x)
    <3>1. disk' = disk /\ reported' = reported
      BY <1>3, <2>3 DEF RecvTask, Handshake, HandleAck, HandleNak, HandleSkip, HandleVerify,
         HandleOpen, OpenUnsafe, OpenSkip, OpenResume, DataUnexpected, HandleSeek,
         HandleClose, Ignore, Answered, VerifySent, Lose, Transferring
    <3> QED  BY <3>1, QuietTransfers
  <2> QED  BY <2>1, <2>2, <2>3
<1>4. ASSUME NEW x \in Peers, IdleTimeout(x) \/ ConnectionClosed(x)
      PROVE  [Transfer!Next]_(Transfer!vars)
  <2>1. disk' = disk /\ reported' = reported
    BY <1>4 DEF IdleTimeout, ConnectionClosed
  <2> QED  BY <2>1, QuietTransfers
<1>5. CASE UNCHANGED vars
  BY <1>5, QuietTransfers DEF vars
<1>6. ~Reconnect
  BY DEF Reconnect, Fresh, Inv, BudgetsOK
<1> QED  BY <1>1, <1>2, <1>3, <1>4, <1>5, <1>6 DEF Next, SendTask, Terminated

\* FileTransfer starts from the same disks, with nothing reported.
LEMMA InitTransfers == ASSUME Init PROVE Transfer!Init
<1>1. reported[A] = {} /\ reported[B] = {} /\ disk = OnDisk
  BY DEF Init, Peers
<1> QED  BY <1>1 DEF Transfer!Init, Copy

\* There, the session implements FileTransfer: copies grow from the front, and a file is
\* reported once, when its copy is whole.
THEOREM SessionTransfers == ASSUME Fresh, Apart PROVE Spec => Transfer!Spec
<1>1. Init => Transfer!Init
  BY InitTransfers
<1>2. Inv /\ Delivery /\ Whole' /\ [Next]_vars => [Transfer!Next]_(Transfer!vars)
  BY NextTransfers
<1>3. Inv /\ Delivery => Whole
  BY DeliveryWhole
<1> QED  BY <1>1, <1>2, <1>3, DeliveryInvariance, PTL DEF Spec, Transfer!Spec
=============================================================================
