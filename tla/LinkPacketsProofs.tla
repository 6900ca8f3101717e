-------------------------- MODULE LinkPacketsProofs --------------------------
(***************************************************************************)
(* Lemmas on the blocks and frames of LinkPackets, for every choice of its *)
(* constants.                                                              *)
(***************************************************************************)
EXTENDS LinkPackets, SequenceTheorems, FiniteSetTheorems, WellFoundedInduction, TLAPS

-----------------------------------------------------------------------------
(***************************************************************************)
(* Blocks, contents and windows.                                           *)
(***************************************************************************)

\* A rounded-up quotient is a natural number: total_blocks is one.
LEMMA BlocksType == ASSUME NEW f \in Files PROVE Blocks(f) \in Nat
<1>1. Len(Content[f]) \in Nat
  BY FilesAssumption
<1>2. BlockSize \in Nat /\ BlockSize > 0
  BY BlocksAssumption
<1>3. \A n \in Nat : (n + BlockSize - 1) \div BlockSize \in Nat
  BY <1>2, SMT
<1> QED  BY <1>1, <1>3 DEF Blocks

\* A block of a content is a sequence over the same alphabet.
LEMMA ChunkType ==
  ASSUME NEW c \in Seq(Unit), NEW k \in Nat PROVE Chunk(c, k) \in Seq(Unit)
<1>1. BlockSize \in Nat /\ k * BlockSize + 1 \in Nat \ {0} /\ (k + 1) * BlockSize \in Nat
  BY BlocksAssumption, SMT
<1>2. Minimum(Len(c), (k + 1) * BlockSize) \in Nat
  BY <1>1 DEF Minimum
<1>3. \A i \in (k * BlockSize + 1) .. Minimum(Len(c), (k + 1) * BlockSize) : c[i] \in Unit
  BY <1>1 DEF Minimum
<1> QED  BY <1>1, <1>2, <1>3, SubSeqProperties DEF Chunk

\* The number of whole blocks of a content is a natural number.
LEMMA FullBlocksType ==
  ASSUME NEW c \in Seq(Unit) PROVE FullBlocks(c) \in Nat
<1>1. BlockSize \in Nat /\ BlockSize > 0 /\ VerifyLimit \in Nat
  BY BlocksAssumption
<1>2. \A n \in Nat : n \div BlockSize \in Nat
  BY <1>1, SMT
<1> QED  BY <1>1, <1>2 DEF FullBlocks, Minimum

\* min(self.unacked_blocks.keys()) is one of the keys.
LEMMA OldestType ==
  ASSUME NEW S \in SUBSET Nat, S # {} PROVE Oldest(S) \in S
<1> DEFINE R == {rr \in Nat \X Nat : rr[1] < rr[2]}
<1>1. IsWellFoundedOn(R, Nat)
  <2>1. OpToRel(<, Nat) = R
    BY Zenon DEF OpToRel
  <2> QED  BY <2>1, NatLessThanWellFounded
<1> HIDE DEF R
<1>2. PICK x \in S : \A y \in S : ~(<<y, x>> \in R)
  BY <1>1, WFMin
<1>3. \A y \in S : x <= y
  <2>1. SUFFICES ASSUME NEW y \in S PROVE x <= y
    OBVIOUS
  <2>2. <<y, x>> \notin R /\ <<y, x>> \in Nat \X Nat
    BY <1>2
  <2>3. ~(y < x)
    BY <2>2 DEF R
  <2> QED  BY <2>3
<1> QED  BY <1>3 DEF Oldest

\* The count a VERIFY handler arrives at is a natural number.
LEMMA VerifiedType ==
  ASSUME NEW c \in Seq(Seq(Unit)), NEW f PROVE Verified(c, f) \in Nat
<1>1. IsFiniteSet(1..Len(c))
  BY FS_Interval
<1>2. IsFiniteSet({n \in 1..Len(c) : \A k \in 1..n : c[k] = Chunk(Content[f], k - 1)})
  BY <1>1, FS_Subset
<1> QED  BY <1>2, FS_CardinalityType DEF Verified

\* Division by the block size rounds down.
LEMMA Quotient ==
  ASSUME NEW n \in Nat
  PROVE  LET d == n \div BlockSize IN
         d \in Nat /\ BlockSize * d <= n /\ n < BlockSize * d + BlockSize
<1>1. BlockSize \in Nat \ {0}
  BY BlocksAssumption
<1>2. \A S \in Nat \ {0} : LET d == n \div S IN d \in Nat /\ S * d <= n /\ n < S * d + S
  BY SMT
<1> QED  BY <1>1, <1>2

\* Block k belongs to a file just if the blocks before it leave something of it.
LEMMA BlockCount ==
  ASSUME NEW f \in Files, NEW k \in Nat
  PROVE  k < Blocks(f) <=> k * BlockSize < Len(Content[f])
<1> DEFINE n == Len(Content[f])
           d == (n + BlockSize - 1) \div BlockSize
<1>1. BlockSize \in Nat \ {0} /\ n \in Nat
  BY BlocksAssumption, FilesAssumption
<1>2. d \in Nat /\ BlockSize * d <= n + BlockSize - 1 /\ n + BlockSize - 1 < BlockSize * d + BlockSize
  <2> DEFINE x == n + BlockSize - 1
  <2>1. x \in Nat
    BY <1>1
  <2> HIDE DEF x
  <2>2. LET q == x \div BlockSize IN
        q \in Nat /\ BlockSize * q <= x /\ x < BlockSize * q + BlockSize
    BY <2>1, Quotient, Zenon
  <2> QED  BY <2>2 DEF x
<1>3. Blocks(f) = d
  BY DEF Blocks
<1> HIDE DEF d, n
<1>4. CASE k < d
  <2>1. k + 1 <= d
    BY <1>2, <1>4
  <2>2. BlockSize * (k + 1) <= BlockSize * d
    BY <1>1, <1>2, <2>1, SMT
  <2>3. k * BlockSize + BlockSize = BlockSize * (k + 1)
    BY <1>1, SMT
  <2>4. k * BlockSize < n
    BY <1>1, <1>2, <2>2, <2>3, SMT
  <2> QED  BY <1>3, <1>4, <2>4 DEF n
<1>5. CASE ~(k < d)
  <2>1. BlockSize * d <= BlockSize * k
    BY <1>1, <1>2, <1>5, SMT
  <2>2. ~(k * BlockSize < n)
    BY <1>1, <1>2, <2>1, SMT
  <2> QED  BY <1>3, <1>5, <2>2 DEF n
<1> QED  BY <1>4, <1>5

\* The first e blocks of a content.
Front(c, e) == SubSeq(c, 1, Minimum(Len(c), e * BlockSize))

\* The first e blocks are a prefix: its length and its elements.
LEMMA FrontType ==
  ASSUME NEW c \in Seq(Unit), NEW e \in Nat
  PROVE  /\ Front(c, e) \in Seq(Unit) /\ Len(Front(c, e)) = Minimum(Len(c), e * BlockSize)
         /\ e * BlockSize \in Nat /\ Minimum(Len(c), e * BlockSize) \in 0..Len(c)
         /\ \A i \in 1..Minimum(Len(c), e * BlockSize) : Front(c, e)[i] = c[i]
<1> DEFINE n == Minimum(Len(c), e * BlockSize)
<1>1. e * BlockSize \in Nat /\ Len(c) \in Nat
  BY BlocksAssumption, SMT
<1>2. n \in 0..Len(c)
  BY <1>1 DEF Minimum
<1> HIDE DEF n
<1>3. SubSeq(c, 1, n) \in Seq(Unit) /\ Len(SubSeq(c, 1, n)) = n
      /\ \A i \in 1..n : SubSeq(c, 1, n)[i] = c[i]
  BY <1>1, <1>2
<1> QED  BY <1>1, <1>2, <1>3 DEF Front, n

\* One more block makes it longer.
LEMMA FrontNext ==
  ASSUME NEW c \in Seq(Unit), NEW e \in Nat, e * BlockSize < Len(c)
  PROVE  /\ Front(c, e) \o Chunk(c, e) = Front(c, e + 1)
         /\ Len(Front(c, e)) < Len(Front(c, e + 1))
<1> DEFINE m == e * BlockSize
           n == Minimum(Len(c), (e + 1) * BlockSize)
<1>1. /\ BlockSize \in Nat /\ BlockSize > 0 /\ m \in Nat /\ Len(c) \in Nat /\ m < Len(c)
      /\ (e + 1) * BlockSize = m + BlockSize
  BY BlocksAssumption, SMT
<1> HIDE DEF m
<1>2. n \in Nat /\ m < n /\ n <= Len(c)
  BY <1>1 DEF Minimum
<1>3. Minimum(Len(c), m) = m
  BY <1>1 DEF Minimum
<1> HIDE DEF n
<1>4. Front(c, e) = SubSeq(c, 1, m) /\ Front(c, e + 1) = SubSeq(c, 1, n)
      /\ Chunk(c, e) = SubSeq(c, m + 1, n)
  BY <1>3 DEF Front, Chunk, m, n
<1>5. SubSeq(c, 1, m) \o SubSeq(c, m + 1, n) = SubSeq(c, 1, n)
  <2>1. /\ 1 \in 1..Len(c) + 1 /\ m \in 1 - 1..Len(c) /\ n \in m..Len(c)
    BY <1>1, <1>2
  <2> QED  BY <2>1, ConcatAdjacentSubSeq, Zenon
<1>6. Len(SubSeq(c, 1, m)) = m /\ Len(SubSeq(c, 1, n)) = n
  BY <1>1, <1>2
<1> QED  BY <1>2, <1>4, <1>5, <1>6

\* The blocks of what is there are those of the whole.
LEMMA FrontChunk ==
  ASSUME NEW c \in Seq(Unit), NEW e \in Nat, NEW k \in Nat, k < e
  PROVE  Chunk(Front(c, e), k) = Chunk(c, k)
<1> DEFINE a == k * BlockSize + 1
           z == Minimum(Len(c), (k + 1) * BlockSize)
           n == Minimum(Len(c), e * BlockSize)
<1>1. a \in Nat /\ a >= 1 /\ (k + 1) * BlockSize \in Nat /\ e * BlockSize \in Nat /\ Len(c) \in Nat
  BY BlocksAssumption, SMT
<1>2. (k + 1) * BlockSize <= e * BlockSize
  <2>1. BlockSize \in Nat /\ k + 1 <= e
    BY BlocksAssumption
  <2> QED  BY <2>1, SMT
<1>3. z \in Nat /\ n \in Nat /\ z <= n /\ n <= Len(c) /\ Minimum(n, (k + 1) * BlockSize) = z
  BY <1>1, <1>2 DEF Minimum
<1>4. Len(Front(c, e)) = n /\ Front(c, e) = SubSeq(c, 1, n)
  BY FrontType DEF Front
<1>5. Chunk(Front(c, e), k) = SubSeq(SubSeq(c, 1, n), a, z) /\ Chunk(c, k) = SubSeq(c, a, z)
  BY <1>3, <1>4 DEF Chunk
<1> HIDE DEF a, z, n
<1>6. SubSeq(SubSeq(c, 1, n), a, z) = SubSeq(c, a, z)
  BY <1>1, <1>3
<1> QED  BY <1>5, <1>6

\* All blocks are the whole, and fewer are not.
LEMMA FrontWhole ==
  ASSUME NEW c \in Seq(Unit), NEW e \in Nat
  PROVE  Front(c, e) = c <=> ~(e * BlockSize < Len(c))
<1>1. e * BlockSize \in Nat /\ Len(c) \in Nat
  BY BlocksAssumption, SMT
<1>2. CASE e * BlockSize < Len(c)
  <2>1. Len(Front(c, e)) = e * BlockSize
    BY <1>1, <1>2, FrontType DEF Minimum
  <2> QED  BY <1>1, <1>2, <2>1
<1>3. CASE ~(e * BlockSize < Len(c))
  <2>1. Minimum(Len(c), e * BlockSize) = Len(c)
    BY <1>1, <1>3 DEF Minimum
  <2>2. Front(c, e) = c
    BY <2>1, SubSeqFull DEF Front
  <2> QED  BY <1>3, <2>2
<1> QED  BY <1>2, <1>3

-----------------------------------------------------------------------------
(***************************************************************************)
(* Peers, and the frames a peer may have put on the link.                  *)
(***************************************************************************)
Wire(p) == {m \in Frames : Genuine(p, m)}

\* Each peer is the other one of the other one.
LEMMA OtherPeer ==
  \A p \in Peers : Other(p) \in Peers /\ Other(Other(p)) = p /\ Other(p) # p
BY PeersAssumption DEF Peers, Other

\* The fields of a frame have the types that its kind calls for.
LEMMA FrameFields ==
  ASSUME NEW m \in Frames
  PROVE  /\ m.type = "O" => m.name \in Names /\ m.size \in Nat /\ m.batch \in Nat
         /\ m.type = "D" => m.batch \in Nat /\ m.block \in Nat /\ m.data \in Seq(Unit)
         /\ m.type \in {"A", "N", "S"} => m.batch \in Nat /\ m.block \in Nat
         /\ m.type = "V" => m.crcs \in Seq(Seq(Unit))
BY DEF Frames

\* Control frames are genuine whatever they say.
LEMMA ControlFrames ==
  ASSUME NEW p \in Peers
  PROVE  /\ RQ \in Wire(p) /\ Close \in Wire(p) /\ Skip \in Wire(p) /\ Done \in Wire(p)
         /\ \A b, k \in Nat : /\ Ack(b, k) \in Wire(p) /\ Nak(b, k) \in Wire(p)
                              /\ Seek(b, k) \in Wire(p)
         /\ \A c \in Seq(Unit) : Verify(c) \in Wire(p)
<1>1. /\ RQ \in Wire(p) /\ Close \in Wire(p) /\ Skip \in Wire(p) /\ Done \in Wire(p)
  BY DEF Wire, Frames, Genuine, RQ, Close, Skip, Done
<1>2. \A b, k \in Nat : /\ Ack(b, k) \in Wire(p) /\ Nak(b, k) \in Wire(p)
                        /\ Seek(b, k) \in Wire(p)
  BY DEF Wire, Frames, Genuine, Ack, Nak, Seek
<1>3. ASSUME NEW c \in Seq(Unit) PROVE Verify(c) \in Wire(p)
  <2> DEFINE crcs == [k \in 1..FullBlocks(c) |-> Chunk(c, k - 1)]
  <2>1. FullBlocks(c) \in Nat
    BY FullBlocksType
  <2>2. \A k \in 1..FullBlocks(c) : Chunk(c, k - 1) \in Seq(Unit)
    BY <2>1, ChunkType
  <2>3. crcs \in Seq(Seq(Unit))
    BY <2>1, <2>2
  <2> QED  BY <2>3 DEF Wire, Frames, Genuine, Verify
<1> QED  BY <1>1, <1>2, <1>3

\* The data and OPEN frames of file b+1 of the queue are genuine.
LEMMA FileFrames ==
  ASSUME NEW p \in Peers, NEW b \in Nat, b < Len(Queue[p])
  PROVE  /\ Open(Queue[p][b + 1], b) \in Wire(p)
         /\ \A k \in Nat : k < Blocks(Queue[p][b + 1]) =>
              Data(Queue[p][b + 1], b, k) \in Wire(p)
<1> DEFINE f == Queue[p][b + 1]
<1>1. f \in Files
  BY FilesAssumption
<1>2. Content[f] \in Seq(Unit) /\ Name[f] \in Names
  BY <1>1, FilesAssumption
<1>3. Open(f, b) \in Wire(p)
  BY <1>2 DEF Wire, Frames, Genuine, Open
<1>4. ASSUME NEW k \in Nat, k < Blocks(f) PROVE Data(f, b, k) \in Wire(p)
  <2>1. Chunk(Content[f], k) \in Seq(Unit)
    BY <1>2, ChunkType
  <2> QED  BY <1>4, <2>1 DEF Wire, Frames, Genuine, Data
<1> QED  BY <1>3, <1>4

-----------------------------------------------------------------------------
(***************************************************************************)
(* Sequences.                                                              *)
(***************************************************************************)
\* Concatenation, element by element.
LEMMA Joined ==
  ASSUME NEW S, NEW s \in Seq(S), NEW t \in Seq(S)
  PROVE  /\ s \o t \in Seq(S) /\ Len(s \o t) = Len(s) + Len(t)
         /\ Len(s) \in Nat /\ Len(t) \in Nat
         /\ \A i \in 1..Len(s) : (s \o t)[i] = s[i]
         /\ \A i \in 1..Len(t) : (s \o t)[Len(s) + i] = t[i]
OBVIOUS

\* What follows the first element, element by element.
LEMMA Rest ==
  ASSUME NEW S, NEW s \in Seq(S), s # <<>>
  PROVE  /\ Tail(s) \in Seq(S) /\ Len(Tail(s)) = Len(s) - 1 /\ Len(s) \in Nat /\ Len(s) > 0
         /\ \A i \in 1..Len(s) - 1 : Tail(s)[i] = s[i + 1]
         /\ Head(s) = s[1]
OBVIOUS

\* Joining is associative.
LEMMA Assoc ==
  ASSUME NEW S, NEW a \in Seq(S), NEW b \in Seq(S), NEW c \in Seq(S)
  PROVE  (a \o b) \o c = a \o (b \o c)
BY ConcatAssociative

\* The same of frames, in the form that a cluttered context needs.
LEMMA AssocFrames ==
  \A a, b, c \in Seq(Frames) : (a \o b) \o c = a \o (b \o c)
BY Assoc

\* The first of two sequences that are joined has the head.
LEMMA FirstOfTwo ==
  ASSUME NEW S, NEW a \in Seq(S), NEW b \in Seq(S), a # <<>>
  PROVE  a \o b # <<>> /\ Head(a \o b) = Head(a) /\ Tail(a \o b) = Tail(a) \o b
OBVIOUS

\* A sequence that is cut in two is the two parts joined.
LEMMA Cut ==
  ASSUME NEW S, NEW a \in Seq(S), NEW n \in 0..Len(a)
  PROVE  /\ SubSeq(a, 1, n) \in Seq(S) /\ SubSeq(a, n + 1, Len(a)) \in Seq(S)
         /\ SubSeq(a, 1, n) \o SubSeq(a, n + 1, Len(a)) = a
<1>1. /\ Len(a) \in Nat /\ n \in Int /\ n + 1 \in Int /\ Len(a) \in Int /\ 1 \in Int
      /\ 1 \in 1..Len(a) + 1 /\ n \in 1 - 1..Len(a) /\ Len(a) \in n..Len(a)
      /\ \A i \in 1..n : a[i] \in S
      /\ \A i \in n + 1..Len(a) : a[i] \in S
  OBVIOUS
<1>2. SubSeq(a, 1, n) \in Seq(S) /\ SubSeq(a, n + 1, Len(a)) \in Seq(S)
  BY <1>1, SubSeqProperties
<1>3. SubSeq(a, 1, n) \o SubSeq(a, n + 1, Len(a)) = SubSeq(a, 1, Len(a))
  BY <1>1, ConcatAdjacentSubSeq, Zenon
<1> QED  BY <1>2, <1>3, SubSeqFull

-----------------------------------------------------------------------------
(***************************************************************************)
(* The files of a queue, counted from 0 as the batch numbers are.          *)
(***************************************************************************)
FileAt(p, b) == Queue[p][b + 1]
Batches(p) == 0 .. Len(Queue[p]) - 1

\* A file of p has a place in its queue.
LEMMA Place ==
  ASSUME NEW p \in Peers, NEW f \in FilesOf(p)
  PROVE  \E b \in Batches(p) : f = FileAt(p, b)
<1>1. Len(Queue[p]) \in Nat
  BY FilesAssumption
<1>2. PICK i \in 1..Len(Queue[p]) : f = Queue[p][i]
  BY DEF FilesOf
<1>3. i - 1 \in Batches(p) /\ (i - 1) + 1 = i
  BY <1>1 DEF Batches
<1> QED  BY <1>2, <1>3 DEF FileAt

\* No file is sent by both peers.
Apart == FilesOf(A) \cap FilesOf(B) = {}

\* Every offered file has an owner, and a place in the owner's queue.
LEMMA OfferedPlace ==
  ASSUME NEW f \in Offered
  PROVE  Owner(f) \in Peers /\ \E b \in Batches(Owner(f)) : f = FileAt(Owner(f), b)
<1>1. \E p \in Peers : f \in FilesOf(p)
  BY DEF Offered
<1>2. Owner(f) \in Peers /\ f \in FilesOf(Owner(f))
  BY <1>1 DEF Owner
<1> QED  BY <1>2, Place

-----------------------------------------------------------------------------
(***************************************************************************)
(* Delivery.  What the frames of p on the link say about its files: an     *)
(* OPEN comes before the data of its file and after everything of the      *)
(* files before it; no data follows a CLOSE without an OPEN in between;    *)
(* what is on the link does not precede what the receiver has begun.       *)
(***************************************************************************)
OfFile(m) == m.type \in {"O", "D"}
IsOpen(m, b) == m.type = "O" /\ m.batch = b

InOrder(w) ==
  /\ \A i, j \in 1..Len(w) : i < j /\ OfFile(w[i]) /\ OfFile(w[j]) =>
       w[i].batch <= w[j].batch /\ (w[j].type = "O" => w[i].batch < w[j].batch)
  /\ \A i, j \in 1..Len(w) : i < j /\ w[i].type = "C" /\ w[j].type = "D" =>
       \E k \in i + 1 .. j - 1 : IsOpen(w[k], w[j].batch)

\* n files have been opened by the sender, those in begun by the receiver.
Ahead(w, n, begun) ==
  /\ \A b \in begun : b < n
  /\ \A i \in 1..Len(w) : OfFile(w[i]) =>
       /\ w[i].batch < n
       /\ \A b \in begun : b <= w[i].batch /\ (w[i].type = "O" => b < w[i].batch)

\* Data meets its file open: already now (file rb), or after an OPEN ahead of it.
Reaches(w, rb, open) ==
  \A j \in 1..Len(w) : w[j].type = "D" =>
    (open /\ w[j].batch = rb) \/ \E k \in 1 .. j - 1 : IsOpen(w[k], w[j].batch)

\* More data of the sender's current file would meet it open, too.
Pending(w, n, rb, open) ==
  \/ rb = n - 1 /\ open /\ \A i \in 1..Len(w) : w[i].type # "C"
  \/ \E k \in 1..Len(w) : IsOpen(w[k], n - 1) /\ \A i \in k..Len(w) : w[i].type # "C"

Tidy(w, n, cur, begun, rb, open) ==
  /\ InOrder(w) /\ Ahead(w, n, begun) /\ Reaches(w, rb, open)
  /\ cur => Pending(w, n, rb, open)

\* The first frame goes, if it is no OPEN.
LEMMA TidyTail ==
  ASSUME NEW w \in Seq(Frames), w # <<>>, Head(w).type # "O",
         NEW n, NEW cur, NEW begun, NEW rb, NEW open, Tidy(w, n, cur, begun, rb, open)
  PROVE  Tidy(Tail(w), n, cur, begun, rb, open)
<1> DEFINE v == Tail(w)
<1>1. /\ Len(v) = Len(w) - 1 /\ Len(w) \in Nat /\ Len(w) > 0
      /\ \A i \in 1..Len(w) - 1 : v[i] = w[i + 1]
      /\ w[1].type # "O"
  BY Rest
<1> HIDE DEF v
<1>2. \A i \in 1..Len(v) : i + 1 \in 1..Len(w) /\ v[i] = w[i + 1]
  BY <1>1
<1>3. \A b : \A k \in 1..Len(w) : IsOpen(w[k], b) => /\ k - 1 \in 1..Len(v) /\ v[k - 1] = w[k]
                                                 /\ IsOpen(v[k - 1], b)
  BY <1>1 DEF IsOpen
<1>4. InOrder(v)
  <2>1. ASSUME NEW i \in 1..Len(v), NEW j \in 1..Len(v), i < j, OfFile(v[i]), OfFile(v[j])
        PROVE  v[i].batch <= v[j].batch /\ (v[j].type = "O" => v[i].batch < v[j].batch)
    BY <1>2, <2>1 DEF Tidy, InOrder
  <2>2. ASSUME NEW i \in 1..Len(v), NEW j \in 1..Len(v), i < j,
               v[i].type = "C", v[j].type = "D"
        PROVE  \E k \in i + 1 .. j - 1 : IsOpen(v[k], v[j].batch)
    <3>1. PICK k \in i + 2 .. j : IsOpen(w[k], v[j].batch)
      <4>1. i + 1 < j + 1 /\ (i + 1) + 1 = i + 2 /\ (j + 1) - 1 = j
        BY <2>2
      <4> QED  BY <1>2, <2>2, <4>1 DEF Tidy, InOrder
    <3>2. k \in 1..Len(w) /\ k - 1 \in i + 1 .. j - 1
      BY <1>1
    <3> QED  BY <1>3, <3>1, <3>2
  <2> QED  BY <2>1, <2>2 DEF InOrder
<1>5. Ahead(v, n, begun)
  BY <1>2 DEF Tidy, Ahead
<1>6. Reaches(v, rb, open)
  <2>1. SUFFICES ASSUME NEW j \in 1..Len(v), v[j].type = "D", ~(open /\ v[j].batch = rb)
                 PROVE  \E k \in 1 .. j - 1 : IsOpen(v[k], v[j].batch)
    BY DEF Reaches
  <2>2. PICK k \in 1 .. j : IsOpen(w[k], v[j].batch)
    <3>1. (j + 1) - 1 = j
      OBVIOUS
    <3> QED  BY <1>2, <2>1, <3>1 DEF Tidy, Reaches
  <2>3. k \in 1..Len(w)
    BY <1>1
  <2>4. k - 1 \in 1..Len(v) /\ IsOpen(v[k - 1], v[j].batch)
    BY <1>3, <2>2, <2>3
  <2>5. k - 1 \in 1 .. j - 1
    BY <2>4
  <2> QED  BY <2>4, <2>5
<1>7. ASSUME cur PROVE Pending(v, n, rb, open)
  <2>1. CASE rb = n - 1 /\ open /\ \A i \in 1..Len(w) : w[i].type # "C"
    BY <1>2, <2>1 DEF Pending
  <2>2. ASSUME NEW k \in 1..Len(w), IsOpen(w[k], n - 1), \A i \in k..Len(w) : w[i].type # "C"
        PROVE  Pending(v, n, rb, open)
    <3>1. k - 1 \in 1..Len(v) /\ IsOpen(v[k - 1], n - 1)
      BY <1>3, <2>2
    <3>2. \A i \in k - 1 .. Len(v) : i + 1 \in k..Len(w) /\ v[i] = w[i + 1]
      BY <1>1, <1>2, <3>1
    <3> QED  BY <2>2, <3>1, <3>2 DEF Pending
  <2> QED  BY <1>7, <2>1, <2>2 DEF Tidy, Pending
<1> QED  BY <1>4, <1>5, <1>6, <1>7 DEF Tidy, v

\* The first frame is an OPEN, and the receiver obeys it.
LEMMA TidyOpen ==
  ASSUME NEW w \in Seq(Frames), w # <<>>, Head(w).type = "O",
         NEW n \in Nat, NEW cur, NEW begun \in SUBSET Nat, NEW rb \in Nat, NEW open,
         open => rb \in begun, Tidy(w, n, cur, begun, rb, open)
  PROVE  LET b == Head(w).batch IN
         b \notin begun /\ b < n /\ b \in Nat /\ (\A c \in begun : c < b)
           /\ Tidy(Tail(w), n, cur, begun \cup {b}, b, TRUE)
<1> DEFINE v == Tail(w)
           b == Head(w).batch
<1>1. /\ Len(v) = Len(w) - 1 /\ Len(w) \in Nat /\ Len(w) > 0
      /\ \A i \in 1..Len(w) - 1 : v[i] = w[i + 1]
      /\ w[1].type = "O" /\ w[1].batch = b /\ w[1] \in Frames
  BY Rest
<1>2. b \in Nat /\ \A i \in 1..Len(w) : OfFile(w[i]) => w[i].batch \in Nat
  BY <1>1, FrameFields DEF OfFile
<1> HIDE DEF v, b
<1>3. \A i \in 1..Len(v) : i + 1 \in 1..Len(w) /\ v[i] = w[i + 1]
  BY <1>1
<1>4. \A c : \A k \in 1..Len(w) : IsOpen(w[k], c) /\ c # b =>
        k - 1 \in 1..Len(v) /\ v[k - 1] = w[k] /\ IsOpen(v[k - 1], c)
  BY <1>1 DEF IsOpen
<1>5. b < n /\ \A c \in begun : c < b
  BY <1>1 DEF Tidy, Ahead, OfFile
<1>6. \A j \in 2..Len(w) : OfFile(w[j]) => b <= w[j].batch /\ (w[j].type = "O" => b < w[j].batch)
  BY <1>1 DEF Tidy, InOrder, OfFile
<1>7. InOrder(v)
  <2>1. ASSUME NEW i \in 1..Len(v), NEW j \in 1..Len(v), i < j, OfFile(v[i]), OfFile(v[j])
        PROVE  v[i].batch <= v[j].batch /\ (v[j].type = "O" => v[i].batch < v[j].batch)
    BY <1>3, <2>1 DEF Tidy, InOrder
  <2>2. ASSUME NEW i \in 1..Len(v), NEW j \in 1..Len(v), i < j,
               v[i].type = "C", v[j].type = "D"
        PROVE  \E k \in i + 1 .. j - 1 : IsOpen(v[k], v[j].batch)
    <3>1. PICK k \in i + 2 .. j : IsOpen(w[k], v[j].batch)
      <4>1. i + 1 < j + 1 /\ (i + 1) + 1 = i + 2 /\ (j + 1) - 1 = j
        BY <2>2
      <4> QED  BY <1>3, <2>2, <4>1 DEF Tidy, InOrder
    <3>2. k \in 1..Len(w) /\ k - 1 \in i + 1 .. j - 1 /\ k - 1 \in 1..Len(v) /\ (k - 1) + 1 = k
      BY <1>1
    <3>3. v[k - 1] = w[k]
      BY <1>3, <3>2
    <3> QED  BY <3>1, <3>2, <3>3
  <2> QED  BY <2>1, <2>2 DEF InOrder
<1>8. Ahead(v, n, begun \cup {b})
  <2>1. ASSUME NEW i \in 1..Len(v), OfFile(v[i])
        PROVE  /\ v[i].batch < n
               /\ \A c \in begun \cup {b} :
                    c <= v[i].batch /\ (v[i].type = "O" => c < v[i].batch)
    <3>1. i + 1 \in 2..Len(w) /\ i + 1 \in 1..Len(w) /\ v[i] = w[i + 1]
      BY <1>1, <1>3
    <3> QED  BY <1>6, <2>1, <3>1 DEF Tidy, Ahead
  <2> QED  BY <1>5, <2>1 DEF Tidy, Ahead
<1>9. Reaches(v, b, TRUE)
  <2>1. SUFFICES ASSUME NEW j \in 1..Len(v), v[j].type = "D", v[j].batch # b
                 PROVE  \E k \in 1 .. j - 1 : IsOpen(v[k], v[j].batch)
    BY DEF Reaches
  <2>2. j + 1 \in 2..Len(w) /\ j + 1 \in 1..Len(w) /\ v[j] = w[j + 1] /\ (j + 1) - 1 = j
    BY <1>1, <1>3
  <2>3. ~(open /\ v[j].batch = rb)
    <3>1. b <= v[j].batch
      BY <1>6, <2>1, <2>2 DEF OfFile
    <3>2. open => rb < b
      BY <1>5
    <3> QED  BY <1>2, <3>1, <3>2
  <2>4. PICK k \in 1 .. j : IsOpen(w[k], v[j].batch)
    BY <2>1, <2>2, <2>3 DEF Tidy, Reaches
  <2>5. k \in 1..Len(w) /\ k - 1 \in Int
    BY <1>1
  <2>6. k - 1 \in 1..Len(v) /\ IsOpen(v[k - 1], v[j].batch)
    BY <1>4, <2>1, <2>4, <2>5
  <2>7. k - 1 \in 1 .. j - 1
    BY <2>6
  <2> QED  BY <2>6, <2>7
<1>10. ASSUME cur PROVE Pending(v, n, b, TRUE)
  <2>1. ~(rb = n - 1 /\ open)
    <3>1. open => rb < b
      BY <1>5
    <3> QED  BY <1>2, <1>5, <3>1
  <2>2. PICK k \in 1..Len(w) : IsOpen(w[k], n - 1) /\ \A i \in k..Len(w) : w[i].type # "C"
    BY <1>10, <2>1 DEF Tidy, Pending
  <2>3. CASE n - 1 = b
    <3>1. k = 1
      <4>1. k \in 2..Len(w) => b < n - 1
        BY <1>6, <2>2 DEF IsOpen, OfFile
      <4> QED  BY <1>2, <2>3, <4>1
    <3>2. \A i \in 1..Len(v) : i + 1 \in k..Len(w) /\ v[i] = w[i + 1]
      BY <1>1, <1>3, <3>1
    <3> QED  BY <2>2, <2>3, <3>2 DEF Pending
  <2>4. CASE n - 1 # b
    <3>1. k - 1 \in 1..Len(v) /\ IsOpen(v[k - 1], n - 1)
      BY <1>4, <2>2, <2>4
    <3>2. \A i \in k - 1 .. Len(v) : i + 1 \in k..Len(w) /\ v[i] = w[i + 1]
      BY <1>1, <1>3, <3>1
    <3> QED  BY <2>2, <3>1, <3>2 DEF Pending
  <2> QED  BY <2>3, <2>4
<1>11. b \notin begun
  BY <1>2, <1>5
<1> QED  BY <1>2, <1>5, <1>7, <1>8, <1>9, <1>10, <1>11 DEF Tidy, v, b

\* The first frame is a CLOSE, and the receiver has no file open afterwards.
LEMMA TidyClose ==
  ASSUME NEW w \in Seq(Frames), w # <<>>, Head(w).type = "C",
         NEW n, NEW cur, NEW begun, NEW rb, NEW open, Tidy(w, n, cur, begun, rb, open)
  PROVE  Tidy(Tail(w), n, cur, begun, rb, FALSE)
<1> DEFINE v == Tail(w)
<1>1. /\ Len(v) = Len(w) - 1 /\ Len(w) \in Nat /\ Len(w) > 0
      /\ \A i \in 1..Len(w) - 1 : v[i] = w[i + 1]
      /\ w[1].type = "C"
  BY Rest
<1>2. Tidy(v, n, cur, begun, rb, open)
  BY TidyTail
<1> HIDE DEF v
<1>3. \A i \in 1..Len(v) : i + 1 \in 2..Len(w) /\ v[i] = w[i + 1]
  BY <1>1
<1>4. Reaches(v, rb, FALSE)
  <2>1. SUFFICES ASSUME NEW j \in 1..Len(v), v[j].type = "D"
                 PROVE  \E k \in 1 .. j - 1 : IsOpen(v[k], v[j].batch)
    BY DEF Reaches
  <2>2. 1 \in 1..Len(w) /\ j + 1 \in 1..Len(w) /\ 1 < j + 1 /\ v[j] = w[j + 1]
    BY <1>1, <1>3
  <2>3. PICK k \in 2 .. j : IsOpen(w[k], v[j].batch)
    <3>1. (j + 1) - 1 = j /\ 1 + 1 = 2
      OBVIOUS
    <3>2. \E k \in 1 + 1 .. (j + 1) - 1 : IsOpen(w[k], w[j + 1].batch)
      BY <1>1, <2>1, <2>2 DEF Tidy, InOrder
    <3> QED  BY <2>2, <3>1, <3>2
  <2>4. k - 1 \in 1..Len(v) /\ k - 1 \in 1 .. j - 1 /\ (k - 1) + 1 = k
    BY <1>1
  <2>5. v[k - 1] = w[k]
    BY <1>3, <2>4
  <2> QED  BY <2>3, <2>4, <2>5
<1>5. ASSUME cur PROVE Pending(v, n, rb, FALSE)
  <2>1. ~\A i \in 1..Len(w) : w[i].type # "C"
    BY <1>1
  <2>2. PICK k \in 1..Len(w) : IsOpen(w[k], n - 1) /\ \A i \in k..Len(w) : w[i].type # "C"
    BY <1>5, <2>1 DEF Tidy, Pending
  <2>3. k # 1
    BY <1>1, <2>2
  <2>4. k - 1 \in 1..Len(v) /\ (k - 1) + 1 = k
    BY <1>1, <2>3
  <2>5. IsOpen(v[k - 1], n - 1)
    BY <1>3, <2>2, <2>4
  <2>6. \A i \in k - 1 .. Len(v) : i + 1 \in k..Len(w) /\ v[i] = w[i + 1]
    BY <1>1, <1>3, <2>4
  <2> QED  BY <2>2, <2>4, <2>5, <2>6 DEF Pending
<1> QED  BY <1>2, <1>4, <1>5 DEF Tidy, v

\* Frames are added that concern no file, or are data of the current one.
LEMMA TidyMore ==
  ASSUME NEW w \in Seq(Frames), NEW x \in Seq(Frames),
         NEW n \in Nat, NEW cur, NEW begun, NEW rb, NEW open, Tidy(w, n, cur, begun, rb, open),
         \A b \in begun : b \in Nat,
         \A i \in 1..Len(x) : \/ x[i].type \notin {"O", "D", "C"}
                              \/ cur /\ x[i].type = "D" /\ x[i].batch = n - 1
  PROVE  Tidy(w \o x, n, cur, begun, rb, open)
<1> DEFINE v == w \o x
<1>1. /\ Len(v) = Len(w) + Len(x) /\ Len(w) \in Nat /\ Len(x) \in Nat
      /\ \A i \in 1..Len(w) : v[i] = w[i]
      /\ \A i \in 1..Len(x) : v[Len(w) + i] = x[i]
  BY Joined
<1>2. \A i \in 1..Len(w) : w[i] \in Frames
  BY ElementOfSeq
<1>3. \A i \in 1..Len(w) : OfFile(w[i]) => w[i].batch \in Nat
  BY <1>2, FrameFields DEF OfFile
<1> HIDE DEF v
<1>4. \A i \in 1..Len(w) : i \in 1..Len(v) /\ v[i] = w[i]
  BY <1>1
<1>5. ASSUME NEW i \in 1..Len(v), i \notin 1..Len(w)
      PROVE  \/ v[i].type \notin {"O", "D", "C"}
             \/ cur /\ v[i].type = "D" /\ v[i].batch = n - 1
  <2>1. i - Len(w) \in 1..Len(x) /\ Len(w) + (i - Len(w)) = i
    BY <1>1, <1>5
  <2>2. v[i] = x[i - Len(w)]
    BY <1>1, <2>1
  <2> QED  BY <2>1, <2>2
<1>6. \A b : \A k \in 1..Len(v) : IsOpen(v[k], b) => k \in 1..Len(w)
  BY <1>5 DEF IsOpen
<1>7. \A i \in 1..Len(v), j \in 1..Len(w) : i < j => i \in 1..Len(w)
  BY <1>1
<1>8. cur => /\ n - 1 \in Int
             /\ \/ rb = n - 1 /\ open /\ \A i \in 1..Len(v) : v[i].type # "C"
                \/ \E k \in 1..Len(w) : /\ IsOpen(v[k], n - 1)
                                        /\ \A i \in k..Len(v) : v[i].type # "C"
  <2>1. SUFFICES ASSUME cur
                 PROVE  \/ rb = n - 1 /\ open /\ \A i \in 1..Len(v) : v[i].type # "C"
                        \/ \E k \in 1..Len(w) : /\ IsOpen(v[k], n - 1)
                                                /\ \A i \in k..Len(v) : v[i].type # "C"
    OBVIOUS
  <2>2. \A i \in 1..Len(v) : i \notin 1..Len(w) => v[i].type # "C"
    BY <1>5
  <2>3. CASE rb = n - 1 /\ open /\ \A i \in 1..Len(w) : w[i].type # "C"
    BY <1>4, <2>2, <2>3
  <2>4. ASSUME NEW k \in 1..Len(w), IsOpen(w[k], n - 1), \A i \in k..Len(w) : w[i].type # "C"
        PROVE  \E l \in 1..Len(w) : /\ IsOpen(v[l], n - 1)
                                    /\ \A i \in l..Len(v) : v[i].type # "C"
    <3>1. \A i \in k..Len(v) : i \in 1..Len(v) /\ (i \in 1..Len(w) => i \in k..Len(w))
      BY <1>1
    <3> QED  BY <1>4, <2>2, <2>4, <3>1
  <2> QED  BY <2>1, <2>3, <2>4 DEF Tidy, Pending
<1>9. InOrder(v)
  <2>1. ASSUME NEW i \in 1..Len(v), NEW j \in 1..Len(v), i < j, OfFile(v[i]), OfFile(v[j])
        PROVE  v[i].batch <= v[j].batch /\ (v[j].type = "O" => v[i].batch < v[j].batch)
    <3>1. CASE j \in 1..Len(w)
      BY <1>4, <1>7, <2>1, <3>1 DEF Tidy, InOrder
    <3>2. CASE j \notin 1..Len(w)
      <4>1. v[j].type = "D" /\ v[j].batch = n - 1
        BY <1>5, <2>1, <3>2 DEF OfFile
      <4>2. CASE i \in 1..Len(w)
        <5>1. v[i].batch < n /\ v[i].batch \in Nat
          BY <1>3, <1>4, <2>1, <4>2 DEF Tidy, Ahead
        <5> QED  BY <4>1, <5>1
      <4>3. CASE i \notin 1..Len(w)
        <5>1. v[i].batch = n - 1
          BY <1>5, <2>1, <4>3 DEF OfFile
        <5> QED  BY <4>1, <5>1
      <4> QED  BY <4>2, <4>3
    <3> QED  BY <3>1, <3>2
  <2>2. ASSUME NEW i \in 1..Len(v), NEW j \in 1..Len(v), i < j,
               v[i].type = "C", v[j].type = "D"
        PROVE  \E k \in i + 1 .. j - 1 : IsOpen(v[k], v[j].batch)
    <3>1. i \in 1..Len(w)
      BY <1>5, <2>2
    <3>2. CASE j \in 1..Len(w)
      <4>1. PICK k \in i + 1 .. j - 1 : IsOpen(w[k], w[j].batch)
        BY <1>4, <2>2, <3>1, <3>2 DEF Tidy, InOrder
      <4>2. k \in 1..Len(w)
        BY <3>1, <3>2, <1>1
      <4> QED  BY <1>4, <3>2, <4>1, <4>2
    <3>3. CASE j \notin 1..Len(w)
      <4>1. cur /\ v[j].batch = n - 1
        BY <1>5, <2>2, <3>3
      <4>2. PICK k \in 1..Len(w) : IsOpen(v[k], n - 1) /\ \A l \in k..Len(v) : v[l].type # "C"
        BY <1>8, <2>2, <4>1
      <4>3. i < k
        BY <2>2, <4>2
      <4>4. k \in i + 1 .. j - 1
        BY <1>1, <3>3, <4>3
      <4> QED  BY <4>1, <4>2, <4>4
    <3> QED  BY <3>2, <3>3
  <2> QED  BY <2>1, <2>2 DEF InOrder
<1>10. Ahead(v, n, begun)
  <2>1. ASSUME NEW i \in 1..Len(v), OfFile(v[i])
        PROVE  /\ v[i].batch < n
               /\ \A b \in begun : b <= v[i].batch /\ (v[i].type = "O" => b < v[i].batch)
    <3>1. CASE i \in 1..Len(w)
      BY <1>4, <2>1, <3>1 DEF Tidy, Ahead
    <3>2. CASE i \notin 1..Len(w)
      <4>1. v[i].type = "D" /\ v[i].batch = n - 1
        BY <1>5, <2>1, <3>2 DEF OfFile
      <4>2. \A b \in begun : b < n /\ b \in Nat
        BY DEF Tidy, Ahead
      <4> QED  BY <4>1, <4>2
    <3> QED  BY <3>1, <3>2
  <2> QED  BY <2>1 DEF Tidy, Ahead
<1>11. Reaches(v, rb, open)
  <2>1. SUFFICES ASSUME NEW j \in 1..Len(v), v[j].type = "D"
                 PROVE  \/ open /\ v[j].batch = rb
                        \/ \E k \in 1 .. j - 1 : IsOpen(v[k], v[j].batch)
    BY DEF Reaches
  <2>2. CASE j \in 1..Len(w)
    <3>1. \A k \in 1 .. j - 1 : k \in 1..Len(w)
      BY <2>2, <1>1
    <3> QED  BY <1>4, <2>1, <2>2, <3>1 DEF Tidy, Reaches
  <2>3. CASE j \notin 1..Len(w)
    <3>1. cur /\ v[j].batch = n - 1
      BY <1>5, <2>1, <2>3
    <3>2. \A k \in 1..Len(w) : k \in 1 .. j - 1
      BY <1>1, <2>3
    <3> QED  BY <1>8, <3>1, <3>2
  <2> QED  BY <2>2, <2>3
<1>12. cur => Pending(v, n, rb, open)
  <2>1. 1..Len(w) \subseteq 1..Len(v)
    BY <1>1
  <2> QED  BY <1>8, <2>1 DEF Pending
<1> QED  BY <1>9, <1>10, <1>11, <1>12 DEF Tidy, v

\* An OPEN of the next file is added when none is current.
LEMMA TidyNew ==
  ASSUME NEW w \in Seq(Frames), NEW m \in Frames,
         NEW n \in Nat, NEW begun, NEW rb, NEW open, Tidy(w, n, FALSE, begun, rb, open),
         \A b \in begun : b \in Nat, m.type = "O", m.batch = n
  PROVE  Tidy(w \o <<m>>, n + 1, TRUE, begun, rb, open)
<1> DEFINE v == w \o <<m>>
<1>1. /\ Len(v) = Len(w) + 1 /\ Len(w) \in Nat
      /\ \A i \in 1..Len(w) : v[i] = w[i]
      /\ v[Len(w) + 1] = m
  OBVIOUS
<1>2. \A i \in 1..Len(w) : w[i] \in Frames
  BY ElementOfSeq
<1>3. \A i \in 1..Len(w) : OfFile(w[i]) => w[i].batch \in Nat /\ w[i].batch < n
  BY <1>2, FrameFields DEF OfFile, Tidy, Ahead
<1> HIDE DEF v
<1>4. \A i \in 1..Len(w) : i \in 1..Len(v) /\ v[i] = w[i]
  BY <1>1
<1>5. \A i \in 1..Len(v) : i \notin 1..Len(w) => i = Len(w) + 1 /\ v[i] = m
  BY <1>1
<1>6. \A i \in 1..Len(v), j \in 1..Len(w) : i < j => i \in 1..Len(w)
  BY <1>1
<1>7. InOrder(v)
  <2>1. ASSUME NEW i \in 1..Len(v), NEW j \in 1..Len(v), i < j, OfFile(v[i]), OfFile(v[j])
        PROVE  v[i].batch <= v[j].batch /\ (v[j].type = "O" => v[i].batch < v[j].batch)
    <3>1. CASE j \in 1..Len(w)
      BY <1>4, <1>6, <2>1, <3>1 DEF Tidy, InOrder
    <3>2. CASE j \notin 1..Len(w)
      <4>1. i \in 1..Len(w) /\ v[j].batch = n
        BY <1>1, <1>5, <2>1, <3>2
      <4> QED  BY <1>3, <1>4, <2>1, <4>1
    <3> QED  BY <3>1, <3>2
  <2>2. ASSUME NEW i \in 1..Len(v), NEW j \in 1..Len(v), i < j,
               v[i].type = "C", v[j].type = "D"
        PROVE  \E k \in i + 1 .. j - 1 : IsOpen(v[k], v[j].batch)
    <3>1. j \in 1..Len(w) /\ i \in 1..Len(w)
      BY <1>5, <1>6, <2>2
    <3>2. PICK k \in i + 1 .. j - 1 : IsOpen(w[k], w[j].batch)
      BY <1>4, <2>2, <3>1 DEF Tidy, InOrder
    <3>3. k \in 1..Len(w)
      BY <3>1, <1>1
    <3> QED  BY <1>4, <3>1, <3>2, <3>3
  <2> QED  BY <2>1, <2>2 DEF InOrder
<1>8. Ahead(v, n + 1, begun)
  <2>1. ASSUME NEW i \in 1..Len(v), OfFile(v[i])
        PROVE  /\ v[i].batch < n + 1
               /\ \A b \in begun : b <= v[i].batch /\ (v[i].type = "O" => b < v[i].batch)
    <3>1. CASE i \in 1..Len(w)
      <4>1. v[i] = w[i] /\ v[i].batch < n /\ v[i].batch \in Nat
        BY <1>3, <1>4, <2>1, <3>1
      <4> QED  BY <2>1, <3>1, <4>1 DEF Tidy, Ahead
    <3>2. CASE i \notin 1..Len(w)
      <4>1. v[i].batch = n
        BY <1>5, <3>2
      <4>2. \A b \in begun : b < n /\ b \in Nat
        BY DEF Tidy, Ahead
      <4> QED  BY <4>1, <4>2
    <3> QED  BY <3>1, <3>2
  <2>2. \A b \in begun : b < n + 1
    BY DEF Tidy, Ahead
  <2> QED  BY <2>1, <2>2 DEF Ahead
<1>9. Reaches(v, rb, open)
  <2>1. SUFFICES ASSUME NEW j \in 1..Len(v), v[j].type = "D"
                 PROVE  \/ open /\ v[j].batch = rb
                        \/ \E k \in 1 .. j - 1 : IsOpen(v[k], v[j].batch)
    BY DEF Reaches
  <2>2. j \in 1..Len(w)
    BY <1>5, <2>1
  <2>3. \A k \in 1 .. j - 1 : k \in 1..Len(w)
    BY <2>2, <1>1
  <2> QED  BY <1>4, <2>1, <2>2, <2>3 DEF Tidy, Reaches
<1>10. Pending(v, n + 1, rb, open)
  <2>1. Len(w) + 1 \in 1..Len(v) /\ (n + 1) - 1 = n
    BY <1>1
  <2>2. \A i \in Len(w) + 1 .. Len(v) : v[i] = m
    BY <1>1
  <2> QED  BY <2>1, <2>2 DEF Pending, IsOpen
<1> QED  BY <1>7, <1>8, <1>9, <1>10 DEF Tidy, v

\* A CLOSE is added, and no file is current any more.
LEMMA TidyDone ==
  ASSUME NEW w \in Seq(Frames), NEW m \in Frames,
         NEW n, NEW cur, NEW begun, NEW rb, NEW open, Tidy(w, n, cur, begun, rb, open),
         m.type = "C"
  PROVE  Tidy(w \o <<m>>, n, FALSE, begun, rb, open)
<1> DEFINE v == w \o <<m>>
<1>1. /\ Len(v) = Len(w) + 1 /\ Len(w) \in Nat
      /\ \A i \in 1..Len(w) : v[i] = w[i]
      /\ v[Len(w) + 1] = m
  OBVIOUS
<1> HIDE DEF v
<1>2. \A i \in 1..Len(w) : i \in 1..Len(v) /\ v[i] = w[i]
  BY <1>1
<1>3. \A i \in 1..Len(v) : i \notin 1..Len(w) => i = Len(w) + 1 /\ v[i] = m
  BY <1>1
<1>4. \A i \in 1..Len(v), j \in 1..Len(w) : i < j => i \in 1..Len(w)
  BY <1>1
<1>5. InOrder(v)
  <2>1. ASSUME NEW i \in 1..Len(v), NEW j \in 1..Len(v), i < j, OfFile(v[i]), OfFile(v[j])
        PROVE  v[i].batch <= v[j].batch /\ (v[j].type = "O" => v[i].batch < v[j].batch)
    BY <1>2, <1>3, <1>4, <2>1 DEF Tidy, InOrder, OfFile
  <2>2. ASSUME NEW i \in 1..Len(v), NEW j \in 1..Len(v), i < j,
               v[i].type = "C", v[j].type = "D"
        PROVE  \E k \in i + 1 .. j - 1 : IsOpen(v[k], v[j].batch)
    <3>1. j \in 1..Len(w) /\ i \in 1..Len(w)
      BY <1>3, <1>4, <2>2
    <3>2. PICK k \in i + 1 .. j - 1 : IsOpen(w[k], w[j].batch)
      BY <1>2, <2>2, <3>1 DEF Tidy, InOrder
    <3>3. k \in 1..Len(w)
      BY <3>1, <1>1
    <3> QED  BY <1>2, <3>1, <3>2, <3>3
  <2> QED  BY <2>1, <2>2 DEF InOrder
<1>6. Ahead(v, n, begun)
  BY <1>2, <1>3 DEF Tidy, Ahead, OfFile
<1>7. Reaches(v, rb, open)
  <2>1. SUFFICES ASSUME NEW j \in 1..Len(v), v[j].type = "D"
                 PROVE  \/ open /\ v[j].batch = rb
                        \/ \E k \in 1 .. j - 1 : IsOpen(v[k], v[j].batch)
    BY DEF Reaches
  <2>2. j \in 1..Len(w)
    BY <1>3, <2>1
  <2>3. \A k \in 1 .. j - 1 : k \in 1..Len(w)
    BY <2>2, <1>1
  <2> QED  BY <1>2, <2>1, <2>2, <2>3 DEF Tidy, Reaches
<1> QED  BY <1>5, <1>6, <1>7 DEF Tidy, v

\* An OPEN if none is current, blocks of the current file, and perhaps a CLOSE, in order.
LEMMA TidyPump ==
  ASSUME NEW w \in Seq(Frames), NEW first \in Seq(Frames), NEW blocks \in Seq(Frames),
         NEW last \in Seq(Frames), NEW m \in Frames, NEW z \in Frames,
         NEW n \in Nat, NEW b \in Nat, NEW cur, NEW stays, NEW begun, NEW rb, NEW open,
         Tidy(w, n, cur, begun, rb, open), \A d \in begun : d \in Nat,
         m.type = "O" /\ m.batch = b, z.type = "C",
         (cur /\ n = b + 1 /\ first = <<>>) \/ (~cur /\ n = b /\ first = <<m>>),
         \A i \in 1..Len(blocks) : blocks[i].type = "D" /\ blocks[i].batch = b,
         (stays /\ last = <<>>) \/ (~stays /\ last = <<z>>)
  PROVE  Tidy(w \o (first \o (blocks \o last)), b + 1, stays, begun, rb, open)
<1> DEFINE w1 == w \o first
           w2 == w1 \o blocks
<1>1. w1 \in Seq(Frames) /\ Tidy(w1, b + 1, TRUE, begun, rb, open)
  <2>1. CASE cur /\ n = b + 1 /\ first = <<>>
    <3>1. w1 = w
      BY <2>1, ConcatEmptySeq
    <3>2. Tidy(w, b + 1, TRUE, begun, rb, open)
      BY <2>1 DEF Tidy
    <3> QED  BY <3>1, <3>2
  <2>2. CASE ~cur /\ n = b /\ first = <<m>>
    <3>1. Tidy(w, b, FALSE, begun, rb, open)
      BY <2>2 DEF Tidy
    <3>2. Tidy(w \o <<m>>, b + 1, TRUE, begun, rb, open)
      BY <3>1, TidyNew
    <3>3. w1 \in Seq(Frames)
      BY Joined
    <3> QED  BY <2>2, <3>2, <3>3
  <2> QED  BY <2>1, <2>2
<1> HIDE DEF w1
<1>2. w2 \in Seq(Frames) /\ Tidy(w2, b + 1, TRUE, begun, rb, open)
  <2> DEFINE k == b + 1
  <2>1. k \in Nat /\ k - 1 = b
    OBVIOUS
  <2>2. Tidy(w1, k, TRUE, begun, rb, open)
    BY <1>1
  <2>3. \A i \in 1..Len(blocks) : \/ blocks[i].type \notin {"O", "D", "C"}
                                  \/ TRUE /\ blocks[i].type = "D" /\ blocks[i].batch = k - 1
    BY <2>1
  <2> HIDE DEF k
  <2>4. Tidy(w1 \o blocks, k, TRUE, begun, rb, open)
    BY <1>1, <2>1, <2>2, <2>3, TidyMore
  <2>5. w2 \in Seq(Frames)
    BY <1>1, Joined
  <2> QED  BY <2>4, <2>5 DEF k
<1> HIDE DEF w2
<1>3. Tidy(w2 \o last, b + 1, stays, begun, rb, open)
  <2>1. CASE stays /\ last = <<>>
    <3>1. w2 \o last = w2
      BY <1>2, <2>1, ConcatEmptySeq
    <3>2. Tidy(w2, b + 1, stays, begun, rb, open)
      BY <1>2, <2>1 DEF Tidy
    <3> QED  BY <3>1, <3>2
  <2>2. CASE ~stays /\ last = <<z>>
    <3>1. Tidy(w2 \o <<z>>, b + 1, FALSE, begun, rb, open)
      BY <1>2, TidyDone
    <3>2. Tidy(w2 \o <<z>>, b + 1, stays, begun, rb, open)
      BY <2>2, <3>1 DEF Tidy
    <3> QED  BY <2>2, <3>2
  <2> QED  BY <2>1, <2>2
<1>4. w2 \o last = w \o (first \o (blocks \o last))
  <2>1. w2 \o last = w1 \o (blocks \o last)
    BY <1>1, AssocFrames, Zenon DEF w2
  <2> DEFINE v == blocks \o last
  <2>2. v \in Seq(Frames)
    BY Joined
  <2> HIDE DEF v
  <2>3. (w \o first) \o v = w \o (first \o v)
    BY <2>2, AssocFrames, Zenon
  <2> QED  BY <2>1, <2>3 DEF v, w1
<1> QED  BY <1>3, <1>4
=============================================================================
