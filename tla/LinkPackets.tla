----------------------------- MODULE LinkPackets -----------------------------
(***************************************************************************)
(* What the HS/Link and WS/Link sessions have in common: two peers, files  *)
(* cut into blocks, and the packets the peers exchange.  WS/Link kept the  *)
(* packet types of HS/Link and widened their fields.                       *)
(*                                                                         *)
(* A unit of content stands for any run of bytes, a CRC for the block it   *)
(* was computed from: no two different blocks collide.  READY and          *)
(* READY_RECV are always sent and handled back to back, so the pair is one *)
(* frame "RQ".                                                             *)
(*                                                                         *)
(* A definition marked "Variant", here and in the session modules, is an   *)
(* original with a plausible bug: no specification uses it; it shows that  *)
(* a property would notice the bug.                                        *)
(***************************************************************************)
EXTENDS Integers, Sequences, FiniteSets

CONSTANTS
  A, B,              \* the two peers
  Files, Names,      \* files to send, and names in a receive directory
  None,              \* no file (Python None)
  Absent,            \* no such file on disk
  Unit,              \* the alphabet of file contents
  Name,              \* name of a file as the OPEN header carries it
  Content,           \* contents of each file to send
  Queue,             \* files_to_send of each peer when its session starts
  OnDisk,            \* receive directory of each peer before the first session
  Unsafe,            \* names the receiver refuses
  BlockSize,         \* block size of a transfer
  VerifyLimit        \* most block CRCs in one VERIFY packet

Peers == {A, B}
Other(p) == IF p = A THEN B ELSE A

ASSUME PeersAssumption == A # B
ASSUME FilesAssumption ==
  /\ None \notin Files /\ Absent \notin Seq(Unit)
  /\ Name \in [Files -> Names] /\ None \notin Names
  /\ Content \in [Files -> Seq(Unit)]
  /\ Queue \in [Peers -> Seq(Files)]
  /\ OnDisk \in [Peers -> [Names -> Seq(Unit) \cup {Absent}]]
ASSUME BlocksAssumption == BlockSize \in Nat \ {0} /\ VerifyLimit \in Nat \ {0}

FilesOf(p) == {Queue[p][i] : i \in 1..Len(Queue[p])}
Accepted(f) == Name[f] \notin Unsafe
Offered == {f \in Files : Accepted(f) /\ \E p \in Peers : f \in FilesOf(p)}
Owner(f) == CHOOSE p \in Peers : f \in FilesOf(p)

(***************************************************************************)
(* Contents and blocks.  Block k of a content is its k-th run of BlockSize *)
(* units, counted from 0; the last one may be short.                       *)
(***************************************************************************)
Minimum(i, j) == IF i <= j THEN i ELSE j
BlocksWhole(f) == Len(Content[f]) \div BlockSize     \* Variant: no short block
Blocks(f) == (Len(Content[f]) + BlockSize - 1) \div BlockSize
Chunk(c, k) == SubSeq(c, k * BlockSize + 1, Minimum(Len(c), (k + 1) * BlockSize))
FullBlocksOne(c) == Minimum(Len(c) \div BlockSize, 1)     \* Variant: one CRC
FullBlocks(c) == Minimum(Len(c) \div BlockSize, VerifyLimit)
Oldest(blocks) == CHOOSE k \in blocks : \A j \in blocks : k <= j

\* Variant: the first block that is missing counts as verified.
VerifiedPast(crcs, f) ==
  1 + Cardinality({n \in 1..Len(crcs) :
                     \A k \in 1..n : crcs[k] = Chunk(Content[f], k - 1)})

\* VERIFY: how many leading blocks of f have the CRCs that the receiver sent.
Verified(crcs, f) ==
  Cardinality({n \in 1..Len(crcs) :
                 \A k \in 1..n : crcs[k] = Chunk(Content[f], k - 1)})

(***************************************************************************)
(* Frames.                                                                 *)
(***************************************************************************)
RQ == [type |-> "RQ"]
Close == [type |-> "C"]
Skip == [type |-> "K"]
Done == [type |-> "Z"]
Open(f, b) == [type |-> "O", name |-> Name[f], size |-> Len(Content[f]), batch |-> b]
Data(f, b, k) == [type |-> "D", batch |-> b, block |-> k, data |-> Chunk(Content[f], k)]
Ack(b, k) == [type |-> "A", batch |-> b, block |-> k]
Nak(b, k) == [type |-> "N", batch |-> b, block |-> k]
Seek(b, k) == [type |-> "S", batch |-> b, block |-> k]
Verify(c) == [type |-> "V", crcs |-> [k \in 1..FullBlocks(c) |-> Chunk(c, k - 1)]]

Frames ==
  [type : {"RQ", "C", "K", "Z"}]
    \cup [type : {"O"}, name : Names, size : Nat, batch : Nat]
    \cup [type : {"D"}, batch : Nat, block : Nat, data : Seq(Unit)]
    \cup [type : {"A", "N", "S"}, batch : Nat, block : Nat]
    \cup [type : {"V"}, crcs : Seq(Seq(Unit))]

\* A data or OPEN frame from p carries what its batch and block numbers say.
Genuine(p, m) ==
  m.type \in {"O", "D"} =>
    /\ m.batch < Len(Queue[p])
    /\ m.type = "O" => m = Open(Queue[p][m.batch + 1], m.batch)
    /\ m.type = "D" => /\ m.block < Blocks(Queue[p][m.batch + 1])
                       /\ m = Data(Queue[p][m.batch + 1], m.batch, m.block)
=============================================================================
