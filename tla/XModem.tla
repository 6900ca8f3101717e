------------------------------- MODULE XModem -------------------------------
(***************************************************************************)
(* One stream sent with XMODEM, XMODEM-CRC or XMODEM-1K: send(), with      *)
(* _send_stream(), _send_packet() and _send_eot(), against recv(), over a  *)
(* line that damages and drops bytes.                                      *)
(*                                                                         *)
(* What decides these transfers is whether the receiver reads a packet     *)
(* from its first byte on, so the line carries bytes.  Those of the        *)
(* protocol have their values; the contents and the CRC of packet k are    *)
(* the cells Cell(k) and Crc(k), which tell for the CRC whether a packet   *)
(* is as it was sent.  A receiver that has lost its place takes a cell for *)
(* any of the Values of its packet.  Padding of the last packet belongs to *)
(* its contents.  getc() and putc() belong to the caller; as documented, a *)
(* getc() that times out returns what has come, or None if nothing has.    *)
(*                                                                         *)
(* A definition marked "Variant" is an original with a plausible bug, which *)
(* no specification uses; it shows that a property would notice the bug.   *)
(***************************************************************************)
EXTENDS Integers, Sequences, FiniteSets

CONSTANTS
  N,                 \* packets of the stream
  PacketSize,        \* bytes of a packet: 128, and 1024 for XMODEM-1K
  ShortSize,         \* bytes of a packet that XMODEM-1K reads after SOH: 128
  SeqMod,            \* sequence numbers: 256 in the code
  Retry,             \* the parameter retry, of both sides
  Values,            \* the values that occur among the contents and CRC of each packet
  Blanks,            \* sets of packets whose CRC may be 0
  Dialects,          \* classes whose send() and recv() may meet
  Mishaps,           \* what may happen: "noise" ("contents": within a packet),
                     \* "CAN", "drop" and "pause"
  MaxFaults          \* bound: such faults

ASSUME XPacketAssumption ==
  /\ N \in Nat /\ PacketSize \in Nat \ {0} /\ ShortSize \in 1..PacketSize
  /\ SeqMod \in 4..256
  /\ Values \in [1..N -> SUBSET (0..255)]
  /\ Blanks \subseteq SUBSET (1..N) /\ MaxFaults \in Nat
  /\ Dialects \subseteq {"XMODEM", "XMODEMCRC", "XMODEM1K"}
ASSUME XRetryAssumption == Retry \in Nat \ {0}

Sides == {"S", "R"}
Peer(p) == IF p = "S" THEN "R" ELSE "S"

SOH == 1    STX == 2    EOT == 4    ACK == 6    NAK == 21    CAN == 24    CRC == 67
Noise == 999
Cell(k) == 1000 + 2 * k
Crc(k) == 1001 + 2 * k
Bytes == 0..255 \cup {Noise} \cup {Cell(k) : k \in 1..N} \cup {Crc(k) : k \in 1..N}

VARIABLES
  dialect, blank,    \* the class in use; the packets whose CRC is 0
  snd,               \* send(): its loop, the packet it is at, its counters
  rcv,               \* recv(): its loop, its counters, crc_mode, packet_size
  wire,              \* bytes on their way to each side, oldest first
  stored,            \* the receiver's stream: the packets written to it
  faults

vars == <<dialect, blank, snd, rcv, wire, stored, faults>>

Init ==
  /\ dialect \in Dialects /\ blank \in Blanks
  /\ snd = [pc |-> "hello", packet |-> 0, errors |-> 0, cancel |-> FALSE, crc |-> FALSE]
  /\ rcv = [pc |-> "hello", errors |-> 0, cancel |-> FALSE, crc |-> TRUE,
            size |-> PacketSize]
  /\ wire = [p \in Sides |-> IF p = "S" THEN <<CRC>> ELSE <<>>]
  /\ stored = <<>> /\ faults = 0

-----------------------------------------------------------------------------
(***************************************************************************)
(* The line.                                                               *)
(***************************************************************************)
Results == {"done", "failed", "raised"}
Stopped(p) == IF p = "S" THEN snd.pc \in Results ELSE rcv.pc \in Results

\* p reads at most n bytes and writes some.
Pass(p, n, bytes) ==
  wire' = [wire EXCEPT ![p] = SubSeq(@, n + 1, Len(@)),
                       ![Peer(p)] = IF Stopped(Peer(p)) THEN <<>> ELSE @ \o bytes]
\* p writes some and returns or raises.
Quit(p, bytes) ==
  wire' = [wire EXCEPT ![p] = <<>>,
                       ![Peer(p)] = IF Stopped(Peer(p)) THEN <<>> ELSE @ \o bytes]

Coming(p, b) == wire[p] # <<>> /\ Head(wire[p]) = b
ComesNone(p, known) == wire[p] # <<>> /\ Head(wire[p]) \notin known

\* A byte read by recv() may have the value v: those of contents and CRC have any.
MayBe(b, v) == b = v \/ \E k \in 1..N : b \in {Cell(k), Crc(k)} /\ v \in Values[k]

\* The bytes of a packet after its first one.
BodySize == 2 + rcv.size + IF rcv.crc THEN 2 ELSE 1
Needed(p) == IF p = "R" /\ rcv.pc = "packet" THEN BodySize ELSE 1
Starved(p) == Stopped(p) \/ (Len(wire[p]) < Needed(p) /\ (p = "S" => snd.pc # "next"))

\* getc() gives up: the other side waits as well, or there was a pause on the way.
TimesOut(p) ==
  /\ ~Stopped(p) /\ Starved(p)
  /\ \/ Starved(Peer(p)) /\ UNCHANGED faults
     \/ ~Starved(Peer(p)) /\ "pause" \in Mishaps /\ faults < MaxFaults /\ faults' = faults + 1

\* p reads one byte, in the given loop.
SReads(pc, b) == snd.pc = pc /\ Coming("S", b) /\ UNCHANGED faults
RReads(pc, b) ==
  rcv.pc = pc /\ wire["R"] # <<>> /\ MayBe(Head(wire["R"]), b) /\ UNCHANGED faults

SEnds(r, bytes) == snd' = [snd EXCEPT !.pc = r] /\ Quit("S", bytes)
REnds(r, bytes) == rcv' = [rcv EXCEPT !.pc = r] /\ Quit("R", bytes)

-----------------------------------------------------------------------------
(***************************************************************************)
(* The sender.                                                             *)
(***************************************************************************)
Read(p) == IF wire[p] = <<>> THEN 0 ELSE 1

Greeted ==
  /\ \E b \in {NAK, CRC} :
       SReads("hello", b) /\ snd' = [snd EXCEPT !.pc = "next", !.crc = (b = CRC)]
  /\ Pass("S", 1, <<>>)

\* Variant of SendAgain: the limit is tested too late.
SendAgainOnceMore(bytes, r, farewell) ==
  IF snd.errors + 1 <= Retry
    THEN snd' = [snd EXCEPT !.errors = @ + 1] /\ Pass("S", Read("S"), bytes)
    ELSE SEnds(r, farewell)

\* One more of the loop's attempts, or its end.
SendAgain(bytes, r, farewell) ==
  IF snd.errors + 1 < Retry
    THEN snd' = [snd EXCEPT !.errors = @ + 1] /\ Pass("S", Read("S"), bytes)
    ELSE SEnds(r, farewell)

\* A first CAN, a byte of no meaning (upon which only XMODEM does not fall over its
\* own message), or silence.
NotGreeted ==
  /\ snd.pc = "hello"
  /\ \/ /\ SReads("hello", CAN) /\ ~snd.cancel
        /\ IF snd.errors + 1 < Retry
             THEN /\ snd' = [snd EXCEPT !.errors = @ + 1, !.cancel = TRUE]
                  /\ Pass("S", 1, <<>>)
             ELSE SEnds("failed", <<CAN, CAN>>)
     \/ SReads("hello", CAN) /\ snd.cancel /\ SEnds("failed", <<>>)
     \/ /\ ComesNone("S", {NAK, CRC, CAN}) /\ UNCHANGED faults
        /\ IF dialect = "XMODEM" THEN SendAgain(<<>>, "failed", <<CAN, CAN>>) ELSE SEnds("raised", <<>>)
     \/ TimesOut("S") /\ SendAgain(<<>>, "failed", <<CAN, CAN>>)

\* Variant of Packet: the complement is the negative number.
PacketNegative(k) ==
  <<IF dialect = "XMODEM1K" THEN STX ELSE SOH, k % SeqMod, (SeqMod - (k % SeqMod)) % SeqMod>>
    \o [i \in 1..PacketSize |-> Cell(k)] \o <<Crc(k), Crc(k)>>

Packet(k) ==
  <<IF dialect = "XMODEM1K" THEN STX ELSE SOH, k % SeqMod, SeqMod - 1 - (k % SeqMod)>>
    \o [i \in 1..PacketSize |-> Cell(k)] \o <<Crc(k), Crc(k)>>

\* The next packet is read and sent, unless it takes a checksum, or its CRC is 0: the
\* checksum that _send_stream() then computes raises TypeError.
NextPacket ==
  /\ snd.pc = "next" /\ snd.packet < N /\ UNCHANGED faults
  /\ LET k == snd.packet + 1 IN
       IF snd.crc /\ k \notin blank
         THEN /\ snd' = [snd EXCEPT !.pc = "ack", !.packet = k, !.errors = 0]
              /\ Pass("S", 0, Packet(k))
         ELSE SEnds("raised", <<>>)

Acknowledged ==
  /\ SReads("ack", ACK) /\ snd' = [snd EXCEPT !.pc = "next"]
  /\ Pass("S", 1, <<>>)

\* The last NAK that is allowed raises AttributeError, for self.error().
PacketRefused ==
  SReads("ack", NAK) /\ SendAgain(Packet(snd.packet), "raised", <<>>)

\* Any other answer, CAN included, and None.
PacketUnanswered ==
  /\ snd.pc = "ack"
  /\ (ComesNone("S", {ACK, NAK}) /\ UNCHANGED faults) \/ TimesOut("S")
  /\ SendAgain(Packet(snd.packet), "failed", <<CAN, CAN>>)

\* Variant of EndOfStream: a last packet that has to be padded is taken for none.
EndOfStreamEarly ==
  /\ snd.pc = "next" /\ snd.packet \in {N - 1, N} /\ UNCHANGED faults
  /\ snd' = [snd EXCEPT !.pc = "eot", !.errors = 0]
  /\ Pass("S", 0, <<EOT>>)

EndOfStream ==
  /\ snd.pc = "next" /\ snd.packet = N /\ UNCHANGED faults
  /\ snd' = [snd EXCEPT !.pc = "eot", !.errors = 0]
  /\ Pass("S", 0, <<EOT>>)

EotAcknowledged == SReads("eot", ACK) /\ SEnds("done", <<>>)

EotUnanswered ==
  /\ snd.pc = "eot"
  /\ (ComesNone("S", {ACK}) /\ UNCHANGED faults) \/ TimesOut("S")
  /\ SendAgain(<<EOT>>, "failed", <<>>)

SenderStep ==
  /\ \/ Greeted \/ NotGreeted \/ NextPacket \/ Acknowledged \/ PacketRefused
     \/ PacketUnanswered \/ EndOfStream \/ EotAcknowledged \/ EotUnanswered
  /\ UNCHANGED <<dialect, blank, rcv, stored>>

-----------------------------------------------------------------------------
(***************************************************************************)
(* The receiver.                                                           *)
(***************************************************************************)
\* The bytes that end the handshake; XMODEM-1K takes a CAN for one of them, and
\* returns because of it in the loop that follows.
Starts ==
  CASE dialect = "XMODEM" -> {SOH, STX}
    [] dialect = "XMODEMCRC" -> {SOH}
    [] OTHER -> {SOH, STX}

\* The next round of the handshake: it asks for CRCs in the first half of the retries,
\* and for checksums from then on.
Ask(errors, cancel) ==
  LET crc == rcv.crc /\ 2 * errors < Retry IN
  IF errors < Retry
    THEN /\ rcv' = [rcv EXCEPT !.errors = errors, !.crc = crc, !.cancel = cancel]
         /\ Pass("R", Read("R"), <<IF crc THEN CRC ELSE NAK>>)
    ELSE REnds("failed", <<CAN, CAN>>)

\* Variant of AskAgain: silence is not counted.
AskForever ==
  /\ rcv.pc = "hello"
  /\ \/ TimesOut("R") /\ Ask(rcv.errors, rcv.cancel)
     \/ /\ ComesNone("R", Starts \cup {CAN}) /\ UNCHANGED faults
        /\ Ask(rcv.errors + 1, rcv.cancel)
     \/ /\ RReads("hello", CAN) /\ ~rcv.cancel /\ dialect # "XMODEM1K"
        /\ Ask(rcv.errors, TRUE)

AskAgain ==
  /\ rcv.pc = "hello"
  /\ \/ TimesOut("R") /\ Ask(rcv.errors + 1, rcv.cancel)
     \/ /\ ComesNone("R", Starts \cup {CAN}) /\ UNCHANGED faults
        /\ Ask(rcv.errors + 1, rcv.cancel)
     \/ /\ RReads("hello", CAN) /\ ~rcv.cancel /\ dialect # "XMODEM1K"
        /\ Ask(rcv.errors, TRUE)
AskCancelled ==
  /\ RReads("hello", CAN) /\ (rcv.cancel \/ dialect = "XMODEM1K")
  /\ REnds("failed", <<>>)

\* The first byte of a packet, in the handshake or after a good packet.
SizeAfter(b) == IF dialect = "XMODEM1K" /\ b = SOH THEN ShortSize ELSE PacketSize
PacketStarts ==
  /\ \E b \in Starts \ (IF dialect = "XMODEM1K" THEN {} ELSE {STX}) :
       /\ RReads("hello", b) \/ RReads("byte", b)
       /\ rcv' = [rcv EXCEPT !.pc = "packet", !.errors = 0, !.cancel = FALSE,
                             !.size = SizeAfter(b)]
  /\ Pass("R", 1, <<>>)

EndOfTransmission == RReads("byte", EOT) /\ REnds("done", <<ACK>>)

\* The loop over the byte reads no further one: one CAN counts as two.
CancelByte == RReads("byte", CAN) /\ REnds("failed", <<>>)

\* A byte of no meaning, whose message raises, or None.
ByteRaises ==
  /\ \/ RReads("hello", STX) /\ dialect = "XMODEM"
     \/ /\ rcv.pc = "byte" /\ UNCHANGED faults
        /\ ComesNone("R", {SOH, EOT, CAN} \cup (IF dialect = "XMODEM1K" THEN {STX} ELSE {}))
     \/ rcv.pc = "byte" /\ TimesOut("R")
  /\ REnds("raised", <<>>)

\* What the receiver has of the packet, once it has it all or does not wait for more.
Body == SubSeq(wire["R"], 1, IF Len(wire["R"]) < BodySize THEN Len(wire["R"]) ELSE BodySize)
BodyRead ==
  /\ rcv.pc = "packet"
  /\ (Len(wire["R"]) >= BodySize /\ UNCHANGED faults) \/ TimesOut("R")

\* Variant of InSequence: the number is compared with its complement only.
SelfConsistent == Len(Body) >= 2 /\ Body[1] + Body[2] = SeqMod - 1

\* The header is that of the packet expected, or passes for it.
Sequence == (Len(stored) + 1) % SeqMod
InSequence == Len(Body) >= 2 /\ Body[1] = Sequence /\ SeqMod - 1 - Body[2] = Sequence
LooksInSequence ==
  Len(Body) >= 2 /\ MayBe(Body[1], Sequence) /\ MayBe(Body[2], SeqMod - 1 - Sequence)

\* The CRC is that of packet k; before it, the contents of no packet pass for a header.
Data == SubSeq(Body, 3, Len(Body))
Genuine(k) ==
  InSequence /\ rcv.crc /\ Data = [i \in 1..PacketSize |-> Cell(k)] \o <<Crc(k), Crc(k)>>

\* ord(None), a checksum or a CRC of less than two bytes, or a message that does not exist.
PacketRaises ==
  /\ BodyRead
  /\ \/ Len(Body) < 2
     \/ LooksInSequence /\ (~rcv.crc \/ Len(Data) < 2)
     \/ ~InSequence /\ dialect # "XMODEM"
  /\ REnds("raised", <<>>) /\ UNCHANGED stored

PacketGood ==
  /\ BodyRead
  /\ \E k \in 1..N : Genuine(k) /\ stored' = Append(stored, k)
  /\ rcv' = [rcv EXCEPT !.pc = "byte"]
  /\ Pass("R", BodySize, <<ACK>>)

\* The CRC is wrong, or XMODEM has read the packet of a header that is.
Unusable ==
  \/ LooksInSequence /\ rcv.crc /\ Len(Data) >= 2 /\ \A k \in 1..N : ~Genuine(k)
  \/ Len(Body) >= 2 /\ ~InSequence /\ dialect = "XMODEM"

\* Variant of PacketBad: a packet that is out of sequence is acknowledged as repeated.
PacketBadAcked ==
  /\ BodyRead /\ Unusable
  /\ Pass("R", BodySize, <<IF InSequence THEN NAK ELSE ACK>>) /\ UNCHANGED <<rcv, stored>>

\* NAK, after which the receiver reads a sequence number, and not a first byte.
PacketBad ==
  /\ BodyRead /\ Unusable
  /\ Pass("R", BodySize, <<NAK>>) /\ UNCHANGED <<rcv, stored>>

ReceiverStep ==
  /\ \/ /\ \/ AskAgain \/ AskCancelled \/ PacketStarts \/ EndOfTransmission
           \/ CancelByte \/ ByteRaises
        /\ UNCHANGED stored
     \/ PacketRaises \/ PacketGood \/ PacketBad
  /\ UNCHANGED <<dialect, blank, snd>>

-----------------------------------------------------------------------------
(***************************************************************************)
(* The line: a byte is damaged, into one that means nothing or into CAN,   *)
(* or is dropped.                                                          *)
(***************************************************************************)
Fault ==
  /\ faults < MaxFaults /\ faults' = faults + 1
  /\ \E p \in Sides : \E i \in 1..Len(wire[p]) :
       \/ /\ "noise" \in Mishaps \/ ("contents" \in Mishaps /\ wire[p][i] > 255)
          /\ wire' = [wire EXCEPT ![p][i] = Noise]
       \/ "CAN" \in Mishaps /\ wire' = [wire EXCEPT ![p][i] = CAN]
       \/ /\ "drop" \in Mishaps
          /\ wire' = [wire EXCEPT ![p] = SubSeq(@, 1, i - 1) \o SubSeq(@, i + 1, Len(@))]
  /\ UNCHANGED <<dialect, blank, snd, rcv, stored>>

Terminated == Stopped("S") /\ Stopped("R") /\ UNCHANGED vars
Next == SenderStep \/ ReceiverStep \/ Fault \/ Terminated

Spec == Init /\ [][Next]_vars
\* Both programs run; every getc() returns.
FairSpec == Spec /\ WF_vars(SenderStep) /\ WF_vars(ReceiverStep)

-----------------------------------------------------------------------------
(***************************************************************************)
(* Properties.                                                             *)
(***************************************************************************)
\* The type invariant; no counter reaches the limit that ends its loop.
TypeOK ==
  /\ dialect \in Dialects /\ blank \in Blanks
  /\ snd \in [pc : {"hello", "next", "ack", "eot"} \cup Results, packet : 0..N,
              errors : 0..Retry - 1, cancel : BOOLEAN, crc : BOOLEAN]
  /\ rcv \in [pc : {"hello", "packet", "byte"} \cup Results,
              errors : 0..Retry - 1, cancel : BOOLEAN, crc : BOOLEAN,
              size : {ShortSize, PacketSize}]
  /\ wire \in [Sides -> Seq(Bytes)]
  /\ stored \in Seq(1..N) /\ faults \in 0..MaxFaults

\* The receiver's stream is the front of the sender's: no packet is written twice
\* when its ACK was lost, none is left out, and none is cut from the bytes of two.
StoredInOrder == Len(stored) <= N /\ stored = [k \in 1..Len(stored) |-> k]

\* Every ACK on its way answers one packet that is stored, or what was taken for EOT,
\* the packet being sent or, after a late answer, none before it: so an answer to a
\* packet is never taken for the answer to the next one.
AcksOnTheWay == Cardinality({i \in 1..Len(wire["S"]) : wire["S"][i] = ACK})
AcksSent == Len(stored) + IF rcv.pc = "done" THEN 1 ELSE 0
AcksAreBacked == snd.pc = "ack" => AcksSent >= snd.packet - 1 + AcksOnTheWay

\* send() returns True for a whole stream only.  So does recv() return a number of
\* bytes, unless a byte that came where the first byte of a packet is expected has the
\* value of EOT: a number, when the line lost what is before it, or a byte of contents
\* or CRC, which takes three faults, one for each byte of a header.  The byte is of the
\* packet stored last or of its successor.
Numbers(k) == {k % SeqMod, SeqMod - 1 - (k % SeqMod)}
EotInNumbers == \E k \in {Len(stored), Len(stored) + 1} : EOT \in Numbers(k)
EotInContents == \E k \in {Len(stored), Len(stored) + 1} \cap (1..N) : EOT \in Values[k]
OutcomeIsTrue ==
  /\ snd.pc = "done" => Len(stored) = N
  /\ rcv.pc = "done" =>
       \/ Len(stored) = N
       \/ faults > 0 /\ EotInNumbers
       \/ faults > 2 /\ EotInContents

\* Both functions return or raise, whatever the line does: every loop counts.
BothReturn == <>(Stopped("S") /\ Stopped("R"))

\* Where nothing is damaged, dropped or late, a stream without a packet of CRC 0 is
\* transferred and both sides say so, in every dialect.
CleanCompletes ==
  blank = {} => <>(faults > 0 \/ (snd.pc = "done" /\ rcv.pc = "done"))

\* The transfer survives what the retries are there for.
Recovers == blank = {} => <>(snd.pc = "done" /\ rcv.pc = "done")

\* Seen from outside, a stream grows from its front and is reported when it is whole.
Transfer == INSTANCE FileTransfer WITH
  Files <- {"stream"}, Absent <- <<0>>,
  Content <- [x \in {"stream"} |-> [k \in 1..N |-> k]],
  Before <- [x \in {"stream"} |-> <<>>],
  copy <- [x \in {"stream"} |-> stored],
  reported <- IF snd.pc = "done" THEN {"stream"} ELSE {}
ImplementsTransfer == Transfer!Spec
=============================================================================
