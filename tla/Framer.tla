------------------------------- MODULE Framer -------------------------------
(***************************************************************************)
(* The byte codec of HS/Link: send_packet() and read_packets() with their  *)
(* escapes and CRCs, over a line that changes, drops and inserts bytes.    *)
(*                                                                         *)
(* HSLink takes a damaged frame for a lost one.  Here that is what is      *)
(* checked: noise forges, repeats and reorders nothing, and whatever a     *)
(* damaged byte turns into, it costs at most the frame it is in.           *)
(*                                                                         *)
(* A byte is the set of its bits that are 1, and so is a CRC register, so  *)
(* exclusive or is symmetric difference and nothing is abstracted.  Of the *)
(* two escape masks only the one in use is here (alternate_dle is never    *)
(* set); the overflow reset of read_packets() needs a read of a megabyte,  *)
(* and transport.read() returns at most 4096 bytes.                        *)
(*                                                                         *)
(* A definition marked "Variant" is an original with a plausible bug.      *)
(***************************************************************************)
EXTENDS Integers, Sequences, SequencesExt, FiniteSets

CONSTANTS
  Packets,           \* packets to send, each a type byte and its payload
  CrcSize,           \* crc_size: 2, 3 or 4 bytes
  N,                 \* bound: packets sent
  NoiseBytes,        \* what noise may turn a byte into, or insert
  MaxRead,           \* bound: bytes that arrive between two reads
  MaxFaults          \* bound: bytes changed, dropped or inserted

Byte == SUBSET (0..7)

\* The type byte is a letter in every packet (const.py:11-26).
ASSUME FramerAssumption ==
  /\ \A p \in Packets : p \in Seq(Byte) /\ p # <<>> /\ Head(p) # {}
  /\ CrcSize \in 2..4 /\ NoiseBytes \subseteq Byte
  /\ N \in Nat /\ MaxRead \in Nat \ {0} /\ MaxFaults \in Nat

VARIABLES
  sent,              \* packets given to send_packet(), in order
  wire,              \* bytes the line has not carried yet
  arrived,           \* bytes in the transport's in_buffer
  decoder,           \* _in_packet, _escaped and _current_packet
  received,          \* packets that read_packets() has yielded, in order
  faults

vars == <<sent, wire, arrived, decoder, received, faults>>

Outside == [inPacket |-> FALSE, escaped |-> FALSE, current |-> <<>>]

Init ==
  /\ sent = <<>> /\ wire = <<>> /\ arrived = <<>> /\ received = <<>>
  /\ decoder = Outside /\ faults = 0

-----------------------------------------------------------------------------
(* Bytes and CRCs *)

START == {1}            \* 0x02
END == {0, 1, 3, 4}     \* 0x1B
DLE == {1, 2, 3, 4}     \* 0x1E
XON == {0, 4}           \* 0x11
XOFF == {0, 1, 4}       \* 0x13
CAN == {3, 4}           \* 0x18

Xor(x, y) == (x \ y) \cup (y \ x)
ShiftLeft(x, k) == {i + k : i \in x}
ShiftRight(x, k) == {i - k : i \in {j \in x : j >= k}}
Masked(x, width) == x \cap 0..(width - 1)

\* The polynomials 0x1021, 0x864CFB and, reflected, 0xEDB88320.
Poly16 == {0, 5, 12}
Poly24 == {0, 1, 3, 4, 5, 6, 7, 10, 11, 14, 17, 18, 23}
Poly32 == {5, 8, 9, 15, 19, 20, 21, 23, 24, 26, 27, 29, 30, 31}

\* A round of a CRC that is shifted to the left, and of a reflected one.  The register
\* is masked here and at the end in the code: a bit that has left it at the top never
\* returns.
Round(crc, width, poly) ==
  Masked(Xor(ShiftLeft(crc, 1), IF width - 1 \in crc THEN poly ELSE {}), width)
RoundReflected(crc, poly) ==
  Xor(ShiftRight(crc, 1), IF 0 \in crc THEN poly ELSE {})

\* The eight rounds for one byte.
Rounds(crc, width, poly) ==
  LET after[k \in 0..8] == IF k = 0 THEN crc ELSE Round(after[k - 1], width, poly)
  IN after[8]
RoundsReflected(crc, poly) ==
  LET after[k \in 0..8] == IF k = 0 THEN crc ELSE RoundReflected(after[k - 1], poly)
  IN after[8]

\* The CRC of data that starts from 0 and is shifted to the left.
CrcLeft(data, width, poly) ==
  LET after[n \in 0..Len(data)] ==
        IF n = 0 THEN {}
        ELSE Rounds(Xor(after[n - 1], ShiftLeft(data[n], width - 8)), width, poly)
  IN after[Len(data)]

\* The reflected one, which starts from all ones, before its last exclusive or.
CrcReflected(data) ==
  LET after[n \in 0..Len(data)] ==
        IF n = 0 THEN 0..31 ELSE RoundsReflected(Xor(after[n - 1], data[n]), Poly32)
  IN after[Len(data)]

crc16(data) == CrcLeft(data, 16, Poly16)
crc24(data) == CrcLeft(data, 24, Poly24)
crc32(data) == Xor(CrcReflected(data), 0..31)

Crc(data) == CASE CrcSize = 2 -> crc16(data)
               [] CrcSize = 4 -> crc32(data)
               [] OTHER -> crc24(data)

\* Variant: the register is shifted, but what is left above the byte is not cut off.
CrcBytesUncut(data) == [k \in 1..CrcSize |-> ShiftRight(Crc(data), 8 * (k - 1))]

\* The CRC of data as its CrcSize bytes, the lowest first.
CrcBytes(data) == [k \in 1..CrcSize |-> Masked(ShiftRight(Crc(data), 8 * (k - 1)), 8)]

-----------------------------------------------------------------------------
(* The sender *)

unescape(b) == Xor(b, {7})

escape(b) ==
  IF b \in {START, END, DLE, XON, XOFF, CAN} THEN <<DLE, unescape(b)>> ELSE <<b>>

Frame(p) ==
  LET raw == p \o CrcBytes(p)
  IN <<START>> \o FlattenSeq([i \in 1..Len(raw) |-> escape(raw[i])]) \o <<END>>

send_packet ==
  /\ Len(sent) < N
  /\ \E p \in Packets : sent' = Append(sent, p) /\ wire' = wire \o Frame(p)
  /\ UNCHANGED <<arrived, decoder, received, faults>>

-----------------------------------------------------------------------------
(* The line *)

\* Byte b reaches the in_buffer, and left is what the line still has to carry.
Carries(b, left) ==
  /\ Len(arrived) < MaxRead
  /\ arrived' = Append(arrived, b) /\ wire' = left
  /\ UNCHANGED <<sent, decoder, received>>

Carry == wire # <<>> /\ Carries(Head(wire), Tail(wire)) /\ UNCHANGED faults

Fault == faults < MaxFaults /\ faults' = faults + 1

Change ==
  /\ wire # <<>> /\ Fault
  /\ \E b \in NoiseBytes \ {Head(wire)} : Carries(b, Tail(wire))

Insert == Fault /\ \E b \in NoiseBytes : Carries(b, wire)

Drop ==
  /\ wire # <<>> /\ Fault
  /\ wire' = Tail(wire)
  /\ UNCHANGED <<sent, arrived, decoder, received>>

-----------------------------------------------------------------------------
(* The receiver *)

\* _finalize_packet() finds room for a type byte and a CRC, and the CRC right.
Genuine(data) ==
  LET raw == SubSeq(data, 1, Len(data) - CrcSize)
  IN Len(data) > CrcSize /\ raw \o CrcBytes(raw) = data

\* Variant: the byte after DLE is taken for data before it is looked at.
ScanEscapedFirst(d, b) ==
  CASE d.inPacket /\ d.escaped ->
         [d EXCEPT !.escaped = FALSE, !.current = Append(@, unescape(b))]
    [] b = START -> [Outside EXCEPT !.inPacket = TRUE]
    [] b = END /\ d.inPacket -> [d EXCEPT !.inPacket = FALSE]
    [] b = DLE /\ d.inPacket -> [d EXCEPT !.escaped = TRUE]
    [] b = CAN /\ d.inPacket -> [d EXCEPT !.inPacket = FALSE, !.current = <<>>]
    [] OTHER -> IF d.inPacket THEN [d EXCEPT !.current = Append(@, b)] ELSE d

\* Variant: END completes a packet, but the next one is not waited for.
ScanStaysInside(d, b) ==
  CASE b = START -> [Outside EXCEPT !.inPacket = TRUE]
    [] b # START /\ ~d.inPacket -> d
    [] b = END /\ d.inPacket -> d
    [] b = DLE /\ d.inPacket -> [d EXCEPT !.escaped = TRUE]
    [] b = CAN /\ d.inPacket -> [d EXCEPT !.inPacket = FALSE, !.current = <<>>]
    [] OTHER -> [d EXCEPT !.escaped = FALSE,
                          !.current = Append(@, IF d.escaped THEN unescape(b) ELSE b)]

\* What one byte of the buffer does to the fields of the framer.
Scan(d, b) ==
  CASE b = START -> [Outside EXCEPT !.inPacket = TRUE]
    [] b # START /\ ~d.inPacket -> d
    [] b = END /\ d.inPacket -> [d EXCEPT !.inPacket = FALSE]
    [] b = DLE /\ d.inPacket -> [d EXCEPT !.escaped = TRUE]
    [] b = CAN /\ d.inPacket -> [d EXCEPT !.inPacket = FALSE, !.current = <<>>]
    [] OTHER -> [d EXCEPT !.escaped = FALSE,
                          !.current = Append(@, IF d.escaped THEN unescape(b) ELSE b)]

\* The same byte with the packets that are complete: the one it ends, if genuine.
Step(s, b) ==
  [decoder |-> Scan(s.decoder, b),
   packets |-> IF b = END /\ s.decoder.inPacket /\ Genuine(s.decoder.current)
                 THEN Append(s.packets, SubSeq(s.decoder.current, 1,
                                               Len(s.decoder.current) - CrcSize))
                 ELSE s.packets]

\* The loop over all bytes of the buffer.
Scanned(s, bytes) ==
  LET after[n \in 0..Len(bytes)] == IF n = 0 THEN s ELSE Step(after[n - 1], bytes[n])
  IN after[Len(bytes)]

read_packets ==
  LET s == Scanned([decoder |-> decoder, packets |-> received], arrived)
  IN /\ arrived # <<>>
     /\ decoder' = s.decoder /\ received' = s.packets /\ arrived' = <<>>
     /\ UNCHANGED <<sent, wire, faults>>

-----------------------------------------------------------------------------
Quiet == wire = <<>> /\ arrived = <<>>
Terminated == Len(sent) = N /\ Quiet /\ UNCHANGED vars

Next == \/ send_packet \/ read_packets
        \/ Carry \/ Change \/ Insert \/ Drop
        \/ Terminated

Spec == Init /\ [][Next]_vars

-----------------------------------------------------------------------------
(* Properties *)

\* The type invariant: what is on the wire and in the decoder are bytes.
TypeOK ==
  /\ sent \in Seq(Packets) /\ Len(sent) <= N
  /\ wire \in Seq(Byte) /\ arrived \in Seq(Byte)
  /\ decoder \in [inPacket : BOOLEAN, escaped : BOOLEAN, current : Seq(Byte)]
  /\ received \in Seq(Seq(Byte))
  /\ faults \in 0..MaxFaults

\* Where the packets are that the session has a branch for: no type byte is 0
\* (hslink.py:157).
Known(packets) == {i \in 1..Len(packets) : Head(packets[i]) # {}}

\* What read_packets() yields was sent, in this order and no more often: a frame cut
\* short, run together with the next one or changed by noise does not pass the CRC
\* (framer.py:114), but for one case.  A CRC that starts from 0 does not see a zero
\* byte in front, so one behind START makes a packet of type 0, which is ignored.
\* This is what HSLink assumes of its link.
NothingForged ==
  \E origin \in [Known(received) -> 1..Len(sent)] :
    /\ \A i \in Known(received) : received[i] = sent[origin[i]]
    /\ \A i, j \in Known(received) : i < j => origin[i] < origin[j]

\* A changed, dropped or inserted byte, be it a START, END, DLE or CAN that was or
\* becomes one, costs at most one packet: the decoder is in step again at the next
\* START, whatever state noise has left it in (framer.py:82).  Without noise every
\* packet arrives, wherever the reads cut the stream.
FaultCostsOnePacket == Quiet => Len(sent) - Cardinality(Known(received)) <= faults
=============================================================================
