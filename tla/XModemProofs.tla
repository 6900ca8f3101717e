---------------------------- MODULE XModemProofs ----------------------------
(***************************************************************************)
(* Theorems on XModem, for every choice of its constants.                  *)
(***************************************************************************)
EXTENDS XModem, SequenceTheorems, FiniteSetTheorems, TLAPS

-----------------------------------------------------------------------------
(***************************************************************************)
(* Bytes and packets.                                                      *)
(***************************************************************************)

\* Positions in a concatenation.
LEMMA Joined ==
  ASSUME NEW S, NEW s \in Seq(S), NEW t \in Seq(S)
  PROVE  /\ s \o t \in Seq(S) /\ Len(s \o t) = Len(s) + Len(t)
         /\ Len(s) \in Nat /\ Len(t) \in Nat
         /\ \A i \in 1..Len(s) : (s \o t)[i] = s[i]
         /\ \A i \in 1..Len(t) : (s \o t)[Len(s) + i] = t[i]
OBVIOUS

\* The bytes that the two functions write, apart from a packet, can be on the line.
LEMMA ControlBytes ==
  /\ SOH \in Bytes /\ STX \in Bytes /\ EOT \in Bytes /\ ACK \in Bytes /\ NAK \in Bytes
  /\ CAN \in Bytes /\ CRC \in Bytes /\ Noise \in Bytes
BY DEF Bytes, SOH, STX, EOT, ACK, NAK, CAN, CRC, Noise

\* The byte that begins a packet.
First == IF dialect = "XMODEM1K" THEN STX ELSE SOH

\* A sequence number and its complement are bytes.
LEMMA NumberBytes ==
  ASSUME NEW k \in Nat
  PROVE  k % SeqMod \in 0..255 /\ SeqMod - 1 - (k % SeqMod) \in 0..255
<1>1. SeqMod \in 4..256
  BY XPacketAssumption
<1>2. k % SeqMod \in 0..SeqMod - 1
  BY <1>1, SMT
<1> QED  BY <1>1, <1>2

\* What _send_packet() writes: header, contents and CRC, byte by byte.
LEMMA PacketBytes ==
  ASSUME NEW k \in 1..N
  PROVE  /\ Packet(k) \in Seq(Bytes) /\ Len(Packet(k)) = PacketSize + 5
         /\ Packet(k)[1] = First /\ Packet(k)[2] = k % SeqMod
         /\ Packet(k)[3] = SeqMod - 1 - (k % SeqMod)
         /\ \A i \in 4..PacketSize + 3 : Packet(k)[i] = Cell(k)
         /\ Packet(k)[PacketSize + 4] = Crc(k) /\ Packet(k)[PacketSize + 5] = Crc(k)
<1> DEFINE h == <<First, k % SeqMod, SeqMod - 1 - (k % SeqMod)>>
           c == [i \in 1..PacketSize |-> Cell(k)]
           t == <<Crc(k), Crc(k)>>
<1>0. PacketSize \in Nat \ {0} /\ N \in Nat /\ k \in Nat
  BY XPacketAssumption
<1>1. h \in Seq(Bytes)
  <2>1. First \in Bytes
    BY ControlBytes DEF First
  <2>2. k % SeqMod \in Bytes /\ SeqMod - 1 - (k % SeqMod) \in Bytes
    BY <1>0, NumberBytes DEF Bytes
  <2> QED  BY <2>1, <2>2
<1>2. c \in Seq(Bytes)
  BY <1>0 DEF Bytes
<1>3. t \in Seq(Bytes)
  BY DEF Bytes
<1>4. Packet(k) = (h \o c) \o t
  BY DEF Packet, First
<1>5. Len(h) = 3 /\ h[1] = First /\ h[2] = k % SeqMod /\ h[3] = SeqMod - 1 - (k % SeqMod)
  OBVIOUS
<1>6. Len(c) = PacketSize /\ \A i \in 1..PacketSize : c[i] = Cell(k)
  BY <1>0
<1>7. Len(t) = 2 /\ t[1] = Crc(k) /\ t[2] = Crc(k)
  OBVIOUS
<1> HIDE DEF h, c, t
<1>8. /\ h \o c \in Seq(Bytes) /\ Len(h \o c) = Len(h) + Len(c)
      /\ \A i \in 1..Len(h) : (h \o c)[i] = h[i]
      /\ \A i \in 1..Len(c) : (h \o c)[Len(h) + i] = c[i]
  BY <1>1, <1>2, Joined
<1> DEFINE hc == h \o c
<1> HIDE DEF hc
<1>16. hc \in Seq(Bytes)
  BY <1>8 DEF hc
<1>9. /\ Len(hc) = 3 + PacketSize
      /\ hc[1] = h[1] /\ hc[2] = h[2] /\ hc[3] = h[3]
      /\ \A i \in 1..PacketSize : hc[3 + i] = c[i]
  BY <1>0, <1>5, <1>6, <1>8 DEF hc
<1>10. /\ hc \o t \in Seq(Bytes) /\ Len(hc \o t) = Len(hc) + Len(t)
       /\ \A i \in 1..Len(hc) : (hc \o t)[i] = hc[i]
       /\ \A i \in 1..Len(t) : (hc \o t)[Len(hc) + i] = t[i]
  BY <1>3, <1>16, Joined
<1>11. Packet(k) = hc \o t
  BY <1>4 DEF hc
<1>12. /\ Packet(k) \in Seq(Bytes) /\ Len(Packet(k)) = 3 + PacketSize + 2
       /\ \A i \in 1..3 + PacketSize : Packet(k)[i] = hc[i]
       /\ \A i \in 1..2 : Packet(k)[3 + PacketSize + i] = t[i]
  BY <1>0, <1>7, <1>9, <1>10, <1>11
<1> HIDE <1>4, <1>11
<1>13. Packet(k)[1] = h[1] /\ Packet(k)[2] = h[2] /\ Packet(k)[3] = h[3]
  BY <1>0, <1>9, <1>12
<1>14. \A i \in 4..PacketSize + 3 : Packet(k)[i] = Cell(k)
  <2> TAKE i \in 4..PacketSize + 3
  <2>1. i - 3 \in 1..PacketSize /\ i \in 1..3 + PacketSize /\ 3 + (i - 3) = i
    BY <1>0
  <2> QED  BY <1>6, <1>9, <1>12, <2>1
<1>15. Packet(k)[PacketSize + 4] = t[1] /\ Packet(k)[PacketSize + 5] = t[2]
  BY <1>0, <1>12
<1> QED  BY <1>0, <1>5, <1>7, <1>12, <1>13, <1>14, <1>15

-----------------------------------------------------------------------------
(***************************************************************************)
(* The line.                                                               *)
(***************************************************************************)
Lines == [Sides -> Seq(Bytes)]

\* What is left of a sequence when a getc() has taken bytes from its front.
LEMMA Rest ==
  ASSUME NEW s \in Seq(Bytes), NEW n \in Nat
  PROVE  /\ SubSeq(s, n + 1, Len(s)) \in Seq(Bytes)
         /\ Len(SubSeq(s, n + 1, Len(s))) = IF n < Len(s) THEN Len(s) - n ELSE 0
         /\ \A i \in 1..Len(s) - n : SubSeq(s, n + 1, Len(s))[i] = s[n + i]
<1>1. Len(s) \in Nat /\ \A i \in 1..Len(s) : s[i] \in Bytes
  OBVIOUS
<1>2. \A i \in n + 1 .. Len(s) : s[i] \in Bytes
  BY <1>1
<1> QED  BY <1>1, <1>2, SubSeqProperties

\* The state of the line after reading and writing, side by side.
LEMMA PassEffect ==
  ASSUME wire \in Lines, NEW p \in Sides, NEW n \in Nat, NEW bytes \in Seq(Bytes),
         Pass(p, n, bytes)
  PROVE  /\ wire' \in Lines
         /\ wire'[p] = SubSeq(wire[p], n + 1, Len(wire[p]))
         /\ wire'[Peer(p)] = IF Stopped(Peer(p)) THEN <<>> ELSE wire[Peer(p)] \o bytes
<1>1. Peer(p) \in Sides /\ Peer(p) # p /\ Sides = {p, Peer(p)}
  BY DEF Sides, Peer
<1>2. SubSeq(wire[p], n + 1, Len(wire[p])) \in Seq(Bytes)
  BY Rest DEF Lines
<1>3. wire[Peer(p)] \o bytes \in Seq(Bytes) /\ <<>> \in Seq(Bytes)
  BY <1>1 DEF Lines
<1> QED  BY <1>1, <1>2, <1>3 DEF Pass, Lines

\* What a side that stops does to the line: its own direction is forgotten, and the
\* other one takes the farewell, unless nobody reads it.
LEMMA QuitEffect ==
  ASSUME wire \in Lines, NEW p \in Sides, NEW bytes \in Seq(Bytes), Quit(p, bytes)
  PROVE  /\ wire' \in Lines
         /\ wire'[p] = <<>>
         /\ wire'[Peer(p)] = IF Stopped(Peer(p)) THEN <<>> ELSE wire[Peer(p)] \o bytes
<1>1. Peer(p) \in Sides /\ Peer(p) # p /\ Sides = {p, Peer(p)}
  BY DEF Sides, Peer
<1>2. wire[Peer(p)] \o bytes \in Seq(Bytes) /\ <<>> \in Seq(Bytes)
  BY <1>1 DEF Lines
<1> QED  BY <1>1, <1>2 DEF Quit, Lines

\* A damaged or dropped byte leaves bytes.
LEMMA FaultEffect ==
  ASSUME wire \in Lines, Fault
  PROVE  \E p \in Sides : \E i \in 1..Len(wire[p]) : \E b \in {Noise, CAN} :
           /\ wire' \in Lines /\ \A q \in Sides \ {p} : wire'[q] = wire[q]
           /\ \/ wire'[p] = [wire[p] EXCEPT ![i] = b]
              \/ wire'[p] = SubSeq(wire[p], 1, i - 1) \o SubSeq(wire[p], i + 1, Len(wire[p]))
<1>0. PICK p \in Sides : \E i \in 1..Len(wire[p]) :
       \/ wire' = [wire EXCEPT ![p][i] = Noise]
       \/ wire' = [wire EXCEPT ![p][i] = CAN]
       \/ wire' = [wire EXCEPT ![p] = SubSeq(@, 1, i - 1) \o SubSeq(@, i + 1, Len(@))]
  BY DEF Fault
<1>1. PICK i \in 1..Len(wire[p]) :
       \/ wire' = [wire EXCEPT ![p][i] = Noise]
       \/ wire' = [wire EXCEPT ![p][i] = CAN]
       \/ wire' = [wire EXCEPT ![p] = SubSeq(@, 1, i - 1) \o SubSeq(@, i + 1, Len(@))]
  BY <1>0
<1>2. wire[p] \in Seq(Bytes) /\ Len(wire[p]) \in Nat
  BY DEF Lines
<1>3. \A b \in Bytes : [wire[p] EXCEPT ![i] = b] \in Seq(Bytes)
  BY <1>2, ExceptSeq
<1>4. SubSeq(wire[p], 1, i - 1) \o SubSeq(wire[p], i + 1, Len(wire[p])) \in Seq(Bytes)
  <2>1. \A j \in 1..i - 1 : wire[p][j] \in Bytes
    BY <1>2
  <2>2. SubSeq(wire[p], 1, i - 1) \in Seq(Bytes)
    BY <2>1, SubSeqProperties
  <2>3. SubSeq(wire[p], i + 1, Len(wire[p])) \in Seq(Bytes)
    BY <1>2, Rest
  <2> QED  BY <2>2, <2>3
<1> DEFINE Damaged(b) == [wire[p] EXCEPT ![i] = b]
           Shorter == SubSeq(wire[p], 1, i - 1) \o SubSeq(wire[p], i + 1, Len(wire[p]))
<1>5. \E s \in {Damaged(Noise), Damaged(CAN), Shorter} : wire' = [wire EXCEPT ![p] = s]
  BY <1>1
<1>6. PICK s \in {Damaged(Noise), Damaged(CAN), Shorter} : wire' = [wire EXCEPT ![p] = s]
  BY <1>5
<1>7. s \in Seq(Bytes)
  BY <1>3, <1>4, ControlBytes
<1>8. wire' \in Lines /\ wire'[p] = s /\ \A q \in Sides \ {p} : wire'[q] = wire[q]
  BY <1>6, <1>7 DEF Lines
<1>9. \E b \in {Noise, CAN} : s = Damaged(b) \/ s = Shorter
  OBVIOUS
<1> QED  BY <1>8, <1>9

-----------------------------------------------------------------------------
(***************************************************************************)
(* Types.                                                                  *)
(***************************************************************************)
SenderStates ==
  [pc : {"hello", "next", "ack", "eot"} \cup Results, packet : 0..N,
   errors : 0..Retry - 1, cancel : BOOLEAN, crc : BOOLEAN]
ReceiverStates ==
  [pc : {"hello", "packet", "byte"} \cup Results,
   errors : 0..Retry - 1, cancel : BOOLEAN, crc : BOOLEAN, size : {ShortSize, PacketSize}]

\* Only a packet that exists is sent again.
TypeInv == TypeOK /\ (snd.pc = "ack" => snd.packet \in 1..N)

SenderWrites == {<<>>, <<EOT>>, <<CAN, CAN>>} \cup {Packet(k) : k \in 1..N}
ReceiverWrites == {<<>>, <<ACK>>, <<NAK>>, <<CRC>>, <<CAN, CAN>>}

\* Whatever the two sides write is made of bytes.
LEMMA WritesType ==
  SenderWrites \subseteq Seq(Bytes) /\ ReceiverWrites \subseteq Seq(Bytes)
<1>1. /\ <<>> \in Seq(Bytes) /\ <<EOT>> \in Seq(Bytes) /\ <<CAN, CAN>> \in Seq(Bytes)
      /\ <<ACK>> \in Seq(Bytes) /\ <<NAK>> \in Seq(Bytes) /\ <<CRC>> \in Seq(Bytes)
  BY ControlBytes
<1>2. \A k \in 1..N : Packet(k) \in Seq(Bytes)
  BY PacketBytes
<1> QED  BY <1>1, <1>2 DEF SenderWrites, ReceiverWrites

\* What is read after a packet's first byte is a packet at most.
LEMMA BodySizes ==
  ASSUME TypeOK
  PROVE  /\ BodySize \in Nat /\ 3 <= BodySize /\ BodySize <= PacketSize + 4
         /\ \A b : SizeAfter(b) \in {ShortSize, PacketSize}
<1>1. rcv.size \in 1..PacketSize /\ PacketSize \in Nat
  BY XPacketAssumption DEF TypeOK
<1> QED  BY <1>1 DEF BodySize, SizeAfter

\* The limits of the loops: an attempt that is followed by another is below Retry.
LEMMA Counters ==
  /\ N \in Nat /\ Retry \in Nat /\ 0 \in 0..Retry - 1 /\ MaxFaults \in Nat
  /\ \A e \in 0..Retry - 1 : e + 1 < Retry => e + 1 \in 0..Retry - 1
BY XPacketAssumption, XRetryAssumption

\* A timeout stays within the budget of faults.
LEMMA TimesOutType ==
  ASSUME TypeOK, NEW p \in Sides, TimesOut(p) PROVE faults' \in 0..MaxFaults
BY Counters DEF TypeOK, TimesOut

\* One more attempt, or the end: errors stays below the limit.
LEMMA SendAgainType ==
  ASSUME TypeInv, NEW bytes \in SenderWrites, NEW r \in Results,
         NEW farewell \in SenderWrites, SendAgain(bytes, r, farewell)
  PROVE  /\ snd' \in SenderStates /\ snd'.packet = snd.packet
         /\ snd'.pc \in {snd.pc, r}
         /\ \/ \E n \in Nat : Pass("S", n, bytes)
            \/ Quit("S", farewell)
<1>1. snd \in SenderStates
  BY DEF TypeInv, TypeOK, SenderStates
<1>2. Read("S") \in Nat
  BY DEF Read
<1>3. CASE snd.errors + 1 < Retry
  BY <1>1, <1>2, <1>3, Counters DEF SendAgain, SenderStates
<1>4. CASE ~(snd.errors + 1 < Retry)
  BY <1>1, <1>4 DEF SendAgain, SEnds, SenderStates
<1> QED  BY <1>3, <1>4

\* Every step of send() reads some bytes and writes a known sequence, or returns.
LEMMA SenderSteps ==
  ASSUME TypeInv, SenderStep
  PROVE  /\ snd' \in SenderStates /\ faults' \in 0..MaxFaults
         /\ snd'.pc = "ack" => snd'.packet \in 1..N
         /\ \E bytes \in SenderWrites :
              (\E n \in Nat : Pass("S", n, bytes)) \/ Quit("S", bytes)
<1> DEFINE Goal == /\ snd' \in SenderStates /\ faults' \in 0..MaxFaults
                   /\ snd'.pc = "ack" => snd'.packet \in 1..N
                   /\ \E bytes \in SenderWrites :
                        (\E n \in Nat : Pass("S", n, bytes)) \/ Quit("S", bytes)
<1>1. snd \in SenderStates /\ faults \in 0..MaxFaults
  BY DEF TypeInv, TypeOK, SenderStates
<1>2. <<>> \in SenderWrites /\ <<EOT>> \in SenderWrites /\ <<CAN, CAN>> \in SenderWrites
  BY DEF SenderWrites
<1>3. \A k \in 1..N : Packet(k) \in SenderWrites
  BY DEF SenderWrites
<1>4. {"failed", "raised", "done"} = Results
  BY DEF Results
<1>5. "S" \in Sides /\ "R" \in Sides
  BY DEF Sides
<1>6. TimesOut("S") => faults' \in 0..MaxFaults
  BY <1>5, TimesOutType DEF TypeInv
<1>7. ASSUME NEW r, SEnds(r, <<>>) \/ SEnds(r, <<CAN, CAN>>), r \in Results
      PROVE  /\ snd' \in SenderStates /\ snd'.pc # "ack"
             /\ \E bytes \in SenderWrites : Quit("S", bytes)
  BY <1>1, <1>2, <1>7 DEF SEnds, SenderStates, Results
<1>8. ASSUME NEW bytes \in SenderWrites, NEW r \in Results, NEW farewell \in SenderWrites,
             SendAgain(bytes, r, farewell), faults' \in 0..MaxFaults
      PROVE  Goal
  <2>1. /\ snd' \in SenderStates /\ snd'.packet = snd.packet
        /\ snd'.pc \in {snd.pc, r}
        /\ (\E n \in Nat : Pass("S", n, bytes)) \/ Quit("S", farewell)
    BY <1>8, SendAgainType
  <2>2. r # "ack"
    BY DEF Results
  <2>3. snd'.pc = "ack" => snd'.packet \in 1..N
    BY <2>1, <2>2 DEF TypeInv
  <2> QED  BY <1>8, <2>1, <2>3
<1>9. CASE Greeted
  BY <1>1, <1>2, <1>9 DEF Greeted, SReads, SenderStates
<1>10. CASE NotGreeted
  <2>1. CASE SReads("hello", CAN) /\ ~snd.cancel /\ snd.errors + 1 < Retry
                /\ snd' = [snd EXCEPT !.errors = @ + 1, !.cancel = TRUE] /\ Pass("S", 1, <<>>)
    BY <1>1, <1>2, <2>1, Counters DEF SReads, SenderStates
  <2>2. CASE (\E r \in Results : SEnds(r, <<>>) \/ SEnds(r, <<CAN, CAN>>)) /\ UNCHANGED faults
    BY <1>1, <1>7, <2>2
  <2>3. CASE SendAgain(<<>>, "failed", <<CAN, CAN>>) /\ faults' \in 0..MaxFaults
    BY <1>2, <1>4, <1>8, <2>3
  <2> QED  BY <1>1, <1>4, <1>6, <1>10, <2>1, <2>2, <2>3 DEF NotGreeted, SReads
<1>11. CASE NextPacket
  <2>1. snd.packet + 1 \in 1..N
    BY <1>1, <1>11, Counters DEF NextPacket, SenderStates
  <2>2. CASE snd.crc /\ snd.packet + 1 \notin blank
    <3> DEFINE k == snd.packet + 1
    <3>1. /\ snd' = [snd EXCEPT !.pc = "ack", !.packet = k, !.errors = 0]
          /\ Pass("S", 0, Packet(k)) /\ faults' = faults
      BY <1>11, <2>2 DEF NextPacket
    <3>2. Packet(k) \in SenderWrites /\ 0 \in Nat
      BY <1>3, <2>1
    <3>3. k \in 0..N /\ k \in 1..N
      BY <2>1
    <3> HIDE DEF k
    <3>4. snd' \in SenderStates /\ snd'.packet = k
      BY <1>1, <3>1, <3>3, Counters DEF SenderStates
    <3> QED  BY <1>1, <3>1, <3>2, <3>3, <3>4
  <2>3. CASE ~(snd.crc /\ snd.packet + 1 \notin blank)
    BY <1>1, <1>4, <1>7, <1>11, <2>3 DEF NextPacket
  <2> QED  BY <2>2, <2>3
<1>12. CASE Acknowledged
  BY <1>1, <1>2, <1>12 DEF Acknowledged, SReads, SenderStates
<1>13. CASE PacketRefused
  <2>1. snd.packet \in 1..N
    BY <1>13 DEF PacketRefused, SReads, TypeInv
  <2> QED  BY <1>1, <1>2, <1>3, <1>4, <1>8, <1>13, <2>1 DEF PacketRefused, SReads
<1>14. CASE PacketUnanswered
  <2>1. snd.packet \in 1..N
    BY <1>14 DEF PacketUnanswered, TypeInv
  <2> QED  BY <1>1, <1>2, <1>3, <1>4, <1>6, <1>8, <1>14, <2>1 DEF PacketUnanswered
<1>15. CASE EndOfStream
  BY <1>1, <1>2, <1>15, Counters DEF EndOfStream, SenderStates
<1>16. CASE EotAcknowledged
  BY <1>1, <1>4, <1>7, <1>16 DEF EotAcknowledged, SReads
<1>17. CASE EotUnanswered
  BY <1>1, <1>2, <1>4, <1>6, <1>8, <1>17 DEF EotUnanswered
<1> QED  BY <1>9, <1>10, <1>11, <1>12, <1>13, <1>14, <1>15, <1>16, <1>17 DEF SenderStep

\* A round of the handshake keeps recv() well typed, and writes one of its bytes.
LEMMA AskType ==
  ASSUME TypeOK, NEW errors \in 0..Retry, NEW cancel \in BOOLEAN, Ask(errors, cancel)
  PROVE  /\ rcv' \in ReceiverStates
         /\ \E bytes \in ReceiverWrites :
              (\E n \in Nat : Pass("R", n, bytes)) \/ Quit("R", bytes)
<1> DEFINE crc == rcv.crc /\ 2 * errors < Retry
<1>1. rcv \in ReceiverStates /\ crc \in BOOLEAN
  BY DEF TypeOK, ReceiverStates
<1>2. Read("R") \in Nat
  BY DEF Read
<1>3. CASE errors < Retry
  <2>1. errors \in 0..Retry - 1
    BY <1>3, Counters
  <2>2. /\ rcv' = [rcv EXCEPT !.errors = errors, !.crc = crc, !.cancel = cancel]
        /\ Pass("R", Read("R"), <<IF crc THEN CRC ELSE NAK>>)
    BY <1>3 DEF Ask
  <2>3. <<IF crc THEN CRC ELSE NAK>> \in ReceiverWrites
    BY DEF ReceiverWrites
  <2> HIDE DEF crc
  <2>4. rcv' \in ReceiverStates
    BY <1>1, <2>1, <2>2 DEF ReceiverStates
  <2> QED  BY <1>2, <2>2, <2>3, <2>4
<1>4. CASE ~(errors < Retry)
  BY <1>1, <1>4 DEF Ask, REnds, ReceiverStates, Results, ReceiverWrites
<1> QED  BY <1>3, <1>4

\* Every step of recv() does the same, and appends to the stream a packet at most.
LEMMA ReceiverSteps ==
  ASSUME TypeOK, ReceiverStep
  PROVE  /\ rcv' \in ReceiverStates /\ faults' \in 0..MaxFaults
         /\ stored' = stored \/ \E k \in 1..N : stored' = Append(stored, k)
         /\ \E bytes \in ReceiverWrites :
              (\E n \in Nat : Pass("R", n, bytes)) \/ Quit("R", bytes)
<1>1. rcv \in ReceiverStates /\ faults \in 0..MaxFaults
  BY DEF TypeOK, ReceiverStates
<1>2. /\ <<>> \in ReceiverWrites /\ <<ACK>> \in ReceiverWrites
      /\ <<NAK>> \in ReceiverWrites /\ <<CAN, CAN>> \in ReceiverWrites
  BY DEF ReceiverWrites
<1>3. TimesOut("R") => faults' \in 0..MaxFaults
  BY TimesOutType DEF Sides
<1>4. BodySize \in Nat /\ 1 \in Nat /\ \A b : SizeAfter(b) \in {ShortSize, PacketSize}
  BY BodySizes
<1>5. rcv.errors \in 0..Retry /\ rcv.errors + 1 \in 0..Retry /\ rcv.cancel \in BOOLEAN
  BY <1>1, Counters DEF ReceiverStates
<1>6. ASSUME NEW r \in {"done", "failed", "raised"}, NEW bytes \in ReceiverWrites, REnds(r, bytes)
      PROVE  rcv' \in ReceiverStates /\ \E b \in ReceiverWrites : Quit("R", b)
  BY <1>1, <1>6 DEF REnds, ReceiverStates, Results
<1>7. CASE AskAgain /\ UNCHANGED stored
  BY <1>1, <1>3, <1>5, <1>7, AskType DEF AskAgain, RReads
<1>8. CASE AskCancelled /\ UNCHANGED stored
  BY <1>1, <1>2, <1>6, <1>8 DEF AskCancelled, RReads
<1>9. CASE PacketStarts /\ UNCHANGED stored
  <2>1. PICK b : /\ rcv' = [rcv EXCEPT !.pc = "packet", !.errors = 0, !.cancel = FALSE,
                                        !.size = SizeAfter(b)]
                 /\ faults' = faults /\ Pass("R", 1, <<>>)
    BY <1>9 DEF PacketStarts, RReads
  <2> QED  BY <1>1, <1>2, <1>4, <1>9, <2>1, Counters DEF ReceiverStates
<1>10. CASE EndOfTransmission /\ UNCHANGED stored
  BY <1>1, <1>2, <1>6, <1>10 DEF EndOfTransmission, RReads
<1>11. CASE CancelByte /\ UNCHANGED stored
  BY <1>1, <1>2, <1>6, <1>11 DEF CancelByte, RReads
<1>12. CASE ByteRaises /\ UNCHANGED stored
  BY <1>1, <1>2, <1>3, <1>6, <1>12 DEF ByteRaises, RReads
<1>13. CASE PacketRaises
  BY <1>1, <1>2, <1>3, <1>6, <1>13 DEF PacketRaises, BodyRead
<1>14. CASE PacketGood
  <2>1. rcv' = [rcv EXCEPT !.pc = "byte"] /\ Pass("R", BodySize, <<ACK>>)
    BY <1>14 DEF PacketGood
  <2>2. rcv' \in ReceiverStates
    BY <1>1, <2>1 DEF ReceiverStates
  <2>3. faults' \in 0..MaxFaults /\ \E k \in 1..N : stored' = Append(stored, k)
    BY <1>1, <1>3, <1>14 DEF PacketGood, BodyRead
  <2> QED  BY <1>2, <1>4, <2>1, <2>2, <2>3
<1>15. CASE PacketBad
  BY <1>1, <1>2, <1>3, <1>4, <1>15 DEF PacketBad, BodyRead
<1> QED  BY <1>7, <1>8, <1>9, <1>10, <1>11, <1>12, <1>13, <1>14, <1>15 DEF ReceiverStep

\* The invariant of types holds at the beginning.
LEMMA InitTypes == Init => TypeInv
<1> SUFFICES ASSUME Init PROVE TypeInv
  OBVIOUS
<1>1. wire \in Lines
  BY ControlBytes DEF Init, Lines, Sides
<1>2. snd \in SenderStates /\ rcv \in ReceiverStates
  BY Counters DEF Init, SenderStates, ReceiverStates
<1>3. stored \in Seq(1..N) /\ faults \in 0..MaxFaults
  BY Counters DEF Init
<1> QED  BY <1>1, <1>2, <1>3 DEF Init, TypeInv, TypeOK, Lines, SenderStates, ReceiverStates

\* Every step preserves the invariant of types.
LEMMA NextTypes == TypeInv /\ [Next]_vars => TypeInv'
<1> SUFFICES ASSUME TypeInv, [Next]_vars PROVE TypeInv'
  OBVIOUS
<1>1. /\ TypeOK /\ wire \in Lines /\ snd \in SenderStates /\ rcv \in ReceiverStates
      /\ stored \in Seq(1..N) /\ faults \in 0..MaxFaults
  BY DEF TypeInv, TypeOK, Lines, SenderStates, ReceiverStates
<1>2. "S" \in Sides /\ "R" \in Sides
  BY DEF Sides
<1> DEFINE Typed == /\ dialect' = dialect /\ blank' = blank
                    /\ snd' \in SenderStates /\ rcv' \in ReceiverStates /\ wire' \in Lines
                    /\ stored' \in Seq(1..N) /\ faults' \in 0..MaxFaults
                    /\ snd'.pc = "ack" => snd'.packet \in 1..N
<1> SUFFICES Typed
  BY DEF TypeInv, TypeOK, Lines, SenderStates, ReceiverStates
<1>3. CASE SenderStep
  <2>1. wire' \in Lines
    BY <1>1, <1>2, <1>3, SenderSteps, WritesType, PassEffect, QuitEffect
  <2> QED  BY <1>1, <1>3, <2>1, SenderSteps DEF SenderStep, TypeInv, TypeOK
<1>4. CASE ReceiverStep
  <2>1. wire' \in Lines
    BY <1>1, <1>2, <1>4, ReceiverSteps, WritesType, PassEffect, QuitEffect
  <2>2. stored' \in Seq(1..N)
    <3>1. \A k \in 1..N : Append(stored, k) \in Seq(1..N)
      BY <1>1
    <3> QED  BY <1>1, <1>4, <3>1, ReceiverSteps
  <2> QED  BY <1>1, <1>4, <2>1, <2>2, ReceiverSteps DEF ReceiverStep, TypeInv, TypeOK
<1>5. CASE Fault
  <2>1. wire' \in Lines
    BY <1>1, <1>5, FaultEffect
  <2>2. faults' \in 0..MaxFaults
    BY <1>1, <1>5, Counters DEF Fault
  <2> QED  BY <1>1, <1>5, <2>1, <2>2 DEF Fault, TypeInv, TypeOK
<1>6. CASE UNCHANGED vars
  BY <1>1, <1>6 DEF vars, TypeInv, TypeOK
<1> QED  BY <1>3, <1>4, <1>5, <1>6 DEF Next, Terminated

\* No counter reaches the limit that ends its loop, and every byte is one that a side
\* wrote or the line made of it: the types that the runs check hold for every stream,
\* packet size and number of retries.
THEOREM TypeCorrect == Spec => []TypeOK
<1>1. TypeInv => TypeOK
  BY DEF TypeInv
<1> QED  BY <1>1, InitTypes, NextTypes, PTL DEF Spec

-----------------------------------------------------------------------------
(***************************************************************************)
(* Whatever is read from a line, damaged or dropped, the bytes that remain *)
(* are some of those that were there, in the same order, or mean nothing.  *)
(***************************************************************************)

\* t is what is left of s when d bytes at most were dropped between others.
Thins(t, s, d) ==
  \E f \in [1..Len(t) -> 1..Len(s)] :
    /\ \A i \in 1..Len(t) : t[i] = s[f[i]] \/ t[i] \in {Noise, CAN}
    /\ \A i, j \in 1..Len(t) : i < j => f[i] < f[j] /\ f[j] - f[i] <= j - i + d
    /\ \A i \in 1..Len(t) : Len(s) - f[i] <= Len(t) - i + d

\* Everything may be lost.
LEMMA ThinsEmpty ==
  ASSUME NEW s \in Seq(Bytes), NEW d \in Nat PROVE Thins(<<>>, s, d)
<1> DEFINE f == [i \in 1..0 |-> 1]
<1>1. f \in [1..0 -> 1..Len(s)] /\ Len(<<>>) = 0 /\ \A i \in 1..0 : FALSE
  OBVIOUS
<1> QED  BY <1>1 DEF Thins

\* Reading from the front is a thinning with nothing dropped in between.
LEMMA ThinsRest ==
  ASSUME NEW s \in Seq(Bytes), NEW n \in Nat
  PROVE  Thins(SubSeq(s, n + 1, Len(s)), s, 0)
<1> DEFINE t == SubSeq(s, n + 1, Len(s))
           f == [i \in 1..Len(t) |-> n + i]
<1>1. /\ Len(t) = (IF n < Len(s) THEN Len(s) - n ELSE 0) /\ Len(s) \in Nat
      /\ \A i \in 1..Len(s) - n : t[i] = s[n + i]
  <2>1. Len(s) \in Nat
    OBVIOUS
  <2> QED  BY <2>1, Rest, Zenon
<1> HIDE DEF t
<1>2. \A i \in 1..Len(t) : n + i \in 1..Len(s) /\ i \in 1..Len(s) - n /\ Len(s) - (n + i) <= Len(t) - i
  BY <1>1
<1>3. f \in [1..Len(t) -> 1..Len(s)]
  BY <1>2
<1>4. \A i \in 1..Len(t) : t[i] = s[f[i]]
  BY <1>1, <1>2
<1>5. \A i, j \in 1..Len(t) : i < j => f[i] < f[j] /\ f[j] - f[i] <= j - i + 0
  BY <1>1
<1>6. \A i \in 1..Len(t) : Len(s) - f[i] <= Len(t) - i + 0
  BY <1>1, <1>2
<1> HIDE DEF f
<1>7. Thins(t, s, 0)
  BY <1>3, <1>4, <1>5, <1>6 DEF Thins
<1> QED  BY <1>7 DEF t

\* So is damage to one byte, whatever it becomes.
LEMMA ThinsDamaged ==
  ASSUME NEW s \in Seq(Bytes), NEW x \in 1..Len(s), NEW b \in {Noise, CAN}
  PROVE  Thins([s EXCEPT ![x] = b], s, 0)
<1> DEFINE t == [s EXCEPT ![x] = b]
           f == [i \in 1..Len(t) |-> i]
<1>1. /\ Len(t) = Len(s) /\ Len(s) \in Nat
      /\ \A i \in 1..Len(s) : t[i] = IF i = x THEN b ELSE s[i]
  BY ControlBytes, ExceptSeq
<1> HIDE DEF t
<1>2. f \in [1..Len(t) -> 1..Len(s)] /\ \A i \in 1..Len(t) : f[i] = i
  BY <1>1
<1> HIDE DEF f
<1>3. \A i \in 1..Len(t) : t[i] = s[f[i]] \/ t[i] \in {Noise, CAN}
  BY <1>1, <1>2
<1>4. /\ \A i, j \in 1..Len(t) : i < j => f[i] < f[j] /\ f[j] - f[i] <= j - i + 0
      /\ \A i \in 1..Len(t) : Len(s) - f[i] <= Len(t) - i + 0
  BY <1>1, <1>2
<1>5. Thins(t, s, 0)
  BY <1>2, <1>3, <1>4 DEF Thins
<1> QED  BY <1>5 DEF t

\* A byte dropped in the middle uses up one drop.
LEMMA ThinsShorter ==
  ASSUME NEW s \in Seq(Bytes), NEW x \in 1..Len(s)
  PROVE  Thins(SubSeq(s, 1, x - 1) \o SubSeq(s, x + 1, Len(s)), s, 1)
<1> DEFINE a == SubSeq(s, 1, x - 1)
           c == SubSeq(s, x + 1, Len(s))
           t == a \o c
           f == [i \in 1..Len(t) |-> IF i < x THEN i ELSE i + 1]
<1>1. Len(s) \in Nat /\ \A i \in 1..Len(s) : s[i] \in Bytes
  OBVIOUS
<1>2. a \in Seq(Bytes) /\ Len(a) = x - 1 /\ \A i \in 1..x - 1 : a[i] = s[i]
  <2>1. \A i \in 1..x - 1 : s[i] \in Bytes
    BY <1>1
  <2> QED  BY <2>1, SubSeqProperties
<1>3. c \in Seq(Bytes) /\ Len(c) = Len(s) - x /\ \A i \in 1..Len(s) - x : c[i] = s[x + i]
  <2>1. x \in Nat
    BY <1>1
  <2>2. /\ c \in Seq(Bytes) /\ Len(c) = IF x < Len(s) THEN Len(s) - x ELSE 0
        /\ \A i \in 1..Len(s) - x : c[i] = s[x + i]
    BY <2>1, Rest, Zenon
  <2> QED  BY <1>1, <2>2
<1>4. a \in Seq(Bytes) /\ c \in Seq(Bytes)
  BY <1>2, <1>3
<1> HIDE DEF a, c
<1>5. /\ Len(t) = Len(a) + Len(c)
      /\ \A i \in 1..Len(a) : t[i] = a[i]
      /\ \A i \in 1..Len(c) : t[Len(a) + i] = c[i]
  BY <1>4, Joined
<1> HIDE DEF t
<1>6. Len(t) = Len(s) - 1
  BY <1>1, <1>2, <1>3, <1>5
<1>7. /\ f \in [1..Len(t) -> 1..Len(s)]
      /\ \A i \in 1..Len(t) : f[i] = IF i < x THEN i ELSE i + 1
  BY <1>1, <1>6
<1> HIDE DEF f
<1>8. \A i \in 1..Len(t) : t[i] = s[f[i]]
  <2> TAKE i \in 1..Len(t)
  <2>1. CASE i < x
    BY <1>2, <1>5, <1>7, <2>1
  <2>2. CASE ~(i < x)
    <3>1. i - (x - 1) \in 1..Len(c) /\ Len(a) + (i - (x - 1)) = i
          /\ x + (i - (x - 1)) = i + 1
      BY <1>1, <1>2, <1>3, <1>6, <2>2
    <3>2. t[i] = c[i - (x - 1)]
      BY <1>5, <3>1
    <3>3. c[i - (x - 1)] = s[i + 1]
      BY <1>3, <3>1
    <3> QED  BY <1>7, <2>2, <3>2, <3>3
  <2> QED  BY <2>1, <2>2
<1>9. /\ \A i, j \in 1..Len(t) : i < j => f[i] < f[j] /\ f[j] - f[i] <= j - i + 1
      /\ \A i \in 1..Len(t) : Len(s) - f[i] <= Len(t) - i + 1
  BY <1>1, <1>6, <1>7
<1>10. Thins(t, s, 1)
  BY <1>7, <1>8, <1>9 DEF Thins
<1> QED  BY <1>10 DEF t, a, c

-----------------------------------------------------------------------------
(***************************************************************************)
(* Acknowledgements on a line.                                             *)
(***************************************************************************)
Acks(s) == Cardinality({i \in 1..Len(s) : s[i] = ACK})

\* The ACKs on a line can be counted.
LEMMA AcksType ==
  ASSUME NEW s \in Seq(Bytes)
  PROVE  IsFiniteSet({i \in 1..Len(s) : s[i] = ACK}) /\ Acks(s) \in Nat
<1>1. IsFiniteSet(1..Len(s))
  BY FS_Interval
<1>2. IsFiniteSet({i \in 1..Len(s) : s[i] = ACK})
  BY <1>1, FS_Subset
<1> QED  BY <1>2, FS_CardinalityType DEF Acks

\* The line makes no ACK out of anything else.
LEMMA AcksThinned ==
  ASSUME NEW s \in Seq(Bytes), NEW t \in Seq(Bytes), NEW d, Thins(t, s, d)
  PROVE  Acks(t) <= Acks(s)
<1> DEFINE A == {i \in 1..Len(t) : t[i] = ACK}
           B == {i \in 1..Len(s) : s[i] = ACK}
<1>1. PICK f \in [1..Len(t) -> 1..Len(s)] :
        /\ \A i \in 1..Len(t) : t[i] = s[f[i]] \/ t[i] \in {Noise, CAN}
        /\ \A i, j \in 1..Len(t) : i < j => f[i] < f[j]
  BY DEF Thins
<1> DEFINE g == [i \in A |-> f[i]]
<1>2. g \in [A -> B]
  BY <1>1 DEF ACK, Noise, CAN
<1>3. \A i, j \in A : g[i] = g[j] => i = j
  <2>1. Len(t) \in Nat /\ Len(s) \in Nat
    OBVIOUS
  <2> QED  BY <1>1, <2>1
<1>4. g \in Injection(A, B)
  BY <1>2, <1>3 DEF Injection, IsInjective
<1>5. IsFiniteSet(B)
  BY AcksType
<1> HIDE DEF A, B, g
<1>6. Cardinality(A) <= Cardinality(B)
  BY <1>4, <1>5, FS_Injection
<1> QED  BY <1>6 DEF A, B, Acks

\* Reading an ACK takes it from the line.
LEMMA AcksRead ==
  ASSUME NEW s \in Seq(Bytes), s # <<>>, Head(s) = ACK
  PROVE  Acks(SubSeq(s, 2, Len(s))) + 1 <= Acks(s)
<1> DEFINE t == SubSeq(s, 2, Len(s))
           A == {i \in 1..Len(t) : t[i] = ACK}
           B == {i \in 1..Len(s) : s[i] = ACK}
           g == [i \in A |-> i + 1]
<1>1. Len(s) \in Nat \ {0} /\ s[1] = ACK
  OBVIOUS
<1>2. 1 + 1 = 2 /\ 1 \in Nat
  OBVIOUS
<1>3. t \in Seq(Bytes) /\ Len(t) = Len(s) - 1 /\ \A i \in 1..Len(s) - 1 : t[i] = s[1 + i]
  <2>1. /\ SubSeq(s, 1 + 1, Len(s)) \in Seq(Bytes)
        /\ Len(SubSeq(s, 1 + 1, Len(s))) = IF 1 < Len(s) THEN Len(s) - 1 ELSE 0
        /\ \A i \in 1..Len(s) - 1 : SubSeq(s, 1 + 1, Len(s))[i] = s[1 + i]
    BY <1>2, Rest, Zenon
  <2>2. t = SubSeq(s, 1 + 1, Len(s))
    OBVIOUS
  <2> HIDE DEF t
  <2>3. /\ t \in Seq(Bytes) /\ Len(t) = IF 1 < Len(s) THEN Len(s) - 1 ELSE 0
        /\ \A i \in 1..Len(s) - 1 : t[i] = s[1 + i]
    BY <2>1, <2>2, Zenon
  <2>4. \A n \in Nat \ {0} : (IF 1 < n THEN n - 1 ELSE 0) = n - 1
    OBVIOUS
  <2> QED  BY <1>1, <2>3, <2>4, Zenon
<1> HIDE DEF t
<1>4. g \in [A -> B \ {1}] /\ \A i, j \in A : g[i] = g[j] => i = j
  BY <1>1, <1>3
<1>5. g \in Injection(A, B \ {1})
  BY <1>4 DEF Injection, IsInjective
<1>6. IsFiniteSet(B) /\ Cardinality(B) \in Nat
  BY AcksType DEF Acks
<1>7. 1 \in B
  BY <1>1
<1>8. IsFiniteSet(A) /\ Cardinality(A) \in Nat
  BY <1>3, AcksType DEF Acks
<1> HIDE DEF A, B, g
<1>9. IsFiniteSet(B \ {1}) /\ Cardinality(B \ {1}) = Cardinality(B) - 1
  BY <1>6, <1>7, FS_RemoveElement
<1>10. Cardinality(A) <= Cardinality(B \ {1})
  BY <1>5, <1>9, FS_Injection
<1>11. Cardinality(A) + 1 <= Cardinality(B)
  BY <1>6, <1>8, <1>9, <1>10
<1> QED  BY <1>11 DEF A, B, t, Acks

\* Only an ACK that is written adds to them.
LEMMA AcksWritten ==
  ASSUME NEW s \in Seq(Bytes)
  PROVE  /\ Acks(s \o <<ACK>>) <= Acks(s) + 1
         /\ \A w \in {<<>>, <<NAK>>, <<CRC>>, <<CAN, CAN>>} : Acks(s \o w) <= Acks(s)
<1> DEFINE B == {i \in 1..Len(s) : s[i] = ACK}
           In(t) == {i \in 1..Len(t) : t[i] = ACK}
<1>1. IsFiniteSet(B) /\ Cardinality(B) \in Nat
  BY AcksType DEF Acks
<1>2. ASSUME NEW w \in Seq(Bytes)
      PROVE  /\ Len(s) \in Nat /\ Len(s \o w) = Len(s) + Len(w)
             /\ \A i \in 1..Len(s) : (s \o w)[i] = s[i]
             /\ \A i \in 1..Len(w) : (s \o w)[Len(s) + i] = w[i]
  BY Joined
<1>3. ASSUME NEW w \in Seq(Bytes), \A i \in 1..Len(w) : w[i] # ACK
      PROVE  Acks(s \o w) <= Acks(s)
  <2> DEFINE t == s \o w
  <2>1. /\ Len(s) \in Nat /\ Len(w) \in Nat /\ Len(t) = Len(s) + Len(w)
        /\ \A i \in 1..Len(s) : t[i] = s[i]
        /\ \A i \in 1..Len(w) : t[Len(s) + i] = w[i]
    BY <1>2
  <2> HIDE DEF t
  <2>2. ASSUME NEW i \in In(t) PROVE i \in B
    <3>1. CASE i <= Len(s)
      BY <2>1, <3>1
    <3>2. CASE ~(i <= Len(s))
      <4>1. i - Len(s) \in 1..Len(w) /\ Len(s) + (i - Len(s)) = i
        BY <2>1, <3>2
      <4> QED  BY <1>3, <2>1, <4>1
    <3> QED  BY <3>1, <3>2
  <2>3. In(t) \in SUBSET B
    BY <2>2
  <2> HIDE DEF B
  <2>4. Cardinality(In(t)) <= Cardinality(B)
    BY <1>1, <2>3, FS_Subset
  <2> QED  BY <2>4 DEF B, t, Acks
<1>4. ASSUME NEW w \in {<<>>, <<NAK>>, <<CRC>>, <<CAN, CAN>>}
      PROVE  w \in Seq(Bytes) /\ \A i \in 1..Len(w) : w[i] # ACK
  <2>1. NAK # ACK /\ CRC # ACK /\ CAN # ACK
    BY DEF NAK, CRC, CAN, ACK
  <2>2. CASE w = <<>>
    BY <2>2
  <2>3. CASE w = <<NAK>>
    BY <2>1, <2>3, ControlBytes
  <2>4. CASE w = <<CRC>>
    BY <2>1, <2>4, ControlBytes
  <2>5. CASE w = <<CAN, CAN>>
    BY <2>1, <2>5, ControlBytes
  <2> QED  BY <2>2, <2>3, <2>4, <2>5
<1>5. Acks(s \o <<ACK>>) <= Acks(s) + 1
  <2> DEFINE t == s \o <<ACK>>
  <2>1. <<ACK>> \in Seq(Bytes) /\ Len(<<ACK>>) = 1
    BY ControlBytes
  <2>2. /\ Len(s) \in Nat /\ Len(t) = Len(s) + 1
        /\ \A i \in 1..Len(s) : t[i] = s[i]
    BY <1>2, <2>1
  <2> HIDE DEF t
  <2>3. In(t) \in SUBSET (B \cup {Len(s) + 1})
    BY <2>2
  <2> HIDE DEF B
  <2>4. /\ IsFiniteSet(B \cup {Len(s) + 1})
        /\ Cardinality(B \cup {Len(s) + 1}) \in {Cardinality(B), Cardinality(B) + 1}
    BY <1>1, FS_AddElement
  <2>5. Cardinality(In(t)) <= Cardinality(B \cup {Len(s) + 1})
    BY <2>3, <2>4, FS_Subset
  <2>6. Cardinality(In(t)) \in Nat
    BY <2>3, <2>4, FS_Subset, FS_CardinalityType
  <2>7. Cardinality(In(t)) <= Cardinality(B) + 1
    BY <1>1, <2>4, <2>5, <2>6
  <2> QED  BY <2>7 DEF B, t, Acks
<1> QED  BY <1>3, <1>4, <1>5

-----------------------------------------------------------------------------
(***************************************************************************)
(* Every ACK is backed.                                                    *)
(***************************************************************************)
Running == {"hello", "next", "ack", "eot"}

\* The packets that the sender takes for acknowledged.
Acked == IF snd.pc = "ack" THEN snd.packet - 1 ELSE snd.packet

\* AcksAreBacked in every loop of the sender, and what it comes to when send() returns.
Backed ==
  /\ snd.pc \in Running => Acked + AcksOnTheWay <= AcksSent
  /\ snd.pc = "hello" => snd.packet = 0
  /\ snd.pc = "eot" => snd.packet = N
  /\ snd.pc = "done" => N <= Len(stored)

\* recv() writes an ACK for a packet that it stores, and for EOT, and no other.
LEMMA ReceiverAcks ==
  ASSUME TypeOK, ReceiverStep
  PROVE  /\ Len(stored') >= Len(stored)
         /\ \/ /\ AcksSent' = AcksSent + 1
               /\ (\E n \in Nat : Pass("R", n, <<ACK>>)) \/ Quit("R", <<ACK>>)
            \/ /\ AcksSent' = AcksSent
               /\ \E bytes \in {<<>>, <<NAK>>, <<CRC>>, <<CAN, CAN>>} :
                    (\E n \in Nat : Pass("R", n, bytes)) \/ Quit("R", bytes)
<1> DEFINE Quiet == \E bytes \in {<<>>, <<NAK>>, <<CRC>>, <<CAN, CAN>>} :
                      (\E n \in Nat : Pass("R", n, bytes)) \/ Quit("R", bytes)
           Kept == rcv'.pc # "done" /\ stored' = stored
           Goal == /\ Len(stored') >= Len(stored)
                   /\ \/ /\ AcksSent' = AcksSent + 1
                         /\ (\E n \in Nat : Pass("R", n, <<ACK>>)) \/ Quit("R", <<ACK>>)
                      \/ AcksSent' = AcksSent /\ Quiet
<1>1. /\ rcv \in ReceiverStates /\ stored \in Seq(1..N) /\ Len(stored) \in Nat
  BY DEF TypeOK, ReceiverStates
<1>2. BodySize \in Nat /\ Read("R") \in Nat /\ 1 \in Nat
  BY BodySizes DEF Read
<1>3. rcv.pc # "done" /\ Kept /\ Quiet => Goal
  BY <1>1 DEF AcksSent
<1>4. ASSUME NEW errors, NEW cancel, Ask(errors, cancel), rcv.pc = "hello", stored' = stored
      PROVE  Kept /\ Quiet
  BY <1>1, <1>2, <1>4 DEF Ask, REnds, ReceiverStates
<1>5. ASSUME NEW r \in {"failed", "raised"}, REnds(r, <<>>) PROVE rcv'.pc # "done" /\ Quiet
  BY <1>1, <1>5 DEF REnds, ReceiverStates
<1>6. CASE AskAgain /\ UNCHANGED stored
  BY <1>3, <1>4, <1>6 DEF AskAgain
<1>7. CASE AskCancelled /\ UNCHANGED stored
  BY <1>3, <1>5, <1>7 DEF AskCancelled, RReads
<1>8. CASE PacketStarts /\ UNCHANGED stored
  <2>1. rcv.pc \in {"hello", "byte"} /\ Kept /\ Pass("R", 1, <<>>)
    BY <1>1, <1>8 DEF PacketStarts, RReads, ReceiverStates
  <2> QED  BY <1>2, <1>3, <2>1
<1>9. CASE EndOfTransmission /\ UNCHANGED stored
  <2>1. rcv.pc = "byte" /\ rcv'.pc = "done" /\ stored' = stored /\ Quit("R", <<ACK>>)
    BY <1>1, <1>9 DEF EndOfTransmission, RReads, REnds, ReceiverStates
  <2>2. AcksSent = Len(stored) /\ AcksSent' = Len(stored) + 1 /\ Len(stored') >= Len(stored)
    BY <1>1, <2>1 DEF AcksSent
  <2> QED  BY <2>1, <2>2
<1>10. CASE CancelByte /\ UNCHANGED stored
  BY <1>3, <1>5, <1>10 DEF CancelByte, RReads
<1>11. CASE ByteRaises /\ UNCHANGED stored
  BY <1>3, <1>5, <1>11 DEF ByteRaises, RReads
<1>12. CASE PacketRaises
  BY <1>3, <1>5, <1>12 DEF PacketRaises, BodyRead
<1>13. CASE PacketGood
  <2>1. /\ rcv.pc = "packet" /\ rcv'.pc = "byte" /\ Pass("R", BodySize, <<ACK>>)
        /\ \E k \in 1..N : stored' = Append(stored, k)
    BY <1>1, <1>13 DEF PacketGood, BodyRead, ReceiverStates
  <2>2. Len(stored') = Len(stored) + 1
    BY <1>1, <2>1
  <2>3. AcksSent = Len(stored) /\ AcksSent' = Len(stored')
    BY <1>1, <2>1, <2>2 DEF AcksSent
  <2> HIDE <2>2
  <2>4. AcksSent' = AcksSent + 1 /\ Len(stored') >= Len(stored)
    BY <1>1, <2>2, <2>3
  <2> QED  BY <1>2, <2>1, <2>4
<1>14. CASE PacketBad
  <2>1. rcv.pc = "packet" /\ Kept /\ Pass("R", BodySize, <<NAK>>)
    BY <1>14 DEF PacketBad, BodyRead
  <2> QED  BY <1>2, <1>3, <2>1
<1> QED  BY <1>6, <1>7, <1>8, <1>9, <1>10, <1>11, <1>12, <1>13, <1>14 DEF ReceiverStep

\* What a step of send() leaves of the bytes on their way to it.
LEMMA SenderReads ==
  ASSUME wire \in Lines, NEW n \in Nat, NEW bytes \in Seq(Bytes),
         Pass("S", n, bytes) \/ Quit("S", bytes)
  PROVE  /\ wire' \in Lines
         /\ Acks(wire'["S"]) <= Acks(wire["S"])
         /\ n = 1 /\ Coming("S", ACK) => Acks(wire'["S"]) + 1 <= Acks(wire["S"])
<1>1. "S" \in Sides /\ wire["S"] \in Seq(Bytes)
  BY DEF Sides, Lines
<1>2. /\ wire' \in Lines
      /\ \/ wire'["S"] = SubSeq(wire["S"], n + 1, Len(wire["S"]))
         \/ wire'["S"] = <<>>
  BY <1>1, PassEffect, QuitEffect
<1> DEFINE s == wire["S"]
           t == wire'["S"]
<1>3. s \in Seq(Bytes) /\ t \in Seq(Bytes)
  BY <1>1, <1>2 DEF Lines
<1>4. Thins(t, s, 0)
  BY <1>1, <1>2, ThinsRest, ThinsEmpty
<1>5. n = 1 /\ Coming("S", ACK) => Acks(t) + 1 <= Acks(s)
  <2> SUFFICES ASSUME n = 1, s # <<>>, Head(s) = ACK PROVE Acks(t) + 1 <= Acks(s)
    BY DEF Coming
  <2>1. Acks(SubSeq(s, 2, Len(s))) + 1 <= Acks(s)
    BY <1>3, AcksRead
  <2>2. CASE t = SubSeq(s, 2, Len(s))
    BY <2>1, <2>2
  <2>3. CASE t = <<>>
    <3>1. {i \in 1..Len(t) : t[i] = ACK} = {}
      BY <2>3
    <3>2. Acks(t) = 0
      BY <3>1, FS_EmptySet DEF Acks
    <3>3. SubSeq(s, 2, Len(s)) \in Seq(Bytes)
      <4>1. 1 + 1 = 2 /\ 1 \in Nat
        OBVIOUS
      <4>2. SubSeq(s, 1 + 1, Len(s)) \in Seq(Bytes)
        BY <1>3, <4>1, Rest, Zenon
      <4> QED  BY <4>1, <4>2, Zenon
    <3>4. Acks(SubSeq(s, 2, Len(s))) \in Nat /\ Acks(s) \in Nat
      BY <1>3, <3>3, AcksType
    <3> QED  BY <2>1, <3>2, <3>4
  <2> QED  BY <1>2, <2>2, <2>3
<1> QED  BY <1>2, <1>3, <1>4, <1>5, AcksThinned

Retries == NotGreeted \/ PacketRefused \/ PacketUnanswered \/ EotUnanswered

\* A retry stays in its loop, at its packet, or ends the transfer in failure.
LEMMA RetriesStay ==
  ASSUME TypeInv, Retries
  PROVE  /\ snd'.packet = snd.packet /\ snd'.pc \in {snd.pc, "failed", "raised"}
         /\ snd.pc \in {"hello", "ack", "eot"}
<1>1. snd \in SenderStates
  BY DEF TypeInv, TypeOK, SenderStates
<1>2. ASSUME NEW bytes, NEW r, NEW farewell, SendAgain(bytes, r, farewell)
      PROVE  snd'.packet = snd.packet /\ snd'.pc \in {snd.pc, r}
  BY <1>1, <1>2 DEF SendAgain, SEnds, SenderStates
<1>3. ASSUME NEW r, NEW bytes, SEnds(r, bytes)
      PROVE  snd'.packet = snd.packet /\ snd'.pc = r
  BY <1>1, <1>3 DEF SEnds, SenderStates
<1>4. CASE NotGreeted
  <2>1. snd' = [snd EXCEPT !.errors = @ + 1, !.cancel = TRUE] =>
          snd'.packet = snd.packet /\ snd'.pc = snd.pc
    BY <1>1 DEF SenderStates
  <2> QED  BY <1>2, <1>3, <1>4, <2>1 DEF NotGreeted
<1>5. CASE PacketRefused
  BY <1>2, <1>5 DEF PacketRefused, SReads
<1>6. CASE PacketUnanswered
  BY <1>2, <1>6 DEF PacketUnanswered
<1>7. CASE EotUnanswered
  BY <1>2, <1>7 DEF EotUnanswered
<1> QED  BY <1>4, <1>5, <1>6, <1>7 DEF Retries

\* No step of send() takes an ACK for the wrong packet.
LEMMA SenderBacked ==
  ASSUME TypeInv, Backed, SenderStep PROVE Backed'
<1> DEFINE a == Acks(wire["S"])
           b == Acks(wire'["S"])
<1>1. /\ snd \in SenderStates /\ wire \in Lines /\ N \in Nat
      /\ stored \in Seq(1..N) /\ Len(stored) \in Nat
  BY Counters DEF TypeInv, TypeOK, SenderStates, Lines
<1>2. /\ rcv' = rcv /\ stored' = stored /\ AcksSent' = AcksSent
      /\ AcksSent \in Nat /\ AcksSent <= Len(stored) + 1
  BY <1>1 DEF SenderStep, AcksSent
<1>3. \E bytes \in Seq(Bytes) : (\E n \in Nat : Pass("S", n, bytes)) \/ Quit("S", bytes)
  BY SenderSteps, WritesType
<1>4. wire' \in Lines /\ b <= a
  BY <1>1, <1>3, SenderReads
<1>5. a \in Nat /\ b \in Nat /\ AcksOnTheWay = a /\ AcksOnTheWay' = b
  <2>1. wire["S"] \in Seq(Bytes) /\ wire'["S"] \in Seq(Bytes)
    BY <1>1, <1>4 DEF Lines, Sides
  <2> QED  BY <2>1, AcksType DEF AcksOnTheWay, Acks
<1>6. snd.packet \in Nat
  BY <1>1 DEF SenderStates
<1> HIDE DEF a, b
<1>7. ASSUME Coming("S", ACK), NEW bytes \in Seq(Bytes),
             Pass("S", 1, bytes) \/ Quit("S", bytes)
      PROVE  b + 1 <= a
  BY <1>1, <1>7, SenderReads DEF a, b
<1>8. <<>> \in Seq(Bytes)
  OBVIOUS
<1>9. CASE Greeted
  <2>1. snd.pc = "hello" /\ snd'.pc = "next" /\ snd'.packet = snd.packet
    BY <1>1, <1>9 DEF Greeted, SReads, SenderStates
  <2> QED  BY <1>2, <1>4, <1>5, <1>6, <2>1 DEF Backed, Acked, Running
<1>10. CASE Retries
  <2>1. /\ snd'.packet = snd.packet /\ snd'.pc \in {snd.pc, "failed", "raised"}
        /\ snd.pc \in {"hello", "ack", "eot"}
    BY <1>10, RetriesStay
  <2> QED  BY <1>2, <1>4, <1>5, <1>6, <2>1 DEF Backed, Acked, Running
<1>11. CASE NextPacket
  <2>1. /\ snd.pc = "next"
        /\ \/ snd'.pc = "ack" /\ snd'.packet = snd.packet + 1
           \/ snd'.pc = "raised"
    BY <1>1, <1>11 DEF NextPacket, SEnds, SenderStates
  <2> QED  BY <1>2, <1>4, <1>5, <1>6, <2>1 DEF Backed, Acked, Running
<1>12. CASE Acknowledged
  <2>1. snd.pc = "ack" /\ snd'.pc = "next" /\ snd'.packet = snd.packet /\ b + 1 <= a
    BY <1>1, <1>7, <1>8, <1>12 DEF Acknowledged, SReads, SenderStates
  <2> QED  BY <1>2, <1>5, <1>6, <2>1 DEF Backed, Acked, Running
<1>13. CASE EndOfStream
  <2>1. snd.pc = "next" /\ snd'.pc = "eot" /\ snd'.packet = snd.packet /\ snd.packet = N
    BY <1>1, <1>13 DEF EndOfStream, SenderStates
  <2> QED  BY <1>2, <1>4, <1>5, <1>6, <2>1 DEF Backed, Acked, Running
<1>14. CASE EotAcknowledged
  <2>1. snd.pc = "eot" /\ snd'.pc = "done" /\ b + 1 <= a
    BY <1>1, <1>7, <1>8, <1>14 DEF EotAcknowledged, SReads, SEnds, SenderStates
  <2>2. N + a <= AcksSent
    BY <1>5, <2>1 DEF Backed, Acked, Running
  <2> QED  BY <1>1, <1>2, <1>5, <2>1, <2>2 DEF Backed, Running
<1> QED  BY <1>9, <1>10, <1>11, <1>12, <1>13, <1>14 DEF SenderStep, Retries

\* recv() writes an ACK only together with the packet it answers.
LEMMA ReceiverBacked ==
  ASSUME TypeInv, Backed, ReceiverStep PROVE Backed'
<1> DEFINE s == wire["S"]
           t == wire'["S"]
<1>1. /\ wire \in Lines /\ s \in Seq(Bytes) /\ "R" \in Sides /\ Peer("R") = "S"
      /\ stored \in Seq(1..N) /\ Len(stored) \in Nat /\ TypeOK
  BY DEF TypeInv, TypeOK, Lines, Sides, Peer
<1>2. snd' = snd /\ Len(stored') >= Len(stored) /\ Len(stored') \in Nat
  <2>1. stored' \in Seq(1..N)
    BY NextTypes DEF Next, TypeInv, TypeOK
  <2> QED  BY <1>1, <2>1, ReceiverAcks DEF ReceiverStep
<1>3. AcksSent \in Nat /\ snd.packet \in Nat /\ N \in Nat
  BY <1>1, Counters DEF AcksSent, TypeInv, TypeOK
<1>4. ASSUME NEW bytes \in Seq(Bytes),
             (\E n \in Nat : Pass("R", n, bytes)) \/ Quit("R", bytes)
      PROVE  t \in Seq(Bytes) /\ t \in {<<>>, s \o bytes}
  BY <1>1, <1>4, PassEffect, QuitEffect DEF Lines, Sides
<1>5. AcksOnTheWay = Acks(s) /\ AcksOnTheWay' = Acks(t)
  BY DEF AcksOnTheWay, Acks
<1>6. Acks(s) \in Nat /\ Acks(<<>>) = 0
  <2>1. {i \in 1..Len(<<>>) : <<>>[i] = ACK} = {}
    OBVIOUS
  <2> QED  BY <1>1, <2>1, AcksType, FS_EmptySet DEF Acks
<1>7. <<ACK>> \in Seq(Bytes)
      /\ \A bytes \in {<<>>, <<NAK>>, <<CRC>>, <<CAN, CAN>>} : bytes \in Seq(Bytes)
  BY WritesType DEF ReceiverWrites
<1>8. Acks(t) \in Nat /\ AcksSent' \in Nat /\ Acks(t) - Acks(s) <= AcksSent' - AcksSent
  <2>1. CASE AcksSent' = AcksSent + 1
               /\ ((\E n \in Nat : Pass("R", n, <<ACK>>)) \/ Quit("R", <<ACK>>))
    <3>1. t \in Seq(Bytes) /\ t \in {<<>>, s \o <<ACK>>}
      BY <1>4, <1>7, <2>1
    <3>2. Acks(s \o <<ACK>>) <= Acks(s) + 1 /\ Acks(t) \in Nat
      BY <1>1, <3>1, AcksWritten, AcksType, Zenon
    <3>3. CASE t = <<>>
      BY <1>3, <1>6, <2>1, <3>3
    <3>4. CASE t = s \o <<ACK>>
      <4>1. Acks(t) <= Acks(s) + 1
        BY <3>2, <3>4, Zenon
      <4> HIDE DEF s, t
      <4> QED  BY <1>3, <1>6, <2>1, <3>2, <4>1
    <3> QED  BY <3>1, <3>3, <3>4
  <2>2. ASSUME AcksSent' = AcksSent, NEW bytes \in {<<>>, <<NAK>>, <<CRC>>, <<CAN, CAN>>},
               (\E n \in Nat : Pass("R", n, bytes)) \/ Quit("R", bytes)
        PROVE  Acks(t) \in Nat /\ AcksSent' \in Nat /\ Acks(t) - Acks(s) <= AcksSent' - AcksSent
    <3>1. t \in Seq(Bytes) /\ t \in {<<>>, s \o bytes}
      BY <1>4, <1>7, <2>2
    <3>2. Acks(s \o bytes) <= Acks(s) /\ Acks(t) \in Nat
      BY <1>1, <3>1, AcksWritten, AcksType, Zenon
    <3>3. CASE t = <<>>
      BY <1>3, <1>6, <2>2, <3>3
    <3>4. CASE t = s \o bytes
      <4>1. Acks(t) <= Acks(s)
        BY <3>2, <3>4, Zenon
      <4> HIDE DEF s, t
      <4> QED  BY <1>3, <1>6, <2>2, <3>2, <4>1
    <3> QED  BY <3>1, <3>3, <3>4
  <2> QED  BY <1>1, <2>1, <2>2, ReceiverAcks
<1> HIDE DEF s, t
<1> QED  BY <1>1, <1>2, <1>3, <1>5, <1>6, <1>8 DEF Backed, Acked, Running

\* The line loses ACKs and makes none.
LEMMA FaultBacked ==
  ASSUME TypeInv, Backed, Fault PROVE Backed'
<1>1. wire \in Lines /\ "S" \in Sides /\ wire["S"] \in Seq(Bytes)
  BY DEF TypeInv, TypeOK, Lines, Sides
<1>2. /\ wire'["S"] \in Seq(Bytes)
      /\ wire'["S"] = wire["S"] \/ \E d \in Nat : Thins(wire'["S"], wire["S"], d)
  <2>1. PICK p \in Sides : \E i \in 1..Len(wire[p]) : \E b \in {Noise, CAN} :
           /\ wire' \in Lines /\ \A q \in Sides \ {p} : wire'[q] = wire[q]
           /\ \/ wire'[p] = [wire[p] EXCEPT ![i] = b]
              \/ wire'[p] = SubSeq(wire[p], 1, i - 1) \o SubSeq(wire[p], i + 1, Len(wire[p]))
    BY <1>1, FaultEffect
  <2>2. wire' \in Lines /\ wire'["S"] \in Seq(Bytes)
    BY <1>1, <2>1 DEF Lines
  <2>3. CASE p = "S"
    <3>1. PICK i \in 1..Len(wire["S"]), b \in {Noise, CAN} :
            \/ wire'["S"] = [wire["S"] EXCEPT ![i] = b]
            \/ wire'["S"] = SubSeq(wire["S"], 1, i - 1) \o SubSeq(wire["S"], i + 1, Len(wire["S"]))
      BY <2>1, <2>3
    <3>2. Thins([wire["S"] EXCEPT ![i] = b], wire["S"], 0)
      BY <1>1, ThinsDamaged, Zenon
    <3>3. Thins(SubSeq(wire["S"], 1, i - 1) \o SubSeq(wire["S"], i + 1, Len(wire["S"])), wire["S"], 1)
      BY <1>1, ThinsShorter, Zenon
    <3>4. 0 \in Nat /\ 1 \in Nat
      OBVIOUS
    <3> QED  BY <2>2, <3>1, <3>2, <3>3, <3>4, Zenon
  <2>4. CASE p # "S"
    BY <1>1, <2>1, <2>2, <2>4
  <2> QED  BY <2>2, <2>3, <2>4
<1>3. Acks(wire["S"]) \in Nat /\ Acks(wire'["S"]) \in Nat
  BY <1>1, <1>2, AcksType, Zenon
<1>6. Acks(wire'["S"]) <= Acks(wire["S"])
  <2>1. CASE wire'["S"] = wire["S"]
    BY <1>3, <2>1
  <2>2. CASE \E d \in Nat : Thins(wire'["S"], wire["S"], d)
    BY <1>1, <1>2, <2>2, AcksThinned, Zenon
  <2> QED  BY <1>2, <2>1, <2>2
<1>4. AcksOnTheWay = Acks(wire["S"]) /\ AcksOnTheWay' = Acks(wire'["S"])
  BY DEF AcksOnTheWay, Acks
<1>5. snd' = snd /\ rcv' = rcv /\ stored' = stored /\ snd.packet \in Nat
      /\ AcksSent' = AcksSent /\ AcksSent \in Nat
  BY DEF Fault, TypeInv, TypeOK, AcksSent
<1> QED  BY <1>3, <1>4, <1>5, <1>6 DEF Backed, Acked, Running

\* At the beginning no ACK is on its way.
LEMMA InitBacked == Init => Backed
<1> SUFFICES ASSUME Init PROVE Backed
  OBVIOUS
<1>1. {i \in 1..Len(wire["S"]) : wire["S"][i] = ACK} = {}
  BY DEF Init, Sides, ACK, CRC
<1>2. AcksOnTheWay = 0
  BY <1>1, FS_EmptySet DEF AcksOnTheWay
<1> QED  BY <1>2 DEF Init, Backed, Acked, AcksSent, Running

\* Every step preserves the account of the ACKs.
LEMMA NextBacked == TypeInv /\ Backed /\ [Next]_vars => Backed'
<1>1. CASE UNCHANGED vars
  BY <1>1 DEF vars, Backed, Acked, AcksOnTheWay, AcksSent
<1> QED  BY <1>1, SenderBacked, ReceiverBacked, FaultBacked DEF Next, Terminated

\* An answer to a packet is never taken for the answer to the next one, however late it
\* is and whatever the line does: an ACK is sent for a packet that is stored, or for EOT,
\* and send() takes each of them for one packet.
THEOREM EveryAckBacked == Spec => []AcksAreBacked
<1>1. TypeInv /\ Backed => AcksAreBacked
  <2> SUFFICES ASSUME TypeInv, Backed, snd.pc = "ack"
               PROVE  AcksSent >= snd.packet - 1 + AcksOnTheWay
    BY DEF AcksAreBacked
  <2>1. snd.packet - 1 + AcksOnTheWay <= AcksSent
    BY DEF Backed, Acked, Running
  <2>2. wire["S"] \in Seq(Bytes) /\ stored \in Seq(1..N) /\ snd.packet \in Nat
    BY DEF TypeInv, TypeOK, Sides
  <2>3. AcksSent \in Nat
    BY <2>2 DEF AcksSent
  <2>4. AcksOnTheWay \in Nat
    BY <2>2, AcksType DEF AcksOnTheWay, Acks
  <2> QED  BY <2>1, <2>2, <2>3, <2>4
<1> QED  BY <1>1, InitTypes, NextTypes, InitBacked, NextBacked, PTL DEF Spec
=============================================================================
