------------------------- MODULE XModemOrderProofs -------------------------
(***************************************************************************)
(* The stream is stored in order.  A header is two bytes that the CRC does *)
(* not cover, so the proof is about what two bytes in front of a packet's  *)
(* contents can be: bytes of the packet stored last, bytes of the next     *)
(* one, and bytes that mean nothing or something else.                     *)
(***************************************************************************)
EXTENDS XModemProofs

\* The numbers of the code, and a line that harms fewer bytes than lie between the
\* header of a packet and that of its repetition.  Were they all dropped, the complement
\* of packet 127 (or 255) and the number of its repetition would be the header of packet
\* 128 (or 256).
CodeLimits == SeqMod = 256 /\ MaxFaults < PacketSize + 3

Marks == {SOH, STX, CAN, Noise}

\* b can be a byte of packet k, damaged or not, or the EOT after the last one, when the
\* receiver has j packets.
Fits(b, k, j) ==
  \/ b \in Marks \cup Numbers(k) \cup {Cell(k), Crc(k)}
  \/ b = EOT /\ j = N

\* The two bytes of a packet's header, and whether they are, turned, the next packet's.
Number(k) == k % 256
Complement(k) == 255 - (k % 256)
Turned(k) == k % 256 \in {127, 255}

\* At the positions I of w, the number of packet k comes after its complement only where
\* the packet is repeated, nearly the length of a packet later; n bytes may be missing.
Apart(k, w, I, n) ==
  Turned(k) =>
    \A i \in I : w[i] = Complement(k) =>
      /\ Len(w) - i >= PacketSize + 2 - n
      /\ \A h \in I : i < h /\ w[h] = Number(k) => h - i >= PacketSize + 4 - n

\* The bytes of w at L are of packet j, and those behind are of packet j + 1.
Split(w, L, j, n) ==
  /\ L \in SUBSET (1..Len(w))
  /\ \A i \in L : \A h \in 1..i : h \in L
  /\ \A i \in L : Fits(w[i], j, j)
  /\ \A i \in (1..Len(w)) \ L : Fits(w[i], j + 1, j)
  /\ Apart(j, w, L, n)
  /\ Apart(j + 1, w, (1..Len(w)) \ L, n)

\* The bytes on their way to a receiver with j packets are of packet j and of the next one,
\* in this order; the sender, at packet k, has sent none of the next one if it is not there.
Carries(w, k, j, n) ==
  k \in {j, j + 1} /\ \E L : Split(w, L, j, n) /\ (k = j => L = 1..Len(w))

\* What reaches a receiver that is still in its loop is carried in this order.
InOrder ==
  /\ Len(stored) <= N /\ stored = [k \in 1..Len(stored) |-> k]
  /\ ~Stopped("R") => Carries(wire["R"], snd.packet, Len(stored), faults)

\* Bytes written to a receiver with j packets, that are of packet k.
Segment(bytes, k, j) ==
  /\ bytes \in Seq(Bytes)
  /\ \A i \in 1..Len(bytes) : Fits(bytes[i], k, j)
  /\ Turned(k) =>
       \A i \in 1..Len(bytes) :
         /\ bytes[i] = Complement(k) => Len(bytes) - i >= PacketSize + 2
         /\ bytes[i] = Number(k) => i >= 2 /\ \A h \in 1..i : bytes[h] # Complement(k)

\* Remainders, and the values of the bytes.
LEMMA Remainders ==
  ASSUME NEW j \in Nat
  PROVE  /\ j % 256 \in 0..255
         /\ (j + 1) % 256 = IF j % 256 = 255 THEN 0 ELSE (j % 256) + 1
OBVIOUS

\* Control bytes and cells are different numbers, and a cell tells its packet.
LEMMA ByteValues ==
  /\ SOH = 1 /\ STX = 2 /\ EOT = 4 /\ CAN = 24 /\ Noise = 999
  /\ \A k \in Nat : /\ Cell(k) \in Nat /\ Crc(k) \in Nat /\ Cell(k) >= 1000 /\ Crc(k) > 1000
                    /\ \A h \in Nat : Cell(k) # Crc(h) /\ (Cell(k) = Cell(h) => k = h)
BY DEF SOH, STX, EOT, CAN, Noise, Cell, Crc

\* A line that is left alone is a thinning of itself.
LEMMA ThinsSame == ASSUME NEW s \in Seq(Bytes) PROVE Thins(s, s, 0)
<1>1. SubSeq(s, 0 + 1, Len(s)) = s
  OBVIOUS
<1>2. Thins(SubSeq(s, 0 + 1, Len(s)), s, 0)
  <2>1. 0 \in Nat
    OBVIOUS
  <2> QED  BY <2>1, ThinsRest, Zenon
<1> QED  BY <1>1, <1>2, Zenon

\* What remains of a line carries the same, in the same order.
LEMMA CarriesThinned ==
  ASSUME NEW s \in Seq(Bytes), NEW t \in Seq(Bytes), NEW d \in Nat, NEW n \in Nat,
         NEW n2 \in Nat, n + d <= n2, NEW j \in Nat, NEW q, Carries(s, q, j, n), Thins(t, s, d)
  PROVE  Carries(t, q, j, n2)
<1>0. PICK L : Split(s, L, j, n) /\ (q = j => L = 1..Len(s))
  BY DEF Carries
<1>1. PICK f \in [1..Len(t) -> 1..Len(s)] :
        /\ \A i \in 1..Len(t) : t[i] = s[f[i]] \/ t[i] \in {Noise, CAN}
        /\ \A i, h \in 1..Len(t) : i < h => f[i] < f[h] /\ f[h] - f[i] <= h - i + d
        /\ \A i \in 1..Len(t) : Len(s) - f[i] <= Len(t) - i + d
  BY DEF Thins
<1>2. Len(s) \in Nat /\ Len(t) \in Nat /\ PacketSize \in Nat
  BY XPacketAssumption
<1>3. /\ L \in SUBSET (1..Len(s))
      /\ \A i \in L : \A h \in 1..i : h \in L
      /\ \A i \in L : Fits(s[i], j, j)
      /\ \A i \in (1..Len(s)) \ L : Fits(s[i], j + 1, j)
      /\ Apart(j, s, L, n)
      /\ Apart(j + 1, s, (1..Len(s)) \ L, n)
  BY <1>0 DEF Split
<1> DEFINE K == {i \in 1..Len(t) : f[i] \in L}
<1>13. ASSUME NEW k \in Nat, Turned(k)
       PROVE  Complement(k) \notin {Noise, CAN} /\ Number(k) \notin {Noise, CAN}
  BY <1>13 DEF Noise, CAN, Turned, Number, Complement
<1>4. K \in SUBSET (1..Len(t)) /\ \A i \in (1..Len(t)) \ K : f[i] \in (1..Len(s)) \ L
  OBVIOUS
<1>5. ASSUME NEW i \in K, NEW h \in 1..i PROVE h \in K
  <2>1. i \in 1..Len(t) /\ h \in 1..Len(t) /\ f[i] \in L
    BY <1>2
  <2>2. h = i \/ f[h] < f[i]
    BY <1>1, <1>2, <2>1
  <2>3. f[h] \in 1..Len(s) /\ f[i] \in 1..Len(s)
    BY <2>1
  <2>4. f[h] \in 1..f[i]
    BY <1>2, <2>1, <2>2, <2>3
  <2> QED  BY <1>3, <2>1, <2>4
<1>6. ASSUME NEW i \in 1..Len(t), NEW k \in Nat, Fits(s[f[i]], k, j) PROVE Fits(t[i], k, j)
  BY <1>1, <1>6 DEF Fits, Marks
<1>7. ASSUME NEW I \in SUBSET (1..Len(s)), NEW J \in SUBSET (1..Len(t)),
             \A i \in J : f[i] \in I, NEW k \in Nat, Apart(k, s, I, n)
      PROVE  Apart(k, t, J, n2)
  <2> SUFFICES ASSUME Turned(k), NEW i \in J, t[i] = Complement(k)
               PROVE  /\ Len(t) - i >= PacketSize + 2 - n2
                      /\ \A h \in J : i < h /\ t[h] = Number(k) => h - i >= PacketSize + 4 - n2
    BY DEF Apart
  <2>0. i \in 1..Len(t) /\ f[i] \in I /\ f[i] \in 1..Len(s)
    BY <1>7
  <2>6. t[i] = s[f[i]] \/ t[i] \in {Noise, CAN}
    BY <1>1, <2>0
  <2>1. i \in 1..Len(t) /\ f[i] \in I /\ f[i] \in 1..Len(s) /\ s[f[i]] = Complement(k)
    BY <1>7, <1>13, <2>0, <2>6
  <2>2. /\ Len(s) - f[i] >= PacketSize + 2 - n
        /\ \A h \in I : f[i] < h /\ s[h] = Number(k) => h - f[i] >= PacketSize + 4 - n
    BY <1>7, <2>1 DEF Apart
  <2>3. Len(s) - f[i] <= Len(t) - i + d
    BY <1>1, <2>1
  <2>4. Len(t) - i >= PacketSize + 2 - n2
    BY <1>2, <2>1, <2>2, <2>3
  <2>5. ASSUME NEW h \in J, i < h, t[h] = Number(k) PROVE h - i >= PacketSize + 4 - n2
    <3>0. h \in 1..Len(t) /\ f[h] \in I /\ f[h] \in 1..Len(s)
      BY <1>7
    <3>4. t[h] = s[f[h]] \/ t[h] \in {Noise, CAN}
      BY <1>1, <3>0
    <3>1. h \in 1..Len(t) /\ f[h] \in I /\ f[h] \in 1..Len(s) /\ s[f[h]] = Number(k)
      BY <1>7, <1>13, <2>5, <3>0, <3>4
    <3>2. f[i] < f[h] /\ f[h] - f[i] <= h - i + d
      BY <1>1, <2>1, <2>5, <3>1
    <3>3. f[h] - f[i] >= PacketSize + 4 - n
      BY <2>2, <3>1, <3>2
    <3> QED  BY <1>2, <2>1, <3>1, <3>2, <3>3
  <2> QED  BY <2>4, <2>5
<1>8. j + 1 \in Nat
  OBVIOUS
<1>9. (\A i \in K : Fits(t[i], j, j)) /\ Apart(j, t, K, n2)
  BY <1>3, <1>4, <1>6, <1>7
<1>10. /\ \A i \in (1..Len(t)) \ K : Fits(t[i], j + 1, j)
       /\ Apart(j + 1, t, (1..Len(t)) \ K, n2)
  BY <1>3, <1>4, <1>6, <1>7, <1>8
<1>11. L = 1..Len(s) => K = 1..Len(t)
  OBVIOUS
<1> HIDE DEF K
<1>12. Split(t, K, j, n2)
  BY <1>4, <1>5, <1>9, <1>10 DEF Split
<1> QED  BY <1>0, <1>11, <1>12 DEF Carries

\* A segment that is written behind positions of its packet keeps them apart.
LEMMA ApartJoined ==
  ASSUME NEW w \in Seq(Bytes), NEW bytes, NEW j \in Nat, NEW n \in Nat, NEW k \in Nat,
         Segment(bytes, k, j), NEW I \in SUBSET (1..Len(w)), Apart(k, w, I, n),
         NEW J \in SUBSET (1..Len(w \o bytes)), \A i \in J : i <= Len(w) => i \in I
  PROVE  Apart(k, w \o bytes, J, n)
<1> DEFINE t == w \o bytes
<1>1. bytes \in Seq(Bytes) /\ PacketSize \in Nat
  BY XPacketAssumption DEF Segment
<1>2. /\ t \in Seq(Bytes) /\ Len(t) = Len(w) + Len(bytes) /\ Len(w) \in Nat /\ Len(bytes) \in Nat
      /\ \A i \in 1..Len(w) : t[i] = w[i]
      /\ \A i \in 1..Len(bytes) : t[Len(w) + i] = bytes[i]
  BY <1>1, Joined
<1>3. J \in SUBSET (1..Len(t))
  OBVIOUS
<1> HIDE DEF t
<1>4. SUFFICES ASSUME Turned(k), NEW i \in J, t[i] = Complement(k)
               PROVE  /\ Len(t) - i >= PacketSize + 2 - n
                      /\ \A h \in J : i < h /\ t[h] = Number(k) => h - i >= PacketSize + 4 - n
  BY DEF Apart, t
<1>5. \A g \in 1..Len(bytes) :
         /\ bytes[g] = Complement(k) => Len(bytes) - g >= PacketSize + 2
         /\ bytes[g] = Number(k) => g >= 2 /\ \A h \in 1..g : bytes[h] # Complement(k)
  BY <1>4 DEF Segment
<1>6. i \in 1..Len(t)
  BY <1>3
<1>7. CASE i <= Len(w)
  <2>1. i \in I /\ i \in 1..Len(w) /\ w[i] = Complement(k)
    BY <1>2, <1>4, <1>6, <1>7
  <2>2. /\ Len(w) - i >= PacketSize + 2 - n
        /\ \A h \in I : i < h /\ w[h] = Number(k) => h - i >= PacketSize + 4 - n
    BY <1>4, <2>1 DEF Apart
  <2>3. Len(t) - i >= PacketSize + 2 - n
    BY <1>1, <1>2, <2>1, <2>2
  <2>4. ASSUME NEW h \in J, i < h, t[h] = Number(k) PROVE h - i >= PacketSize + 4 - n
    <3>1. h \in 1..Len(t)
      BY <1>3
    <3>2. CASE h <= Len(w)
      <4>1. h \in I /\ w[h] = Number(k)
        BY <1>2, <2>4, <3>1, <3>2
      <4> QED  BY <2>2, <2>4, <4>1
    <3>3. CASE h > Len(w)
      <4>1. h - Len(w) \in 1..Len(bytes) /\ h = Len(w) + (h - Len(w))
        BY <1>2, <3>1, <3>3
      <4>2. bytes[h - Len(w)] = Number(k)
        BY <1>2, <2>4, <4>1
      <4>3. h - Len(w) >= 2
        BY <1>5, <4>1, <4>2
      <4> QED  BY <1>1, <1>2, <2>1, <2>2, <3>1, <4>3
    <3> QED  BY <1>2, <3>1, <3>2, <3>3
  <2> QED  BY <2>3, <2>4
<1>8. CASE i > Len(w)
  <2>1. i - Len(w) \in 1..Len(bytes) /\ i = Len(w) + (i - Len(w))
    BY <1>2, <1>6, <1>8
  <2>2. bytes[i - Len(w)] = Complement(k)
    BY <1>2, <1>4, <2>1
  <2>3. Len(bytes) - (i - Len(w)) >= PacketSize + 2
    BY <1>5, <2>1, <2>2
  <2>4. Len(t) - i >= PacketSize + 2 - n
    BY <1>1, <1>2, <1>6, <2>3
  <2>5. ASSUME NEW h \in J, i < h, t[h] = Number(k) PROVE FALSE
    <3>1. h \in 1..Len(t)
      BY <1>3
    <3>2. h - Len(w) \in 1..Len(bytes) /\ h = Len(w) + (h - Len(w))
          /\ i - Len(w) \in 1..(h - Len(w))
      BY <1>2, <1>6, <1>8, <2>5, <3>1
    <3>3. bytes[h - Len(w)] = Number(k)
      BY <1>2, <2>5, <3>2
    <3>4. \A g \in 1..(h - Len(w)) : bytes[g] # Complement(k)
      BY <1>5, <3>2, <3>3
    <3> QED  BY <2>2, <3>2, <3>4
  <2> QED  BY <2>4, <2>5
<1> QED  BY <1>2, <1>6, <1>7, <1>8

\* So does a line to which the sender, at the same packet or the next one by then, writes
\* bytes of that packet.
LEMMA CarriesJoined ==
  ASSUME NEW w \in Seq(Bytes), NEW bytes, NEW j \in Nat, NEW n \in Nat, NEW q \in Nat,
         Carries(w, q, j, n), NEW k \in {j, j + 1}, k >= q, Segment(bytes, k, j)
  PROVE  Carries(w \o bytes, k, j, n)
<1> DEFINE t == w \o bytes
<1>0. PICK L : Split(w, L, j, n) /\ (q = j => L = 1..Len(w))
  BY DEF Carries
<1>8. k = j => q = j
  BY DEF Carries
<1>1. bytes \in Seq(Bytes) /\ PacketSize \in Nat /\ j + 1 \in Nat /\ k \in Nat
  BY XPacketAssumption DEF Segment
<1>2. /\ t \in Seq(Bytes) /\ Len(t) = Len(w) + Len(bytes) /\ Len(w) \in Nat /\ Len(bytes) \in Nat
      /\ \A i \in 1..Len(w) : t[i] = w[i]
      /\ \A i \in 1..Len(bytes) : t[Len(w) + i] = bytes[i]
  BY <1>1, Joined
<1>3. ASSUME NEW I \in SUBSET (1..Len(w)), Apart(k, w, I, n),
             NEW J \in SUBSET (1..Len(t)), \A i \in J : i <= Len(w) => i \in I
      PROVE  Apart(k, t, J, n)
  BY <1>1, <1>3, ApartJoined, Zenon
<1> HIDE DEF t
<1>4. /\ L \in SUBSET (1..Len(w))
      /\ \A i \in L : \A h \in 1..i : h \in L
      /\ \A i \in L : Fits(w[i], j, j)
      /\ \A i \in (1..Len(w)) \ L : Fits(w[i], j + 1, j)
      /\ Apart(j, w, L, n)
      /\ Apart(j + 1, w, (1..Len(w)) \ L, n)
  BY <1>0 DEF Split
<1>5. ASSUME NEW i \in 1..Len(t), i > Len(w) PROVE Fits(t[i], k, j)
  <2>1. i - Len(w) \in 1..Len(bytes) /\ i = Len(w) + (i - Len(w))
    BY <1>2, <1>5
  <2>2. t[i] = bytes[i - Len(w)]
    BY <1>2, <2>1
  <2> QED  BY <2>1, <2>2 DEF Segment
<1>6. CASE k = j
  <2> DEFINE K == 1..Len(t)
  <2>1. L = 1..Len(w)
    BY <1>0, <1>6, <1>8
  <2>2. /\ K \in SUBSET (1..Len(t)) /\ (1..Len(t)) \ K = {}
        /\ \A i \in K : \A h \in 1..i : h \in K
    BY <1>2
  <2>3. \A i \in K : Fits(t[i], j, j)
    BY <1>2, <1>4, <1>5, <1>6, <2>1
  <2>4. Apart(j, t, K, n)
    <3>1. \A i \in K : i <= Len(w) => i \in L
      BY <1>2, <2>1
    <3> QED  BY <1>3, <1>4, <1>6, <2>2, <3>1
  <2>5. Apart(j + 1, t, (1..Len(t)) \ K, n)
    BY <2>2 DEF Apart
  <2> HIDE DEF K
  <2>6. Split(t, K, j, n)
    BY <2>2, <2>3, <2>4, <2>5 DEF Split
  <2> QED  BY <2>6 DEF K, t, Carries
<1>7. CASE k = j + 1
  <2>1. L \in SUBSET (1..Len(t)) /\ \A i \in L : t[i] = w[i]
    BY <1>2, <1>4
  <2>2. \A i \in L : Fits(t[i], j, j)
    BY <1>4, <2>1
  <2>3. ASSUME NEW i \in (1..Len(t)) \ L PROVE Fits(t[i], j + 1, j)
    <3>1. i \in 1..Len(t)
      OBVIOUS
    <3>2. CASE i <= Len(w)
      <4>1. i \in (1..Len(w)) \ L /\ t[i] = w[i]
        BY <1>2, <3>1, <3>2
      <4> QED  BY <1>4, <4>1
    <3>3. CASE i > Len(w)
      BY <1>5, <1>7, <3>1, <3>3
    <3> QED  BY <1>2, <3>1, <3>2, <3>3
  <2>4. Apart(j, t, L, n)
    <3> SUFFICES ASSUME Turned(j), NEW i \in L, t[i] = Complement(j)
                 PROVE  /\ Len(t) - i >= PacketSize + 2 - n
                        /\ \A h \in L : i < h /\ t[h] = Number(j) => h - i >= PacketSize + 4 - n
      BY DEF Apart
    <3>5. w[i] = Complement(j)
      BY <2>1
    <3>1. /\ Len(w) - i >= PacketSize + 2 - n
          /\ \A h \in L : i < h /\ w[h] = Number(j) => h - i >= PacketSize + 4 - n
      BY <1>4, <3>5 DEF Apart
    <3>2. i \in 1..Len(w)
      BY <1>4
    <3>3. Len(t) - i >= PacketSize + 2 - n
      BY <1>1, <1>2, <3>1, <3>2
    <3>4. \A h \in L : i < h /\ t[h] = Number(j) => h - i >= PacketSize + 4 - n
      BY <2>1, <3>1
    <3> QED  BY <3>3, <3>4
  <2>5. Apart(j + 1, t, (1..Len(t)) \ L, n)
    <3>1. \A i \in (1..Len(t)) \ L : i <= Len(w) => i \in (1..Len(w)) \ L
      BY <1>2
    <3> QED  BY <1>3, <1>4, <1>7, <3>1
  <2>6. Split(t, L, j, n)
    BY <1>4, <2>1, <2>2, <2>3, <2>4, <2>5 DEF Split
  <2> QED  BY <1>1, <1>7, <2>6 DEF t, Carries
<1> QED  BY <1>6, <1>7

\* What the two functions write of packet k is a segment of it.
LEMMA PacketSegment ==
  ASSUME CodeLimits, NEW k \in 1..N, NEW j \in Nat PROVE Segment(Packet(k), k, j)
<1>1. /\ Packet(k) \in Seq(Bytes) /\ Len(Packet(k)) = PacketSize + 5
      /\ Packet(k)[1] = First /\ Packet(k)[2] = k % SeqMod
      /\ Packet(k)[3] = SeqMod - 1 - (k % SeqMod)
      /\ \A i \in 4..PacketSize + 3 : Packet(k)[i] = Cell(k)
      /\ Packet(k)[PacketSize + 4] = Crc(k) /\ Packet(k)[PacketSize + 5] = Crc(k)
  BY PacketBytes, Zenon
<1> DEFINE p == Packet(k)
<1>2. p \in Seq(Bytes) /\ Len(p) = PacketSize + 5
      /\ p[1] = First /\ p[2] = k % SeqMod /\ p[3] = SeqMod - 1 - (k % SeqMod)
      /\ \A i \in 4..PacketSize + 3 : p[i] = Cell(k)
      /\ p[PacketSize + 4] = Crc(k) /\ p[PacketSize + 5] = Crc(k)
  BY <1>1
<1> HIDE DEF p
<1>11. SeqMod = 256 /\ PacketSize \in Nat \ {0} /\ N \in Nat
  BY XPacketAssumption DEF CodeLimits
<1>3. SeqMod = 256 /\ PacketSize \in Nat \ {0} /\ N \in Nat /\ k \in Nat
      /\ First \in {SOH, STX} /\ SOH = 1 /\ STX = 2
      /\ Cell(k) \in Nat /\ Crc(k) \in Nat /\ Cell(k) >= 1000 /\ Crc(k) > 1000
  BY <1>11, ByteValues DEF First
<1>4. \A i \in 1..Len(p) : \/ i = 1 /\ p[i] \in {SOH, STX}
                           \/ i = 2 /\ p[i] = k % 256
                           \/ i = 3 /\ p[i] = 255 - (k % 256)
                           \/ p[i] \in {Cell(k), Crc(k)}
  <2>1. \A i \in 1..PacketSize + 5 : i \in {1, 2, 3, PacketSize + 4, PacketSize + 5} \/ i \in 4..PacketSize + 3
    BY <1>3
  <2> QED  BY <1>2, <1>3, <2>1
<1>5. \A i \in 1..Len(p) : Fits(p[i], k, j)
  BY <1>3, <1>4 DEF Fits, Numbers, Marks
<1>6. ASSUME Turned(k), NEW i \in 1..Len(p)
      PROVE  /\ p[i] = Complement(k) => i = 3
             /\ p[i] = Number(k) => i = 2
  BY <1>3, <1>4, <1>6 DEF Turned, Number, Complement
<1>7. ASSUME Turned(k), NEW i \in 1..Len(p)
      PROVE  /\ p[i] = Complement(k) => Len(p) - i >= PacketSize + 2
             /\ p[i] = Number(k) => i >= 2 /\ \A h \in 1..i : p[h] # Complement(k)
  <2>1. Len(p) \in Nat
    BY <1>2
  <2>2. p[i] = Complement(k) => Len(p) - i >= PacketSize + 2
    BY <1>2, <1>3, <1>6, <1>7
  <2>3. ASSUME p[i] = Number(k), NEW h \in 1..i PROVE p[h] # Complement(k)
    BY <1>6, <1>7, <2>1, <2>3
  <2> QED  BY <1>6, <1>7, <2>2, <2>3
<1> QED  BY <1>2, <1>5, <1>7 DEF Segment, p

\* What send() writes besides packets, nothing, CANs and EOT, may follow any packet.
LEMMA OtherSegments ==
  ASSUME NEW k \in Nat, NEW j \in Nat
  PROVE  Segment(<<>>, k, j) /\ Segment(<<CAN, CAN>>, k, j) /\ (j = N => Segment(<<EOT>>, k, j))
<1>1. <<>> \in Seq(Bytes) /\ <<CAN, CAN>> \in Seq(Bytes) /\ <<EOT>> \in Seq(Bytes)
  BY ControlBytes
<1>2. Segment(<<>>, k, j)
  BY <1>1 DEF Segment
<1>3. \A i \in 1..2 : <<CAN, CAN>>[i] = 24
  BY DEF CAN
<1>6. Turned(k) => 24 \notin {Number(k), Complement(k)} /\ 4 \notin {Number(k), Complement(k)}
  BY DEF Turned, Number, Complement
<1>4. Segment(<<CAN, CAN>>, k, j)
  BY <1>1, <1>3, <1>6 DEF Segment, Fits, Marks, CAN
<1>5. j = N => Segment(<<EOT>>, k, j)
  BY <1>1, <1>6 DEF Segment, Fits, EOT
<1> QED  BY <1>2, <1>4, <1>5

\* What a step does to the counter of faults.
LEMMA FaultsGrow == TypeInv /\ [Next]_vars => faults \in Nat /\ faults' \in Nat /\ faults <= faults'
<1> SUFFICES ASSUME TypeInv, [Next]_vars PROVE faults \in Nat /\ faults' \in Nat /\ faults <= faults'
  OBVIOUS
<1>1. faults \in Nat
  BY DEF TypeInv, TypeOK
<1>2. \A p \in Sides : TimesOut(p) => faults' = faults \/ faults' = faults + 1
  BY DEF TimesOut
<1>3. "S" \in Sides /\ "R" \in Sides
  BY DEF Sides
<1>4. CASE SenderStep
  <2>1. faults' = faults \/ TimesOut("S")
    BY <1>4 DEF SenderStep, Greeted, NotGreeted, NextPacket, Acknowledged, PacketRefused,
                PacketUnanswered, EndOfStream, EotAcknowledged, EotUnanswered, SReads
  <2> QED  BY <1>1, <1>2, <1>3, <2>1
<1>5. CASE ReceiverStep
  <2>1. faults' = faults \/ TimesOut("R")
    BY <1>5 DEF ReceiverStep, AskAgain, AskCancelled, PacketStarts, EndOfTransmission,
                CancelByte, ByteRaises, PacketRaises, PacketGood, PacketBad, BodyRead, RReads
  <2> QED  BY <1>1, <1>2, <1>3, <2>1
<1>6. CASE Fault
  BY <1>1, <1>6 DEF Fault
<1>7. CASE UNCHANGED vars
  BY <1>1, <1>7 DEF vars
<1> QED  BY <1>4, <1>5, <1>6, <1>7 DEF Next, Terminated

\* What send() writes belongs to the packet stored last or to the next one, and it goes
\* on to the next one when all the packets before that are stored.
LEMMA SenderSegments ==
  ASSUME CodeLimits, TypeInv, Backed, InOrder, ~Stopped("R"), SenderStep
  PROVE  /\ snd'.packet \in {Len(stored), Len(stored) + 1} /\ snd'.packet >= snd.packet
         /\ \E bytes : /\ Segment(bytes, snd'.packet, Len(stored))
                       /\ (\E n \in Nat : Pass("S", n, bytes)) \/ Quit("S", bytes)
<1> DEFINE j == Len(stored)
           Wrote(bytes) == (\E n \in Nat : Pass("S", n, bytes)) \/ Quit("S", bytes)
           Goal == /\ snd'.packet \in {j, j + 1} /\ snd'.packet >= snd.packet
                   /\ \E bytes : Segment(bytes, snd'.packet, j) /\ Wrote(bytes)
<1>1. /\ snd \in SenderStates /\ N \in Nat /\ snd.packet \in Nat /\ j \in Nat
      /\ wire \in Lines /\ wire["S"] \in Seq(Bytes)
  BY Counters DEF TypeInv, TypeOK, SenderStates, Lines, Sides
<1>2. snd.packet \in {j, j + 1} /\ j <= N
  BY DEF InOrder, Carries
<1>3. AcksOnTheWay \in Nat /\ AcksSent = j
  <2>1. rcv.pc # "done"
    BY DEF Stopped, Results
  <2>2. AcksOnTheWay \in Nat
    BY <1>1, AcksType DEF AcksOnTheWay, Acks
  <2> QED  BY <1>1, <2>1, <2>2 DEF AcksSent
<1>4. \A k \in Nat : Segment(<<>>, k, j) /\ Segment(<<CAN, CAN>>, k, j) /\ (j = N => Segment(<<EOT>>, k, j))
  BY <1>1, OtherSegments
<1>5. \A k \in 1..N : Segment(Packet(k), k, j)
  BY <1>1, PacketSegment
<1> SUFFICES Goal
  OBVIOUS
<1> HIDE DEF j
<1>6. ASSUME snd'.packet = snd.packet,
             \E bytes \in {<<>>, <<CAN, CAN>>} : Wrote(bytes)
      PROVE  Goal
  BY <1>1, <1>2, <1>4, <1>6
<1>7. ASSUME NEW bytes, NEW r, NEW farewell \in {<<>>, <<CAN, CAN>>},
             SendAgain(bytes, r, farewell), Segment(bytes, snd.packet, j)
      PROVE  Goal
  <2>1. snd'.packet = snd.packet
    BY <1>1, <1>7 DEF SendAgain, SEnds, SenderStates
  <2>2. Read("S") \in Nat
    BY DEF Read
  <2>3. Wrote(bytes) \/ Wrote(farewell)
    BY <1>7, <2>2 DEF SendAgain, SEnds
  <2> QED  BY <1>1, <1>2, <1>4, <1>7, <2>1, <2>3
<1>8. ASSUME NEW r, NEW bytes \in {<<>>, <<CAN, CAN>>}, SEnds(r, bytes) PROVE Goal
  <2>1. snd'.packet = snd.packet
    BY <1>1, <1>8 DEF SEnds, SenderStates
  <2> QED  BY <1>6, <1>8, <2>1 DEF SEnds
<1>9. CASE Greeted
  <2>1. snd'.packet = snd.packet /\ Pass("S", 1, <<>>)
    BY <1>1, <1>9 DEF Greeted, SenderStates
  <2> QED  BY <1>6, <2>1
<1>10. CASE NotGreeted
  <2>1. CASE snd' = [snd EXCEPT !.errors = @ + 1, !.cancel = TRUE] /\ Pass("S", 1, <<>>)
    <3>1. snd'.packet = snd.packet
      BY <1>1, <2>1 DEF SenderStates
    <3> QED  BY <1>6, <2>1, <3>1
  <2>2. CASE \E r : SEnds(r, <<>>) \/ SEnds(r, <<CAN, CAN>>)
    BY <1>8, <2>2
  <2>3. CASE SendAgain(<<>>, "failed", <<CAN, CAN>>)
    BY <1>1, <1>4, <1>7, <2>3
  <2> QED  BY <1>10, <2>1, <2>2, <2>3 DEF NotGreeted
<1>11. CASE NextPacket
  <2>1. snd.packet = j /\ snd.packet + 1 \in 1..N
    BY <1>1, <1>2, <1>3, <1>11 DEF NextPacket, Backed, Running, Acked
  <2>2. CASE snd.crc /\ snd.packet + 1 \notin blank
    <3>1. /\ snd' = [snd EXCEPT !.pc = "ack", !.packet = snd.packet + 1, !.errors = 0]
          /\ Pass("S", 0, Packet(snd.packet + 1))
      BY <1>11, <2>2 DEF NextPacket
    <3>2. snd'.packet = j + 1
      BY <1>1, <2>1, <3>1 DEF SenderStates
    <3>3. Segment(Packet(j + 1), j + 1, j) /\ Wrote(Packet(j + 1))
      BY <1>5, <2>1, <3>1
    <3> QED  BY <1>1, <2>1, <3>2, <3>3
  <2>3. CASE SEnds("raised", <<>>)
    BY <1>8, <2>3
  <2> QED  BY <1>11, <2>2, <2>3 DEF NextPacket
<1>12. CASE Acknowledged
  <2>1. snd'.packet = snd.packet /\ Pass("S", 1, <<>>)
    BY <1>1, <1>12 DEF Acknowledged, SenderStates
  <2> QED  BY <1>6, <2>1
<1>13. CASE PacketRefused \/ PacketUnanswered
  <2>1. Segment(Packet(snd.packet), snd.packet, j)
    BY <1>5, <1>13 DEF PacketRefused, PacketUnanswered, SReads, TypeInv
  <2> QED  BY <1>7, <1>13, <2>1 DEF PacketRefused, PacketUnanswered
<1>14. CASE EndOfStream
  <2>1. snd.packet = N /\ snd'.packet = snd.packet /\ Pass("S", 0, <<EOT>>)
    BY <1>1, <1>14 DEF EndOfStream, SenderStates
  <2>2. snd.packet <= j
    BY <1>1, <1>3, <1>14 DEF EndOfStream, Backed, Running, Acked
  <2>3. j = N
    BY <1>1, <1>2, <2>1, <2>2
  <2> QED  BY <1>1, <1>2, <1>4, <2>1, <2>3
<1>15. CASE EotAcknowledged
  BY <1>8, <1>15 DEF EotAcknowledged
<1>16. CASE EotUnanswered
  <2>1. snd.packet = N /\ snd.packet <= j
    BY <1>1, <1>3, <1>16 DEF EotUnanswered, Backed, Running, Acked
  <2>2. j = N
    BY <1>1, <1>2, <2>1
  <2> QED  BY <1>1, <1>4, <1>7, <1>16, <2>2 DEF EotUnanswered
<1> HIDE DEF Goal
<1> QED  BY <1>9, <1>10, <1>11, <1>12, <1>13, <1>14, <1>15, <1>16 DEF SenderStep

\* What send() writes keeps the packets on the line in their order.
LEMMA SenderInOrder ==
  ASSUME CodeLimits, TypeInv, Backed, InOrder, SenderStep PROVE InOrder'
<1>1. stored' = stored /\ rcv' = rcv
  BY DEF SenderStep
<1>2. Stopped("R")' = Stopped("R")
  BY <1>1 DEF Stopped
<1>3. CASE Stopped("R")
  BY <1>1, <1>2, <1>3 DEF InOrder
<1>4. CASE ~Stopped("R")
  <2> DEFINE j == Len(stored)
             w == wire["R"]
             n == faults
  <2>1. /\ wire \in Lines /\ w \in Seq(Bytes) /\ "S" \in Sides /\ Peer("S") = "R" /\ j \in Nat
        /\ snd.packet \in Nat /\ snd'.packet \in Nat
    BY SenderSteps DEF TypeInv, TypeOK, SenderStates, Lines, Sides, Peer
  <2>2. n \in Nat /\ faults' \in Nat /\ n <= faults'
    BY FaultsGrow DEF Next
  <2>3. Carries(w, snd.packet, j, n)
    BY <1>4 DEF InOrder
  <2>4. snd'.packet \in {j, j + 1} /\ snd'.packet >= snd.packet
    BY <1>4, SenderSegments
  <2>5. PICK bytes : /\ Segment(bytes, snd'.packet, j)
                     /\ (\E m \in Nat : Pass("S", m, bytes)) \/ Quit("S", bytes)
    BY <1>4, SenderSegments
  <2>6. wire'["R"] = w \o bytes
    <3>1. bytes \in Seq(Bytes)
      BY <2>5 DEF Segment
    <3> QED  BY <1>4, <2>1, <2>5, <3>1, PassEffect, QuitEffect
  <2>7. w \o bytes \in Seq(Bytes)
    BY <2>1, <2>5 DEF Segment
  <2> HIDE DEF j, w, n
  <2>8. Carries(w \o bytes, snd'.packet, j, n)
    BY <2>1, <2>2, <2>3, <2>4, <2>5, CarriesJoined
  <2>9. Carries(w \o bytes, snd'.packet, j, faults')
    <3>1. Thins(w \o bytes, w \o bytes, 0)
      BY <2>7, ThinsSame, Zenon
    <3>2. n + 0 <= faults' /\ 0 \in Nat
      BY <2>2
    <3> QED  BY <2>1, <2>2, <2>7, <2>8, <3>1, <3>2, CarriesThinned
  <2> QED  BY <1>1, <1>4, <2>6, <2>9 DEF InOrder, j, w
<1> QED  BY <1>3, <1>4

\* A step of recv() ends the loop, or reads and leaves the stream, or stores a packet.
LEMMA ReceiverReads ==
  ASSUME TypeInv, ReceiverStep
  PROVE  \/ Stopped("R")' /\ stored' = stored
         \/ /\ stored' = stored /\ ~Stopped("R")
            /\ \E n \in Nat : wire'["R"] = SubSeq(wire["R"], n + 1, Len(wire["R"]))
         \/ PacketGood
<1> DEFINE Keeps == /\ stored' = stored /\ ~Stopped("R")
                    /\ \E n \in Nat : wire'["R"] = SubSeq(wire["R"], n + 1, Len(wire["R"]))
           Ends == Stopped("R")' /\ stored' = stored
           Goal == Ends \/ Keeps \/ PacketGood
<1> SUFFICES Goal
  OBVIOUS
<1>1. rcv \in ReceiverStates /\ wire \in Lines /\ "R" \in Sides
  BY DEF TypeInv, TypeOK, ReceiverStates, Lines, Sides
<1>2. BodySize \in Nat /\ Read("R") \in Nat /\ 1 \in Nat
  BY BodySizes DEF TypeInv, Read
<1>3. ASSUME NEW n \in Nat, NEW bytes \in ReceiverWrites, Pass("R", n, bytes),
             rcv.pc \in {"hello", "packet", "byte"}, stored' = stored
      PROVE  Keeps
  <2>1. wire'["R"] = SubSeq(wire["R"], n + 1, Len(wire["R"]))
    BY <1>1, <1>3, WritesType, PassEffect
  <2> QED  BY <1>3, <2>1 DEF Stopped, Results
<1>4. ASSUME NEW r \in Results, NEW bytes, REnds(r, bytes), stored' = stored PROVE Ends
  BY <1>1, <1>4 DEF REnds, Stopped, ReceiverStates
<1>5. /\ <<>> \in ReceiverWrites /\ <<NAK>> \in ReceiverWrites
      /\ \A b \in {CRC, NAK} : <<b>> \in ReceiverWrites
      /\ {"done", "failed", "raised"} = Results
  BY DEF ReceiverWrites, Results
<1>6. ASSUME NEW errors, NEW cancel, Ask(errors, cancel), rcv.pc = "hello", stored' = stored
      PROVE  Ends \/ Keeps
  <2>1. \/ \E b \in {CRC, NAK} : Pass("R", Read("R"), <<b>>)
        \/ REnds("failed", <<CAN, CAN>>)
    BY <1>6 DEF Ask
  <2> HIDE DEF Ends, Keeps
  <2> QED  BY <1>2, <1>3, <1>4, <1>5, <1>6, <2>1
<1>7. CASE (AskAgain \/ AskCancelled \/ PacketStarts \/ EndOfTransmission \/ CancelByte \/ ByteRaises)
             /\ UNCHANGED stored
  <2>1. CASE AskAgain
    BY <1>6, <1>7, <2>1 DEF AskAgain
  <2>2. CASE PacketStarts
    <3>1. rcv.pc \in {"hello", "byte"} /\ Pass("R", 1, <<>>)
      BY <2>2 DEF PacketStarts, RReads
    <3> QED  BY <1>2, <1>3, <1>5, <1>7, <3>1
  <2>3. CASE \E r \in Results : \E bytes : REnds(r, bytes)
    BY <1>4, <1>7, <2>3
  <2> QED  BY <1>5, <1>7, <2>1, <2>2, <2>3 DEF AskCancelled, EndOfTransmission, CancelByte, ByteRaises
<1>8. CASE PacketRaises
  BY <1>4, <1>5, <1>8 DEF PacketRaises
<1>9. CASE PacketBad
  <2>1. rcv.pc = "packet" /\ stored' = stored /\ Pass("R", BodySize, <<NAK>>)
    BY <1>9 DEF PacketBad, BodyRead
  <2> QED  BY <1>2, <1>3, <1>5, <2>1
<1> HIDE DEF Goal
<1>10. PacketGood => Goal
  BY DEF Goal
<1> QED  BY <1>7, <1>8, <1>9, <1>10 DEF ReceiverStep, Goal

\* What recv() has read of a packet are the first bytes on the line, as many as it waits
\* for if so many have come; its contents are those behind the header.
LEMMA BodyBytes ==
  ASSUME TypeInv
  PROVE  LET w == wire["R"]  m == IF Len(w) < BodySize THEN Len(w) ELSE BodySize IN
         /\ m \in Nat /\ m <= Len(w) /\ Body \in Seq(Bytes) /\ Len(Body) = m
         /\ \A i \in 1..m : Body[i] = w[i]
         /\ m >= 2 => /\ Data \in Seq(Bytes) /\ Len(Data) = m - 2
                      /\ \A i \in 1..m - 2 : Data[i] = w[2 + i]
<1> DEFINE w == wire["R"]
           m == IF Len(w) < BodySize THEN Len(w) ELSE BodySize
<1>1. w \in Seq(Bytes) /\ Len(w) \in Nat /\ BodySize \in Nat
  <2>1. TypeOK
    BY DEF TypeInv
  <2> QED  BY <2>1, BodySizes DEF TypeOK, Sides
<1>2. Body = SubSeq(w, 1, m) /\ m \in Nat /\ m <= Len(w)
  BY <1>1 DEF Body
<1> HIDE DEF m, w
<1>3. \A i \in 1..m : w[i] \in Bytes
  BY <1>1, <1>2
<1>4. Len(Body) = m /\ Body \in Seq(Bytes) /\ \A i \in 1..m : Body[i] = w[i]
  BY <1>1, <1>2, <1>3, SubSeqProperties
<1>5. ASSUME m >= 2
      PROVE  /\ Data \in Seq(Bytes) /\ Len(Data) = m - 2
             /\ \A i \in 1..m - 2 : Data[i] = w[2 + i]
  <2>1. Data = SubSeq(Body, 2 + 1, Len(Body)) /\ 2 \in Nat
    BY DEF Data
  <2>2. /\ Data \in Seq(Bytes) /\ Len(Data) = IF 2 < Len(Body) THEN Len(Body) - 2 ELSE 0
        /\ \A i \in 1..Len(Body) - 2 : Data[i] = Body[2 + i]
    BY <1>4, <2>1, Rest
  <2>3. Len(Data) = m - 2
    BY <1>2, <1>4, <1>5, <2>2
  <2>4. \A i \in 1..m - 2 : Data[i] = Body[2 + i] /\ 2 + i \in 1..m
    BY <1>2, <1>4, <1>5, <2>2
  <2> QED  BY <1>4, <2>2, <2>3, <2>4
<1> QED  BY <1>2, <1>4, <1>5 DEF m, w

\* The contents of a packet and its CRC.
LEMMA ContentsBytes ==
  ASSUME NEW k \in 1..N
  PROVE  LET d == [i \in 1..PacketSize |-> Cell(k)] \o <<Crc(k), Crc(k)>> IN
         /\ d \in Seq(Bytes) /\ Len(d) = PacketSize + 2
         /\ \A i \in 1..PacketSize : d[i] = Cell(k)
         /\ d[PacketSize + 1] = Crc(k) /\ d[PacketSize + 2] = Crc(k)
<1> DEFINE c == [i \in 1..PacketSize |-> Cell(k)]
           e == <<Crc(k), Crc(k)>>
<1>1. PacketSize \in Nat
  BY XPacketAssumption
<1>8. c \in Seq(Bytes) /\ e \in Seq(Bytes)
  BY <1>1 DEF Bytes
<1>2. Len(c) = PacketSize /\ \A i \in 1..PacketSize : c[i] = Cell(k)
  BY <1>1
<1>3. Len(e) = 2 /\ e[1] = Crc(k) /\ e[2] = Crc(k)
  OBVIOUS
<1> HIDE DEF c, e
<1>4. /\ c \o e \in Seq(Bytes) /\ Len(c \o e) = Len(c) + Len(e)
      /\ \A i \in 1..Len(c) : (c \o e)[i] = c[i]
      /\ \A i \in 1..Len(e) : (c \o e)[Len(c) + i] = e[i]
  BY <1>8, Joined
<1>5. 1 \in 1..2 /\ 2 \in 1..2
  OBVIOUS
<1>6. Len(c \o e) = PacketSize + 2
  BY <1>2, <1>3, <1>4
<1>7. (c \o e)[PacketSize + 1] = Crc(k) /\ (c \o e)[PacketSize + 2] = Crc(k)
  BY <1>2, <1>3, <1>4, <1>5, Zenon
<1> QED  BY <1>2, <1>4, <1>6, <1>7, Zenon DEF c, e

\* A packet is taken for good when its header has the number after that of the packet
\* stored last, and its complement, and its contents and CRC belong together.
LEMMA GoodPacket ==
  ASSUME CodeLimits, TypeInv, PacketGood
  PROVE  LET w == wire["R"]  s == (Len(stored) + 1) % 256 IN
         /\ BodySize = PacketSize + 4 /\ Len(w) >= PacketSize + 4
         /\ w[1] = s /\ 255 - w[2] = s
         /\ \E k \in 1..N : /\ w[3] = Cell(k) /\ stored' = Append(stored, k)
                            /\ w[PacketSize + 3] = Crc(k) /\ w[PacketSize + 4] = Crc(k)
<1> DEFINE w == wire["R"]
           s == (Len(stored) + 1) % 256
           m == IF Len(w) < BodySize THEN Len(w) ELSE BodySize
<1>1. PacketSize \in Nat \ {0} /\ SeqMod = 256
  BY XPacketAssumption DEF CodeLimits
<1>2. /\ m \in Nat /\ m <= Len(w) /\ Len(Body) = m /\ Len(w) \in Nat
      /\ \A i \in 1..m : Body[i] = w[i]
      /\ m >= 2 => Len(Data) = m - 2 /\ \A i \in 1..m - 2 : Data[i] = w[2 + i]
  BY BodyBytes DEF TypeInv, TypeOK, Sides
<1>4. PICK k \in 1..N : Genuine(k) /\ stored' = Append(stored, k)
  BY DEF PacketGood
<1>5. InSequence /\ rcv.crc /\ m >= 2
  <2> HIDE DEF m
  <2>1. InSequence /\ rcv.crc
    BY <1>4 DEF Genuine
  <2>2. Len(Body) >= 2
    BY <2>1 DEF InSequence
  <2> QED  BY <1>2, <2>1, <2>2
<1>3. BodySize \in Nat /\ BodySize <= PacketSize + 4
  BY BodySizes DEF TypeInv
<1>7. w[1] = s /\ 255 - w[2] = s
  <2>1. Body[1] = s /\ SeqMod - 1 - Body[2] = s
    BY <1>1, <1>5 DEF InSequence, Sequence
  <2> HIDE DEF m, w, s
  <2> QED  BY <1>1, <1>2, <1>5, <2>1
<1>8. /\ Len(Data) = PacketSize + 2 /\ Data[1] = Cell(k)
      /\ Data[PacketSize + 1] = Crc(k) /\ Data[PacketSize + 2] = Crc(k)
  <2>1. Data = [i \in 1..PacketSize |-> Cell(k)] \o <<Crc(k), Crc(k)>>
    BY <1>4 DEF Genuine
  <2>2. 1 \in 1..PacketSize
    BY <1>1
  <2> QED  BY <2>1, <2>2, ContentsBytes
<1>9. /\ m = PacketSize + 4 /\ BodySize = PacketSize + 4 /\ Len(w) >= PacketSize + 4
      /\ w[3] = Cell(k) /\ w[PacketSize + 3] = Crc(k) /\ w[PacketSize + 4] = Crc(k)
  <2>0. m <= BodySize
    BY <1>2, <1>3
  <2> HIDE DEF m
  <2>1. m = PacketSize + 4 /\ BodySize = PacketSize + 4 /\ Len(w) >= PacketSize + 4
    BY <1>1, <1>2, <1>3, <1>5, <1>8, <2>0
  <2>2. /\ 1 \in 1..m - 2 /\ PacketSize + 1 \in 1..m - 2 /\ PacketSize + 2 \in 1..m - 2
        /\ 2 + 1 = 3 /\ 2 + (PacketSize + 1) = PacketSize + 3 /\ 2 + (PacketSize + 2) = PacketSize + 4
    BY <1>1, <2>1
  <2>3. \A i \in 1..m - 2 : Data[i] = w[2 + i]
    BY <1>2, <1>5
  <2> HIDE DEF w
  <2>4. /\ Data[1] = w[3] /\ Data[PacketSize + 1] = w[PacketSize + 3]
        /\ Data[PacketSize + 2] = w[PacketSize + 4]
    BY <2>2, <2>3
  <2> QED  BY <1>8, <2>1, <2>4
<1> QED  BY <1>4, <1>7, <1>9

\* Every byte is an integer, so that a number and its complement can be added.
LEMMA BytesAreNumbers == ASSUME NEW b \in Bytes PROVE b \in Int
<1>1. \A h \in 1..N : h \in Nat
  BY XPacketAssumption
<1>2. \A h \in 1..N : Cell(h) \in Nat /\ Crc(h) \in Nat
  BY <1>1 DEF Cell, Crc
<1> QED  BY <1>2 DEF Bytes, Noise

\* The contents of a packet are no byte of another one.
LEMMA CellFits ==
  ASSUME CodeLimits, NEW j, NEW k \in Nat, NEW h \in Nat, Fits(Cell(k), h, j) PROVE k = h
<1>1. Numbers(h) = {h % 256, 255 - (h % 256)} /\ h % 256 \in 0..255
  BY Remainders DEF CodeLimits, Numbers
<1>2. Cell(k) \notin {h % 256, 255 - (h % 256)}
  BY <1>1 DEF Cell
<1>3. Cell(k) # Crc(h) /\ Cell(k) # EOT /\ Cell(k) \notin Marks
  BY DEF Cell, Crc, EOT, Marks, SOH, STX, CAN, Noise
<1>4. Cell(k) = Cell(h)
  BY <1>1, <1>2, <1>3 DEF Fits
<1> QED  BY <1>4 DEF Cell

\* What can be taken for the contents of a packet behind the header of packet j + 1, by a
\* receiver with j packets, is packet j + 1 itself.
LEMMA NextHeader ==
  ASSUME CodeLimits, NEW j \in Nat, NEW n \in Nat, n < PacketSize + 3, NEW w \in Seq(Bytes), Len(w) >= 3,
         NEW L, Split(w, L, j, n), NEW k \in Nat, w[3] = Cell(k),
         w[1] = (j + 1) % 256, 255 - w[2] = (j + 1) % 256
  PROVE  k = j + 1 /\ 3 \notin L
<1>1. PacketSize \in Nat /\ Len(w) \in Nat
  BY XPacketAssumption
<1>2. /\ j % 256 \in 0..255 /\ (j + 1) % 256 \in 0..255
      /\ (j + 1) % 256 = IF j % 256 = 255 THEN 0 ELSE (j % 256) + 1
  BY Remainders
<1>3. w[1] \in Bytes /\ w[2] \in Bytes
  BY <1>1
<1>4. w[2] = 255 - ((j + 1) % 256)
  <2>1. w[2] \in Int
    BY <1>3, BytesAreNumbers, Zenon
  <2> QED  BY <1>2, <2>1
<1>6. 3 \notin L
  <2> SUFFICES ASSUME 3 \in L PROVE FALSE
    OBVIOUS
  <2>1. 1 \in L /\ 2 \in L
    BY DEF Split
  <2>2. Fits(w[1], j, j) /\ Fits(w[2], j, j)
    BY <2>1 DEF Split
  <2> DEFINE a == j % 256
             s == (j + 1) % 256
             Known == {1, 2, 4, 24, 999, a, 255 - a, Cell(j), Crc(j)}
  <2>3. s \in Known /\ 255 - s \in Known
    <3>1. \A b : Fits(b, j, j) => b \in Known
      BY ByteValues DEF Fits, Marks, Numbers, CodeLimits
    <3> QED  BY <1>4, <2>2, <3>1
  <2>4. a \in 0..255 /\ s = IF a = 255 THEN 0 ELSE a + 1
    BY <1>2
  <2>8. Cell(j) >= 1000 /\ Crc(j) > 1000 /\ Cell(j) \in Nat /\ Crc(j) \in Nat
    BY ByteValues
  <2> HIDE DEF a, s
  <2>5. a \in {127, 255} /\ s = 255 - a
    BY <2>3, <2>4, <2>8
  <2>6. Turned(j) /\ w[1] = Complement(j) /\ w[2] = Number(j)
    BY <1>4, <2>4, <2>5 DEF Turned, Complement, Number, a, s
  <2>7. 2 - 1 >= PacketSize + 4 - n
    BY <2>1, <2>6 DEF Split, Apart
  <2> QED  BY <1>1, <2>7
<1>7. Fits(w[3], j + 1, j)
  BY <1>1, <1>6 DEF Split
<1>8. j + 1 \in Nat
  OBVIOUS
<1> QED  BY <1>6, <1>7, <1>8, CellFits

\* Behind that packet the line carries bytes of it, to a receiver that has it by then.
LEMMA CarriesNext ==
  ASSUME NEW j \in Nat, NEW n \in Nat, NEW w \in Seq(Bytes), NEW L, Split(w, L, j, n),
         3 \notin L, j # N, NEW c \in Nat, 3 <= c, c <= Len(w)
  PROVE  Carries(SubSeq(w, c + 1, Len(w)), j + 1, j + 1, n)
<1> DEFINE t == SubSeq(w, c + 1, Len(w))
           I == (1..Len(w)) \ L
<1>1. Len(t) = Len(w) - c /\ \A i \in 1..Len(w) - c : t[i] = w[c + i]
  <2>1. /\ Len(t) = IF c < Len(w) THEN Len(w) - c ELSE 0
        /\ \A i \in 1..Len(w) - c : t[i] = w[c + i]
    BY Rest
  <2> HIDE DEF t
  <2> QED  BY <2>1
<1>2. Len(w) \in Nat /\ PacketSize \in Nat
  BY XPacketAssumption
<1> HIDE DEF t
<1>3. Len(t) \in Nat /\ \A i \in 1..Len(t) : c + i \in 1..Len(w) /\ 3 <= c + i /\ t[i] = w[c + i]
  BY <1>1, <1>2
<1>4. ASSUME NEW i \in 1..Len(t) PROVE c + i \in I
  <2>1. c + i \in L => 3 \in L
    BY <1>3 DEF Split
  <2> QED  BY <1>3, <2>1
<1>5. ASSUME NEW i \in 1..Len(t) PROVE Fits(t[i], j + 1, j + 1)
  <2>1. Fits(w[c + i], j + 1, j)
    BY <1>4 DEF Split
  <2> QED  BY <1>3, <2>1 DEF Fits
<1>6. Apart(j + 1, t, 1..Len(t), n)
  <2>1. Apart(j + 1, w, I, n)
    BY DEF Split
  <2> HIDE DEF I
  <2> SUFFICES ASSUME Turned(j + 1), NEW i \in 1..Len(t), t[i] = Complement(j + 1)
               PROVE  /\ Len(t) - i >= PacketSize + 2 - n
                      /\ \A h \in 1..Len(t) : i < h /\ t[h] = Number(j + 1) => h - i >= PacketSize + 4 - n
    BY DEF Apart
  <2>2. /\ Len(w) - (c + i) >= PacketSize + 2 - n
        /\ \A h \in I : c + i < h /\ w[h] = Number(j + 1) => h - (c + i) >= PacketSize + 4 - n
    BY <1>3, <1>4, <2>1 DEF Apart
  <2>3. Len(t) - i >= PacketSize + 2 - n
    BY <1>1, <1>2, <2>2
  <2>4. ASSUME NEW h \in 1..Len(t), i < h, t[h] = Number(j + 1) PROVE h - i >= PacketSize + 4 - n
    <3>1. c + h \in I /\ c + i < c + h /\ w[c + h] = Number(j + 1)
      BY <1>3, <1>4, <2>4
    <3>2. (c + h) - (c + i) >= PacketSize + 4 - n
      BY <2>2, <3>1
    <3> QED  BY <1>2, <3>2
  <2> QED  BY <2>3, <2>4
<1>7. Split(t, 1..Len(t), j + 1, n)
  <2>1. Apart(j + 2, t, {}, n) /\ (1..Len(t)) \ (1..Len(t)) = {} /\ (j + 1) + 1 = j + 2
    BY DEF Apart
  <2>2. \A i \in 1..Len(t) : \A h \in 1..i : h \in 1..Len(t)
    BY <1>3
  <2> QED  BY <1>5, <1>6, <2>1, <2>2 DEF Split
<1> QED  BY <1>7 DEF Carries, t

\* What recv() stores is the next packet: on a line that carries packets in their
\* order, no body that passes the checks is anything else.
LEMMA ReceiverInOrder ==
  ASSUME CodeLimits, TypeInv, InOrder, ReceiverStep PROVE InOrder'
<1> DEFINE j == Len(stored)
           w == wire["R"]
           n == faults
<1>1. /\ wire \in Lines /\ w \in Seq(Bytes) /\ "R" \in Sides /\ j \in Nat
      /\ snd.packet \in Nat /\ N \in Nat /\ PacketSize \in Nat /\ snd' = snd
      /\ stored \in Seq(1..N) /\ n < PacketSize + 3
  BY Counters, XPacketAssumption DEF TypeInv, TypeOK, SenderStates, Lines, Sides, ReceiverStep, CodeLimits
<1>2. n \in Nat /\ faults' \in Nat /\ n <= faults'
  BY FaultsGrow DEF Next
<1>3. j <= N /\ stored = [k \in 1..j |-> k]
  BY DEF InOrder
<1>4. ASSUME NEW m \in Nat, NEW t \in Seq(Bytes), Carries(t, snd.packet, m, n)
      PROVE  Carries(t, snd.packet, m, faults')
  <2>1. Thins(t, t, 0)
    BY ThinsSame, Zenon
  <2>2. n + 0 <= faults' /\ 0 \in Nat
    BY <1>2
  <2> QED  BY <1>1, <1>2, <1>4, <2>1, <2>2, CarriesThinned
<1>5. CASE Stopped("R")' /\ stored' = stored
  BY <1>3, <1>5 DEF InOrder
<1>6. CASE /\ stored' = stored /\ ~Stopped("R")
           /\ \E m \in Nat : wire'["R"] = SubSeq(wire["R"], m + 1, Len(wire["R"]))
  <2>1. PICK m \in Nat : wire'["R"] = SubSeq(w, m + 1, Len(w))
    BY <1>6
  <2>2. Carries(w, snd.packet, j, n)
    BY <1>6 DEF InOrder
  <2>3. wire'["R"] \in Seq(Bytes) /\ Thins(wire'["R"], w, 0)
    BY <1>1, <2>1, Rest, ThinsRest
  <2> HIDE DEF w, j, n
  <2>4. n + 0 <= faults' /\ 0 \in Nat
    BY <1>2
  <2>5. Carries(wire'["R"], snd.packet, j, faults')
    BY <1>1, <1>2, <2>2, <2>3, <2>4, CarriesThinned
  <2> QED  BY <1>1, <1>3, <1>6, <2>5 DEF InOrder, j
<1>7. CASE PacketGood
  <2>1. /\ BodySize = PacketSize + 4 /\ Len(w) >= PacketSize + 4
        /\ w[1] = (j + 1) % 256 /\ 255 - w[2] = (j + 1) % 256
    BY <1>7, GoodPacket
  <2>2. PICK k \in 1..N : w[3] = Cell(k) /\ stored' = Append(stored, k)
    BY <1>7, GoodPacket
  <2>3. Carries(w, snd.packet, j, n)
    BY <1>7 DEF InOrder, PacketGood, BodyRead, Stopped, Results
  <2>4. PICK L : Split(w, L, j, n) /\ (snd.packet = j => L = 1..Len(w))
    BY <2>3 DEF Carries
  <2>5. Pass("R", BodySize, <<ACK>>)
    BY <1>7 DEF PacketGood
  <2>6. wire'["R"] = SubSeq(w, BodySize + 1, Len(w))
    <3>1. <<ACK>> \in Seq(Bytes) /\ BodySize \in Nat
      BY <1>1, <2>1, ControlBytes
    <3> QED  BY <1>1, <2>5, <3>1, PassEffect
  <2> HIDE DEF w, j, n
  <2>7. Len(w) \in Nat /\ k \in Nat
    BY <1>1
  <2>8. Len(w) >= 3 /\ BodySize \in Nat /\ 3 <= BodySize /\ BodySize <= Len(w)
    BY <1>1, <2>1, <2>7
  <2>9. k = j + 1 /\ 3 \notin L
    BY <1>1, <1>2, <2>1, <2>2, <2>4, <2>7, <2>8, NextHeader
  <2>10. j # N /\ j + 1 \in Nat
    BY <1>1, <2>9
  <2>11. snd.packet = j + 1
    <3>1. 3 \in 1..Len(w)
      BY <2>7, <2>8
    <3> QED  BY <2>3, <2>4, <2>9, <3>1 DEF Carries
  <2>12. Carries(SubSeq(w, BodySize + 1, Len(w)), j + 1, j + 1, n)
    BY <1>1, <1>2, <2>4, <2>8, <2>9, <2>10, CarriesNext
  <2>13. SubSeq(w, BodySize + 1, Len(w)) \in Seq(Bytes)
    BY <1>1, <2>8, Rest
  <2>14. Carries(wire'["R"], snd.packet, j + 1, faults')
    BY <1>4, <2>6, <2>10, <2>11, <2>12, <2>13
  <2>15. Len(stored') = j + 1 /\ stored' = [h \in 1..j + 1 |-> h]
    <3>1. stored' = Append(stored, j + 1) /\ Len(stored) = j
      BY <2>2, <2>9 DEF j
    <3> QED  BY <1>1, <1>3, <3>1
  <2>16. j + 1 <= N
    BY <1>1, <1>3, <2>10
  <2> QED  BY <1>1, <2>14, <2>15, <2>16 DEF InOrder
<1> QED  BY <1>5, <1>6, <1>7, ReceiverReads

\* Damage and drops leave the packets on the line in their order.
LEMMA FaultInOrder ==
  ASSUME TypeInv, InOrder, Fault PROVE InOrder'
<1>1. /\ wire \in Lines /\ "R" \in Sides /\ wire["R"] \in Seq(Bytes)
      /\ faults \in Nat /\ faults' = faults + 1 /\ faults + 1 \in Nat
      /\ snd' = snd /\ rcv' = rcv /\ stored' = stored /\ Len(stored) \in Nat
  BY DEF TypeInv, TypeOK, Lines, Sides, Fault
<1>2. wire'["R"] \in Seq(Bytes) /\ \E d \in {0, 1} : Thins(wire'["R"], wire["R"], d)
  <2>1. PICK p \in Sides : \E i \in 1..Len(wire[p]) : \E b \in {Noise, CAN} :
           /\ wire' \in Lines /\ \A q \in Sides \ {p} : wire'[q] = wire[q]
           /\ \/ wire'[p] = [wire[p] EXCEPT ![i] = b]
              \/ wire'[p] = SubSeq(wire[p], 1, i - 1) \o SubSeq(wire[p], i + 1, Len(wire[p]))
    BY <1>1, FaultEffect
  <2>2. wire'["R"] \in Seq(Bytes)
    BY <1>1, <2>1 DEF Lines
  <2>3. CASE p = "R"
    <3>1. PICK i \in 1..Len(wire["R"]), b \in {Noise, CAN} :
            \/ wire'["R"] = [wire["R"] EXCEPT ![i] = b]
            \/ wire'["R"] = SubSeq(wire["R"], 1, i - 1) \o SubSeq(wire["R"], i + 1, Len(wire["R"]))
      BY <2>1, <2>3
    <3>2. Thins([wire["R"] EXCEPT ![i] = b], wire["R"], 0)
      BY <1>1, ThinsDamaged, Zenon
    <3>3. Thins(SubSeq(wire["R"], 1, i - 1) \o SubSeq(wire["R"], i + 1, Len(wire["R"])), wire["R"], 1)
      BY <1>1, ThinsShorter, Zenon
    <3> QED  BY <2>2, <3>1, <3>2, <3>3, Zenon
  <2>4. CASE p # "R"
    <3>1. wire'["R"] = wire["R"]
      BY <1>1, <2>1, <2>4
    <3>2. Thins(wire["R"], wire["R"], 0)
      BY <1>1, ThinsSame, Zenon
    <3> QED  BY <2>2, <3>1, <3>2, Zenon
  <2> QED  BY <2>3, <2>4
<1>3. PICK d \in {0, 1} : Thins(wire'["R"], wire["R"], d)
  BY <1>2
<1>4. d \in Nat /\ faults + d <= faults + 1
  BY <1>1
<1>5. Carries(wire["R"], snd.packet, Len(stored), faults) =>
        Carries(wire'["R"], snd.packet, Len(stored), faults + 1)
  BY <1>1, <1>2, <1>3, <1>4, CarriesThinned
<1>6. Stopped("R")' = Stopped("R")
  BY <1>1 DEF Stopped
<1> QED  BY <1>1, <1>5, <1>6 DEF InOrder

\* At the beginning no packet is on the line.
LEMMA InitInOrder == Init => InOrder
<1> SUFFICES ASSUME Init PROVE InOrder
  OBVIOUS
<1>1. /\ stored = <<>> /\ snd.packet = 0 /\ faults = 0 /\ wire["R"] = <<>>
      /\ Len(<<>>) = 0 /\ N \in Nat
  BY Counters DEF Init, Sides
<1>2. Split(<<>>, {}, 0, 0)
  BY DEF Split, Apart
<1>3. 1..0 = {}
  OBVIOUS
<1>4. Carries(<<>>, 0, 0, 0)
  BY <1>1, <1>2, <1>3 DEF Carries
<1>5. Len(stored) <= N /\ stored = [k \in 1..Len(stored) |-> k]
  BY <1>1
<1> QED  BY <1>1, <1>4, <1>5 DEF InOrder

\* Every step preserves the order of what is on the line and in the stream.
LEMMA NextInOrder ==
  ASSUME CodeLimits PROVE TypeInv /\ Backed /\ InOrder /\ [Next]_vars => InOrder'
<1> SUFFICES ASSUME TypeInv, Backed, InOrder, [Next]_vars PROVE InOrder'
  OBVIOUS
<1>1. CASE UNCHANGED vars
  BY <1>1 DEF vars, InOrder, Stopped
<1> QED  BY <1>1, SenderInOrder, ReceiverInOrder, FaultInOrder DEF Next, Terminated

\* No packet is written twice when its ACK was lost, none is left out, and none is cut
\* from the bytes of two: for every stream, every number of retries, and whatever the
\* line does to fewer bytes than a packet has.
THEOREM StreamInOrder == ASSUME CodeLimits PROVE Spec => []StoredInOrder
<1>1. InOrder => StoredInOrder
  BY DEF InOrder, StoredInOrder
<1>2. Init => TypeInv /\ Backed /\ InOrder
  BY InitTypes, InitBacked, InitInOrder
<1>3. TypeInv /\ Backed /\ InOrder /\ [Next]_vars => (TypeInv /\ Backed /\ InOrder)'
  BY NextTypes, NextBacked, NextInOrder
<1> QED  BY <1>1, <1>2, <1>3, PTL DEF Spec

-----------------------------------------------------------------------------
(***************************************************************************)
(* What the two functions report.  Where nothing was damaged, dropped or   *)
(* late, the two sides are in step, and an EOT that is read is the one     *)
(* that was sent.                                                          *)
(***************************************************************************)


\* The receiver's loop between packets.
Between == IF Len(stored) = 0 THEN "hello" ELSE "byte"

\* The states of a transfer in step: before the first byte was read; between packets; a
\* packet was sent; its first byte was read; it was answered; EOT was sent.
Shaking ==
  /\ snd.pc = "hello" /\ snd.packet = 0 /\ wire["S"] = <<CRC>>
  /\ rcv.pc = "hello" /\ Len(stored) = 0 /\ wire["R"] = <<>>
Reading ==
  /\ snd.pc = "next" /\ snd.packet = Len(stored) /\ wire["S"] = <<>>
  /\ rcv.pc = Between /\ wire["R"] = <<>>
Sent ==
  /\ snd.pc = "ack" /\ snd.packet = Len(stored) + 1 /\ wire["S"] = <<>>
  /\ rcv.pc = Between /\ wire["R"] = Packet(snd.packet)
Begun ==
  /\ snd.pc = "ack" /\ snd.packet = Len(stored) + 1 /\ wire["S"] = <<>>
  /\ rcv.pc = "packet" /\ rcv.size = PacketSize
  /\ wire["R"] = SubSeq(Packet(snd.packet), 2, Len(Packet(snd.packet)))
Answered ==
  /\ snd.pc = "ack" /\ snd.packet = Len(stored) /\ wire["S"] = <<ACK>>
  /\ rcv.pc = "byte" /\ wire["R"] = <<>>
Ending ==
  /\ snd.pc = "eot" /\ Len(stored) = N /\ wire["S"] = <<>>
  /\ rcv.pc = "byte" /\ wire["R"] = <<EOT>>
\* The receiver of an empty stream takes EOT for a byte of no meaning.
Empty ==
  /\ N = 0 /\ rcv.pc = "hello"
  /\ \A i \in 1..Len(wire["R"]) : wire["R"][i] \in {EOT, CAN}
\* send() raised before a packet that takes a checksum.
Left == Stopped("S") /\ rcv.pc = Between /\ wire["R"] = <<>>

Clean ==
  faults = 0 /\ ~Stopped("R") =>
    Shaking \/ Reading \/ Sent \/ Begun \/ Answered \/ Ending \/ Empty \/ Left

\* Only contents and CRC may have other values.
LEMMA ControlsPlain ==
  ASSUME NEW b \in {SOH, STX, EOT, CAN}, NEW v, MayBe(b, v) PROVE v = b
<1>1. \A k \in 1..N : b \notin {Cell(k), Crc(k)}
  <2>1. 1..N \subseteq Nat
    BY XPacketAssumption
  <2> QED  BY <2>1, ByteValues
<1> QED  BY <1>1 DEF MayBe
LEMMA FirstPlain == ASSUME NEW v, MayBe(First, v) PROVE v = First
BY ControlsPlain DEF First

\* Lines with one byte or none.
LEMMA ShortLines ==
  /\ \A s \in Seq(Bytes) : <<>> \o s = s
  /\ \A s \in Seq(Bytes) : \A n \in Nat : n >= Len(s) => SubSeq(s, n + 1, Len(s)) = <<>>
  /\ \A b : Len(<<b>>) = 1 /\ <<b>> # <<>> /\ Head(<<b>>) = b
<1>1. \A s \in Seq(Bytes) : <<>> \o s = s
  OBVIOUS
<1>2. ASSUME NEW s \in Seq(Bytes), NEW n \in Nat, n >= Len(s) PROVE SubSeq(s, n + 1, Len(s)) = <<>>
  <2>1. n + 1 > Len(s)
    BY <1>2
  <2> QED  BY <2>1
<1>3. \A b : Len(<<b>>) = 1 /\ <<b>> # <<>> /\ Head(<<b>>) = b
  OBVIOUS
<1> QED  BY <1>1, <1>2, <1>3

\* A getc() gives up where nothing was late when the other side waits as well.
LEMMA BothStarved ==
  ASSUME faults = 0, faults' = 0, NEW p \in Sides, TimesOut(p)
  PROVE  Starved(p) /\ Starved(Peer(p))
BY DEF TimesOut

\* What a side writes, to a line with nothing on it.
LEMMA FirstBytes ==
  ASSUME wire \in Lines, NEW p \in Sides, ~Stopped(Peer(p)), wire[Peer(p)] = <<>>,
         NEW bytes \in Seq(Bytes), (\E n \in Nat : Pass(p, n, bytes)) \/ Quit(p, bytes)
  PROVE  wire'[Peer(p)] = bytes
<1>1. wire'[Peer(p)] = <<>> \o bytes
  BY PassEffect, QuitEffect
<1> QED  BY <1>1, ShortLines
\* Each step of send() belongs to the loop it is in.
LEMMA SenderLoops ==
  ASSUME SenderStep
  PROVE  \/ snd.pc = "hello" /\ (Greeted \/ NotGreeted)
         \/ snd.pc = "next" /\ (NextPacket \/ EndOfStream)
         \/ snd.pc = "ack" /\ (Acknowledged \/ PacketRefused \/ PacketUnanswered)
         \/ snd.pc = "eot" /\ (EotAcknowledged \/ EotUnanswered)
BY DEF SenderStep, Greeted, NotGreeted, NextPacket, EndOfStream, Acknowledged, PacketRefused,
       PacketUnanswered, EotAcknowledged, EotUnanswered, SReads

\* What getc() waits for is there: the whole packet, its first byte, or EOT.
LEMMA NotStarved ==
  ASSUME TypeInv, ~Stopped("R"), Sent \/ Begun \/ Ending PROVE ~Starved("R")
<1>1. PacketSize \in Nat \ {0} /\ BodySize \in Nat /\ BodySize <= PacketSize + 4
  BY XPacketAssumption, BodySizes DEF TypeInv
<1>2. CASE Sent
  <2>1. snd.packet \in 1..N
    BY <1>2 DEF Sent, TypeInv
  <2>2. Len(wire["R"]) = PacketSize + 5
    BY <1>2, <2>1, PacketBytes DEF Sent
  <2>3. Needed("R") = 1
    BY <1>2 DEF Sent, Between, Needed
  <2> QED  BY <1>1, <2>2, <2>3 DEF Starved
<1>3. CASE Begun
  <2>1. snd.packet \in 1..N
    BY <1>3 DEF Begun, TypeInv
  <2>2. Packet(snd.packet) \in Seq(Bytes) /\ Len(Packet(snd.packet)) = PacketSize + 5
    BY <2>1, PacketBytes
  <2>3. Len(wire["R"]) = IF 1 < Len(Packet(snd.packet)) THEN Len(Packet(snd.packet)) - 1 ELSE 0
    <3>1. 1 \in Nat /\ 1 + 1 = 2
      OBVIOUS
    <3>2. wire["R"] = SubSeq(Packet(snd.packet), 1 + 1, Len(Packet(snd.packet)))
      BY <1>3, <3>1 DEF Begun
    <3> QED  BY <2>2, <3>1, <3>2, Rest, Zenon
  <2>4. Len(wire["R"]) = PacketSize + 4
    <3> HIDE DEF Packet
    <3> QED  BY <1>1, <2>2, <2>3
  <2>5. Needed("R") = BodySize
    BY <1>3 DEF Begun, Needed
  <2> QED  BY <1>1, <2>4, <2>5 DEF Starved
<1>4. CASE Ending
  <2>1. Len(wire["R"]) = 1 /\ Needed("R") = 1
    BY <1>4 DEF Ending, Needed
  <2> QED  BY <2>1 DEF Starved
<1> QED  BY <1>2, <1>3, <1>4

\* While nothing is disturbed, send() keeps the lockstep.
LEMMA SenderClean ==
  ASSUME TypeInv, Clean, SenderStep PROVE Clean'
<1> SUFFICES ASSUME faults' = 0, ~Stopped("R")'
             PROVE  (Shaking \/ Reading \/ Sent \/ Begun \/ Answered \/ Ending \/ Empty \/ Left)'
  BY DEF Clean
<1>1. /\ snd \in SenderStates /\ wire \in Lines /\ "S" \in Sides /\ Peer("S") = "R"
      /\ rcv' = rcv /\ stored' = stored /\ Len(stored) \in Nat /\ N \in Nat
      /\ wire["S"] \in Seq(Bytes) /\ wire["R"] \in Seq(Bytes) /\ snd.packet \in Nat
  BY Counters DEF TypeInv, TypeOK, SenderStates, Lines, Sides, Peer, SenderStep
<1>2. faults = 0 /\ ~Stopped("R")
  <2>1. faults = 0
    BY FaultsGrow DEF Next
  <2> QED  BY <1>1, <2>1 DEF Stopped
<1>3. TimesOut("S") => Starved("S") /\ Starved("R")
  BY <1>1, <1>2, BothStarved
<1>4. ASSUME NEW n \in Nat, NEW bytes \in Seq(Bytes), Pass("S", n, bytes)
      PROVE  /\ wire'["S"] = SubSeq(wire["S"], n + 1, Len(wire["S"]))
             /\ wire["R"] = <<>> => wire'["R"] = bytes
  BY <1>1, <1>2, <1>4, PassEffect, FirstBytes
<1>5. /\ <<>> \in Seq(Bytes) /\ <<EOT>> \in Seq(Bytes) /\ Between' = Between
      /\ \A k \in 1..N : Packet(k) \in Seq(Bytes)
  BY <1>1, ControlBytes, PacketBytes DEF Between
<1>6. CASE Shaking
  <2>1. /\ snd.pc = "hello" /\ snd.packet = 0 /\ wire["S"] = <<CRC>>
        /\ rcv.pc = "hello" /\ Len(stored) = 0 /\ wire["R"] = <<>>
    BY <1>6 DEF Shaking
  <2>2. Len(wire["S"]) = 1 /\ wire["S"] # <<>> /\ Head(wire["S"]) = CRC
    BY <2>1, ShortLines
  <2>3. ~Starved("S")
    BY <2>1, <2>2 DEF Starved, Stopped, Results, Needed
  <2>4. ~NotGreeted
    BY <1>3, <2>2, <2>3 DEF NotGreeted, SReads, Coming, ComesNone, CRC, CAN
  <2>5. Greeted
    BY <2>1, <2>4, SenderLoops
  <2>6. snd'.pc = "next" /\ snd'.packet = 0 /\ Pass("S", 1, <<>>)
    BY <1>1, <2>1, <2>5 DEF Greeted, SenderStates
  <2>7. wire'["S"] = <<>> /\ wire'["R"] = <<>>
    <3>1. 1 \in Nat /\ 1 >= Len(wire["S"])
      BY <2>2
    <3>2. SubSeq(wire["S"], 1 + 1, Len(wire["S"])) = <<>>
      BY <1>1, <3>1, ShortLines, Zenon
    <3> QED  BY <1>4, <1>5, <2>1, <2>6, <3>1, <3>2, Zenon
  <2> QED  BY <1>1, <2>1, <2>6, <2>7 DEF Reading, Between
<1>7. CASE Reading
  <2>1. /\ snd.pc = "next" /\ snd.packet = Len(stored) /\ wire["S"] = <<>>
        /\ rcv.pc = Between /\ wire["R"] = <<>>
    BY <1>7 DEF Reading
  <2>2. ASSUME NEW bytes \in Seq(Bytes), Pass("S", 0, bytes)
        PROVE  wire'["S"] = <<>> /\ wire'["R"] = bytes
    <3>1. 0 \in Nat /\ 0 >= Len(wire["S"])
      BY <2>1
    <3>2. SubSeq(wire["S"], 0 + 1, Len(wire["S"])) = <<>>
      BY <1>1, <3>1, ShortLines, Zenon
    <3> QED  BY <1>4, <2>1, <2>2, <3>1, <3>2, Zenon
  <2>3. CASE NextPacket
    <3>1. snd.packet + 1 \in 1..N
      BY <1>1, <2>3 DEF NextPacket
    <3>2. CASE /\ snd' = [snd EXCEPT !.pc = "ack", !.packet = snd.packet + 1, !.errors = 0]
               /\ Pass("S", 0, Packet(snd.packet + 1))
      <4>1. snd'.pc = "ack" /\ snd'.packet = snd.packet + 1
        BY <1>1, <3>2 DEF SenderStates
      <4>2. wire'["S"] = <<>> /\ wire'["R"] = Packet(snd'.packet)
        BY <1>5, <2>2, <3>1, <3>2, <4>1
      <4>3. dialect' = dialect
        BY DEF SenderStep
      <4>4. (wire["R"] = Packet(snd.packet))'
        BY <4>2, <4>3, Zenon DEF Packet
      <4> QED  BY <1>1, <1>5, <2>1, <4>1, <4>2, <4>4 DEF Sent
    <3>3. CASE SEnds("raised", <<>>)
      <4>1. snd'.pc = "raised" /\ Quit("S", <<>>)
        BY <1>1, <3>3 DEF SEnds, SenderStates
      <4>2. wire'["R"] = <<>>
        BY <1>1, <1>2, <1>5, <2>1, <4>1, FirstBytes
      <4> QED  BY <1>1, <1>5, <2>1, <4>1, <4>2 DEF Left, Stopped, Results
    <3> QED  BY <2>3, <3>2, <3>3 DEF NextPacket
  <2>4. CASE EndOfStream
    <3>1. /\ snd'.pc = "eot" /\ snd.packet = N /\ Pass("S", 0, <<EOT>>)
      BY <1>1, <2>4 DEF EndOfStream, SenderStates
    <3>2. wire'["S"] = <<>> /\ wire'["R"] = <<EOT>>
      BY <1>5, <2>2, <3>1
    <3>3. CASE N = 0
      <4>1. \A i \in 1..Len(wire'["R"]) : wire'["R"][i] \in {EOT, CAN}
        BY <3>2
      <4> QED  BY <1>1, <2>1, <3>1, <3>3, <4>1 DEF Empty, Between
    <3>4. CASE N # 0
      BY <1>1, <2>1, <3>1, <3>2, <3>4 DEF Ending, Between
    <3> QED  BY <3>3, <3>4
  <2> QED  BY <2>1, <2>3, <2>4, SenderLoops
<1>8. CASE Sent \/ Begun
  <2>1. snd.pc = "ack" /\ wire["S"] = <<>> /\ ~Starved("R")
    BY <1>2, <1>8, NotStarved DEF Sent, Begun
  <2> QED  BY <1>3, <2>1, SenderLoops DEF Acknowledged, PacketRefused, PacketUnanswered,
                                          SReads, Coming, ComesNone
<1>9. CASE Answered
  <2>1. /\ snd.pc = "ack" /\ snd.packet = Len(stored) /\ wire["S"] = <<ACK>>
        /\ rcv.pc = "byte" /\ wire["R"] = <<>>
    BY <1>9 DEF Answered
  <2>2. Len(wire["S"]) = 1 /\ wire["S"] # <<>> /\ Head(wire["S"]) = ACK
    BY <2>1, ShortLines
  <2>3. ~Starved("S")
    BY <2>1, <2>2 DEF Starved, Stopped, Results, Needed
  <2>4. ~PacketRefused /\ ~PacketUnanswered
    BY <1>3, <2>2, <2>3 DEF PacketRefused, PacketUnanswered, SReads, Coming, ComesNone, ACK, NAK
  <2>5. snd'.pc = "next" /\ snd'.packet = snd.packet /\ Pass("S", 1, <<>>)
    BY <1>1, <2>1, <2>4, SenderLoops DEF Acknowledged, SenderStates
  <2>6. wire'["S"] = <<>> /\ wire'["R"] = <<>>
    <3>1. 1 \in Nat /\ 1 >= Len(wire["S"])
      BY <2>2
    <3>2. SubSeq(wire["S"], 1 + 1, Len(wire["S"])) = <<>>
      BY <1>1, <3>1, ShortLines, Zenon
    <3> QED  BY <1>4, <1>5, <2>1, <2>5, <3>1, <3>2, Zenon
  <2>7. Len(stored) # 0
    <3>1. snd.packet \in 1..N
      BY <2>1 DEF TypeInv
    <3> QED  BY <1>1, <2>1, <3>1
  <2> QED  BY <1>1, <1>5, <2>1, <2>5, <2>6, <2>7 DEF Reading, Between
<1>10. CASE Ending
  <2>1. snd.pc = "eot" /\ wire["S"] = <<>> /\ ~Starved("R")
    BY <1>2, <1>10, NotStarved DEF Ending
  <2> QED  BY <1>3, <2>1, SenderLoops DEF EotAcknowledged, EotUnanswered, SReads, Coming, ComesNone
<1>11. CASE Empty
  <2>1. /\ N = 0 /\ rcv.pc = "hello"
        /\ \A i \in 1..Len(wire["R"]) : wire["R"][i] \in {EOT, CAN}
    BY <1>11 DEF Empty
  <2>2. PICK bytes \in SenderWrites : (\E n \in Nat : Pass("S", n, bytes)) \/ Quit("S", bytes)
    BY SenderSteps
  <2>3. bytes \in {<<>>, <<EOT>>, <<CAN, CAN>>}
    BY <2>1 DEF SenderWrites
  <2>4. bytes \in Seq(Bytes) /\ \A i \in 1..Len(bytes) : bytes[i] \in {EOT, CAN}
    <3>1. CASE bytes = <<>>
      BY <3>1
    <3>2. CASE bytes = <<EOT>>
      BY <3>2, ControlBytes
    <3>3. CASE bytes = <<CAN, CAN>>
      BY <3>3, ControlBytes
    <3> QED  BY <2>3, <3>1, <3>2, <3>3
  <2>5. wire'["R"] = wire["R"] \o bytes
    BY <1>1, <1>2, <2>2, <2>4, PassEffect, QuitEffect
  <2>6. ASSUME NEW i \in 1..Len(wire["R"] \o bytes) PROVE (wire["R"] \o bytes)[i] \in {EOT, CAN}
    <3> DEFINE w == wire["R"]
    <3>1. /\ Len(w \o bytes) = Len(w) + Len(bytes) /\ Len(w) \in Nat /\ Len(bytes) \in Nat
          /\ \A h \in 1..Len(w) : (w \o bytes)[h] = w[h]
          /\ \A h \in 1..Len(bytes) : (w \o bytes)[Len(w) + h] = bytes[h]
      BY <1>1, <2>4, Joined
    <3>2. CASE i <= Len(w)
      BY <2>1, <3>1, <3>2
    <3>3. CASE i > Len(w)
      <4>1. i - Len(w) \in 1..Len(bytes) /\ i = Len(w) + (i - Len(w))
        BY <3>1, <3>3
      <4> QED  BY <2>4, <3>1, <4>1
    <3> QED  BY <3>1, <3>2, <3>3
  <2> QED  BY <1>1, <2>1, <2>5, <2>6 DEF Empty
<1>12. CASE Left
  BY <1>12, SenderLoops DEF Left, Stopped, Results
<1> QED  BY <1>2, <1>6, <1>7, <1>8, <1>9, <1>10, <1>11, <1>12 DEF Clean

\* A step of recv() after which its loop goes on.
LEMMA ReceiverLoops ==
  ASSUME TypeInv, ReceiverStep, ~Stopped("R")'
  PROVE  \/ /\ rcv.pc = "hello" /\ rcv'.pc = "hello" /\ stored' = stored
            /\ TimesOut("R") \/ RReads("hello", CAN) \/ ComesNone("R", Starts \cup {CAN})
            /\ \E b \in {CRC, NAK} : Pass("R", Read("R"), <<b>>)
         \/ /\ rcv.pc \in {"hello", "byte"} /\ PacketStarts /\ stored' = stored
         \/ rcv.pc = "packet" /\ (PacketGood \/ PacketBad)
<1>1. rcv \in ReceiverStates
  BY DEF TypeInv, TypeOK, ReceiverStates
<1>2. \A r \in Results : \A bytes : ~REnds(r, bytes)
  BY <1>1 DEF REnds, Stopped, ReceiverStates
<1>3. {"done", "failed", "raised"} = Results
  BY DEF Results
<1>4. ASSUME NEW errors, NEW cancel, Ask(errors, cancel), rcv.pc = "hello"
      PROVE  rcv'.pc = "hello" /\ \E b \in {CRC, NAK} : Pass("R", Read("R"), <<b>>)
  <2>1. ~REnds("failed", <<CAN, CAN>>)
    BY <1>2, <1>3
  <2>2. /\ rcv' = [rcv EXCEPT !.errors = errors, !.crc = rcv.crc /\ 2 * errors < Retry, !.cancel = cancel]
        /\ \E b \in {CRC, NAK} : Pass("R", Read("R"), <<b>>)
    BY <1>4, <2>1 DEF Ask
  <2> QED  BY <1>1, <1>4, <2>2 DEF ReceiverStates
<1>5. CASE AskAgain /\ UNCHANGED stored
  BY <1>4, <1>5 DEF AskAgain
<1>6. CASE PacketStarts /\ UNCHANGED stored
  BY <1>6 DEF PacketStarts, RReads
<1>7. CASE AskCancelled \/ EndOfTransmission \/ CancelByte \/ ByteRaises \/ PacketRaises
  BY <1>2, <1>3, <1>7 DEF AskCancelled, EndOfTransmission, CancelByte, ByteRaises, PacketRaises
<1>8. CASE PacketGood \/ PacketBad
  BY <1>8 DEF PacketGood, PacketBad, BodyRead
<1> QED  BY <1>5, <1>6, <1>7, <1>8 DEF ReceiverStep

\* A packet whose first byte was read, and that is undamaged, is not refused.
LEMMA BegunIsGood ==
  ASSUME TypeInv, Begun PROVE ~PacketBad
<1> DEFINE k == snd.packet
           p == Packet(k)
           w == wire["R"]
           m == IF Len(w) < BodySize THEN Len(w) ELSE BodySize
<1> SUFFICES ASSUME Len(Body) >= 2
             PROVE  /\ InSequence /\ k \in 1..N
                    /\ rcv.crc /\ Len(Data) >= 2 => Genuine(k)
  <2>1. Unusable => Len(Body) >= 2
    BY DEF Unusable, LooksInSequence
  <2> HIDE DEF k
  <2> QED  BY <2>1 DEF PacketBad, Unusable
<1>1. k \in 1..N /\ k = Len(stored) + 1 /\ w = SubSeq(p, 2, Len(p)) /\ rcv.size = PacketSize
  BY DEF Begun, TypeInv
<1>2. PacketSize \in Nat \ {0} /\ SeqMod \in 4..256 /\ k \in Nat
  BY <1>1, XPacketAssumption
<1>3. /\ p \in Seq(Bytes) /\ Len(p) = PacketSize + 5
      /\ p[2] = k % SeqMod /\ p[3] = SeqMod - 1 - (k % SeqMod)
      /\ \A i \in 4..PacketSize + 3 : p[i] = Cell(k)
      /\ p[PacketSize + 4] = Crc(k) /\ p[PacketSize + 5] = Crc(k)
  BY <1>1, PacketBytes
<1> HIDE DEF p
<1>4. Len(w) = PacketSize + 4 /\ \A i \in 1..PacketSize + 4 : w[i] = p[1 + i]
  <2>1. w = SubSeq(p, 1 + 1, Len(p)) /\ 1 \in Nat
    BY <1>1
  <2> HIDE DEF w, k
  <2>2. /\ Len(w) = IF 1 < Len(p) THEN Len(p) - 1 ELSE 0
        /\ \A i \in 1..Len(p) - 1 : w[i] = p[1 + i]
    BY <1>3, <2>1, Rest, Zenon
  <2> QED  BY <1>2, <1>3, <2>2
<1>5. /\ m \in Nat /\ m <= Len(w) /\ Len(Body) = m
      /\ \A i \in 1..m : Body[i] = w[i]
      /\ m >= 2 => /\ Data \in Seq(Bytes) /\ Len(Data) = m - 2
                   /\ \A i \in 1..m - 2 : Data[i] = w[2 + i]
  BY BodyBytes
<1>6. m >= 2
  <2> HIDE DEF m
  <2> QED  BY <1>5
<1>7. w[1] = k % SeqMod /\ w[2] = SeqMod - 1 - (k % SeqMod)
  <2>1. 1 \in 1..PacketSize + 4 /\ 2 \in 1..PacketSize + 4 /\ 1 + 1 = 2 /\ 1 + 2 = 3
    BY <1>2
  <2> HIDE DEF w, k
  <2> QED  BY <1>3, <1>4, <2>1
<1>8. InSequence
  <2>1. 1 \in 1..m /\ 2 \in 1..m
    BY <1>5, <1>6
  <2>2. Body[1] = k % SeqMod /\ Body[2] = SeqMod - 1 - (k % SeqMod)
    BY <1>5, <1>7, <2>1
  <2>3. k % SeqMod \in 0..255
    BY <1>2, NumberBytes
  <2> HIDE DEF k, m, w
  <2>4. SeqMod - 1 - Body[2] = k % SeqMod
    BY <1>2, <2>2, <2>3
  <2> QED  BY <1>1, <2>2, <2>4 DEF InSequence, Sequence
<1>10. ASSUME rcv.crc PROVE Genuine(k)
  <2>9. m = PacketSize + 4
    <3>1. BodySize = PacketSize + 4
      BY <1>1, <1>2, <1>10 DEF BodySize
    <3> QED  BY <1>2, <1>4, <3>1
  <2> DEFINE d == [i \in 1..PacketSize |-> Cell(k)] \o <<Crc(k), Crc(k)>>
  <2>3. /\ d \in Seq(Bytes) /\ Len(d) = PacketSize + 2
        /\ \A i \in 1..PacketSize : d[i] = Cell(k)
        /\ d[PacketSize + 1] = Crc(k) /\ d[PacketSize + 2] = Crc(k)
    BY <1>1, ContentsBytes
  <2> HIDE DEF d, k, w, m
  <2>4. /\ Data \in Seq(Bytes) /\ Len(Data) = PacketSize + 2
        /\ \A i \in 1..PacketSize + 2 : Data[i] = p[3 + i]
    <3>1. (PacketSize + 4) - 2 = PacketSize + 2
      BY <1>2
    <3>2. Data \in Seq(Bytes) /\ Len(Data) = PacketSize + 2
          /\ \A i \in 1..PacketSize + 2 : Data[i] = w[2 + i]
      BY <1>5, <1>6, <2>9, <3>1
    <3>3. ASSUME NEW i \in 1..PacketSize + 2 PROVE w[2 + i] = p[3 + i]
      <4>1. 2 + i \in 1..PacketSize + 4 /\ 1 + (2 + i) = 3 + i
        BY <1>2
      <4> QED  BY <1>4, <4>1
    <3> QED  BY <3>2, <3>3
  <2>5. ASSUME NEW i \in 1..PacketSize + 2 PROVE Data[i] = d[i]
    <3>1. CASE i <= PacketSize
      <4>1. 3 + i \in 4..PacketSize + 3 /\ i \in 1..PacketSize
        BY <1>2, <3>1
      <4> QED  BY <1>3, <2>3, <2>4, <4>1
    <3>2. CASE i = PacketSize + 1
      <4>1. 3 + i = PacketSize + 4
        BY <1>2, <3>2
      <4> QED  BY <1>3, <2>3, <2>4, <3>2, <4>1
    <3>3. CASE i = PacketSize + 2
      <4>1. 3 + i = PacketSize + 5
        BY <1>2, <3>3
      <4> QED  BY <1>3, <2>3, <2>4, <3>3, <4>1
    <3>4. i <= PacketSize \/ i = PacketSize + 1 \/ i = PacketSize + 2
      BY <1>2
    <3> QED  BY <3>1, <3>2, <3>3, <3>4
  <2>6. Data = d
    BY <2>3, <2>4, <2>5, SeqEqual
  <2> QED  BY <1>8, <1>10, <2>6 DEF Genuine, d
<1> QED  BY <1>1, <1>8, <1>10

\* While nothing is disturbed, recv() keeps the lockstep.
LEMMA ReceiverClean ==
  ASSUME CodeLimits, TypeInv, Clean, ReceiverStep PROVE Clean'
<1> SUFFICES ASSUME faults' = 0, ~Stopped("R")'
             PROVE  (Shaking \/ Reading \/ Sent \/ Begun \/ Answered \/ Ending \/ Empty \/ Left)'
  BY DEF Clean
<1> DEFINE w == wire["R"]
           Asks == /\ rcv.pc = "hello" /\ rcv'.pc = "hello" /\ stored' = stored
                   /\ TimesOut("R") \/ RReads("hello", CAN) \/ ComesNone("R", Starts \cup {CAN})
                   /\ \E b \in {CRC, NAK} : Pass("R", Read("R"), <<b>>)
           Begins == rcv.pc \in {"hello", "byte"} /\ PacketStarts /\ stored' = stored
           Ends == rcv.pc = "packet" /\ (PacketGood \/ PacketBad)
<1>1. /\ rcv \in ReceiverStates /\ wire \in Lines /\ "R" \in Sides /\ Peer("R") = "S"
      /\ snd' = snd /\ dialect' = dialect /\ Len(stored) \in Nat /\ N \in Nat /\ w \in Seq(Bytes)
      /\ stored \in Seq(1..N) /\ snd.packet \in Nat
  BY Counters DEF TypeInv, TypeOK, ReceiverStates, SenderStates, Lines, Sides, Peer, ReceiverStep
<1>2. Asks \/ Begins \/ Ends
  BY ReceiverLoops
<1>3. faults = 0 /\ ~Stopped("R")
  <2>1. faults = 0
    BY FaultsGrow DEF Next
  <2>2. rcv.pc \in {"hello", "byte", "packet"}
    BY <1>2
  <2> QED  BY <2>1, <2>2 DEF Stopped, Results
<1>4. TimesOut("R") => Starved("R") /\ Starved("S")
  BY <1>1, <1>3, BothStarved
<1>5. ASSUME w = <<>> PROVE ~Begins
  BY <1>5 DEF PacketStarts, RReads
<1>6. ASSUME Asks, w = <<>> PROVE Starved("S")
  BY <1>4, <1>6 DEF RReads, ComesNone
<1>7. ASSUME NEW n \in Nat, NEW bytes \in Seq(Bytes), Pass("R", n, bytes)
      PROVE  /\ wire'["R"] = SubSeq(w, n + 1, Len(w))
             /\ ~Stopped("S") /\ wire["S"] = <<>> => wire'["S"] = bytes
  BY <1>1, <1>7, PassEffect, FirstBytes
<1>8. Read("R") \in Nat /\ <<>> \in Seq(Bytes) /\ \A b \in {CRC, NAK, ACK} : <<b>> \in Seq(Bytes)
  BY ControlBytes DEF Read
<1>9. CASE Shaking
  <2>1. rcv.pc = "hello" /\ w = <<>> /\ wire["S"] = <<CRC>> /\ snd.pc = "hello"
    BY <1>9 DEF Shaking
  <2>2. Len(wire["S"]) = 1
    BY <2>1, ShortLines
  <2>3. ~Starved("S")
    BY <2>1, <2>2 DEF Starved, Stopped, Results, Needed
  <2> QED  BY <1>2, <1>5, <1>6, <2>1, <2>3
<1>10. CASE Reading
  <2>1. rcv.pc = Between /\ w = <<>> /\ snd.pc = "next"
    BY <1>10 DEF Reading
  <2>2. ~Starved("S")
    BY <2>1 DEF Starved, Stopped, Results
  <2> QED  BY <1>2, <1>5, <1>6, <2>1, <2>2 DEF Between
<1>11. CASE Sent
  <2>1. /\ snd.pc = "ack" /\ snd.packet = Len(stored) + 1 /\ wire["S"] = <<>>
        /\ rcv.pc = Between /\ w = Packet(snd.packet) /\ snd.packet \in 1..N
    BY <1>11 DEF Sent, TypeInv
  <2>2. w # <<>> /\ Head(w) = First
    <3>1. Len(w) = PacketSize + 5 /\ w[1] = First /\ PacketSize \in Nat
      BY <2>1, PacketBytes, XPacketAssumption
    <3>2. w # <<>>
      BY <3>1
    <3>3. Head(w) = w[1]
      BY <1>1
    <3> QED  BY <3>1, <3>2, <3>3
  <2>3. ~Asks
    <3>1. ~Starved("R")
      BY <1>3, <1>11, NotStarved
    <3>2. First \in Starts /\ First # CAN
      BY DEF First, Starts, SOH, STX, CAN
    <3>3. ~MayBe(First, CAN)
      BY <3>2, FirstPlain
    <3> QED  BY <1>4, <2>2, <3>1, <3>2, <3>3 DEF RReads, ComesNone
  <2>4. PacketStarts /\ stored' = stored
    BY <1>2, <2>1, <2>3 DEF Between
  <2>5. rcv'.pc = "packet" /\ rcv'.size = PacketSize /\ Pass("R", 1, <<>>)
    <3>1. PICK b : /\ MayBe(First, b) /\ Pass("R", 1, <<>>)
                   /\ rcv' = [rcv EXCEPT !.pc = "packet", !.errors = 0, !.cancel = FALSE,
                                         !.size = SizeAfter(b)]
      BY <2>2, <2>4 DEF PacketStarts, RReads
    <3>2. b = First
      BY <3>1, FirstPlain
    <3>3. SizeAfter(First) = PacketSize
      BY DEF SizeAfter, First, SOH, STX
    <3> QED  BY <1>1, <3>1, <3>2, <3>3 DEF ReceiverStates
  <2>6. wire'["R"] = SubSeq(w, 2, Len(w)) /\ wire'["S"] = <<>>
    <3>1. 1 \in Nat /\ 1 + 1 = 2 /\ ~Stopped("S")
      BY <2>1 DEF Stopped, Results
    <3> QED  BY <1>7, <1>8, <2>1, <2>5, <3>1
  <2>7. (wire["R"] = SubSeq(Packet(snd.packet), 2, Len(Packet(snd.packet))))'
    BY <1>1, <2>1, <2>6, Zenon DEF Packet
  <2> QED  BY <1>1, <2>1, <2>4, <2>5, <2>6, <2>7 DEF Begun
<1>12. CASE Begun
  <2>1. /\ snd.pc = "ack" /\ snd.packet = Len(stored) + 1 /\ wire["S"] = <<>>
        /\ rcv.pc = "packet" /\ snd.packet \in 1..N
        /\ w = SubSeq(Packet(snd.packet), 2, Len(Packet(snd.packet)))
    BY <1>12 DEF Begun, TypeInv
  <2>2. PacketGood
    BY <1>2, <1>12, <2>1, BegunIsGood
  <2>3. BodySize = PacketSize + 4 /\ \E k \in 1..N : stored' = Append(stored, k)
    BY <2>2, GoodPacket
  <2>4. Len(stored') = Len(stored) + 1
    BY <1>1, <2>3
  <2>5. rcv'.pc = "byte" /\ Pass("R", BodySize, <<ACK>>)
    BY <1>1, <2>2 DEF PacketGood, ReceiverStates
  <2>6. Len(w) <= BodySize /\ BodySize \in Nat
    <3>1. Packet(snd.packet) \in Seq(Bytes) /\ Len(Packet(snd.packet)) = PacketSize + 5
      BY <2>1, PacketBytes
    <3>2. PacketSize \in Nat /\ 1 \in Nat /\ 1 + 1 = 2
      BY XPacketAssumption
    <3> DEFINE p == Packet(snd.packet)
    <3>3. p \in Seq(Bytes) /\ Len(p) = PacketSize + 5 /\ w = SubSeq(p, 1 + 1, Len(p))
      BY <2>1, <3>1, <3>2
    <3> HIDE DEF p, w
    <3>4. Len(w) = IF 1 < Len(p) THEN Len(p) - 1 ELSE 0
      BY <3>2, <3>3, Rest, Zenon
    <3> QED  BY <2>3, <3>2, <3>3, <3>4
  <2>7. wire'["R"] = <<>> /\ wire'["S"] = <<ACK>>
    <3>1. ~Stopped("S")
      BY <2>1 DEF Stopped, Results
    <3>2. wire'["R"] = SubSeq(w, BodySize + 1, Len(w)) /\ wire'["S"] = <<ACK>>
      BY <1>7, <1>8, <2>1, <2>5, <2>6, <3>1
    <3>3. BodySize >= Len(w)
      BY <1>1, <2>6
    <3>4. SubSeq(w, BodySize + 1, Len(w)) = <<>>
      BY <1>1, <2>6, <3>3, ShortLines, Zenon
    <3> QED  BY <3>2, <3>4
  <2> QED  BY <1>1, <2>1, <2>4, <2>5, <2>7 DEF Answered
<1>13. CASE Answered \/ Ending
  <2>1. rcv.pc = "byte" /\ (w = <<>> \/ w = <<EOT>>)
    BY <1>13 DEF Answered, Ending
  <2>2. PacketStarts
    BY <1>2, <2>1
  <2>3. w # <<>> /\ \E b \in {SOH, STX} : MayBe(Head(w), b)
    BY <2>2 DEF PacketStarts, RReads, Starts
  <2>4. w = <<EOT>> /\ Head(w) = EOT
    BY <2>1, <2>3, ShortLines
  <2> QED  BY <2>3, <2>4, ControlsPlain DEF SOH, STX, EOT
<1>14. CASE Empty
  <2>1. N = 0 /\ rcv.pc = "hello" /\ \A i \in 1..Len(w) : w[i] \in {EOT, CAN}
    BY <1>14 DEF Empty
  <2>2. ASSUME w # <<>> PROVE Head(w) \in {EOT, CAN}
    <3>1. Head(w) = w[1] /\ 1 \in 1..Len(w)
      BY <1>1, <2>2
    <3> QED  BY <2>1, <3>1
  <2>3. ~Begins
    <3> SUFFICES ASSUME Begins PROVE FALSE
      OBVIOUS
    <3>1. w # <<>> /\ \E b \in {SOH, STX} : MayBe(Head(w), b)
      BY DEF PacketStarts, RReads, Starts
    <3> QED  BY <2>2, <3>1, ControlsPlain DEF SOH, STX, EOT, CAN
  <2>4. Asks
    BY <1>2, <2>1, <2>3
  <2>5. PICK n \in Nat : wire'["R"] = SubSeq(w, n + 1, Len(w))
    BY <1>7, <1>8, <2>4
  <2>6. \A i \in 1..Len(SubSeq(w, n + 1, Len(w))) : SubSeq(w, n + 1, Len(w))[i] \in {EOT, CAN}
    <3> DEFINE t == SubSeq(w, n + 1, Len(w))
    <3>1. /\ Len(t) = IF n < Len(w) THEN Len(w) - n ELSE 0
          /\ \A i \in 1..Len(w) - n : t[i] = w[n + i]
      BY <1>1, Rest
    <3>2. Len(w) \in Nat
      BY <1>1
    <3> HIDE DEF t, w
    <3>3. \A i \in 1..Len(t) : n + i \in 1..Len(w) /\ t[i] = w[n + i]
      BY <3>1, <3>2
    <3>4. \A i \in 1..Len(t) : t[i] \in {EOT, CAN}
      BY <2>1, <3>3
    <3> QED  BY <3>4 DEF t
  <2> QED  BY <2>1, <2>4, <2>5, <2>6 DEF Empty
<1>15. CASE Left
  <2>1. Stopped("S") /\ rcv.pc = Between /\ w = <<>>
    BY <1>15 DEF Left
  <2>2. Asks
    BY <1>2, <1>5, <2>1 DEF Between
  <2>3. wire'["R"] = <<>>
    <3>1. PICK n \in Nat : wire'["R"] = SubSeq(w, n + 1, Len(w))
      BY <1>7, <1>8, <2>2
    <3>2. n >= Len(w)
      BY <2>1
    <3> QED  BY <1>1, <2>1, <3>1, <3>2, ShortLines, Zenon
  <2> QED  BY <1>1, <2>1, <2>2, <2>3 DEF Left, Stopped, Between
<1> QED  BY <1>3, <1>9, <1>10, <1>11, <1>12, <1>13, <1>14, <1>15 DEF Clean

\* The lockstep begins with the C of recv() on the line.
LEMMA InitClean == Init => Clean
BY DEF Init, Clean, Shaking, Sides

\* Every undisturbed step keeps the lockstep; a fault ends it.
LEMMA NextClean ==
  ASSUME CodeLimits PROVE TypeInv /\ Clean /\ [Next]_vars => Clean'
<1> SUFFICES ASSUME TypeInv, Clean, [Next]_vars PROVE Clean'
  OBVIOUS
<1>1. CASE Fault
  <2>1. faults' # 0
    BY <1>1 DEF Fault, TypeInv, TypeOK
  <2> QED  BY <2>1 DEF Clean
<1>2. CASE UNCHANGED vars
  BY <1>2 DEF vars, Clean, Shaking, Reading, Sent, Begun, Answered, Ending, Empty, Left,
              Stopped, Between, Packet
<1> QED  BY <1>1, <1>2, SenderClean, ReceiverClean DEF Next, Terminated

-----------------------------------------------------------------------------
(***************************************************************************)
(* Where contents can be read for the first byte of a packet.              *)
(***************************************************************************)
Contents == {Cell(k) : k \in 1..N}
Sums == {Crc(k) : k \in 1..N}

\* Behind the CRC of a packet there is a header before the next contents, and contents
\* before the next CRC; n bytes may be missing.
Spaced(w, n) ==
  \A i, h \in 1..Len(w) : i < h /\ w[i] \in Sums =>
    /\ w[h] \in Contents => h - i + n >= 4
    /\ w[h] \in Sums => h = i + 1 \/ h - i + n >= 5

\* At the end of a good packet the header of the next one is ahead.
HeaderAhead(w, n) == \A h \in 1..Len(w) : w[h] \in Contents \cup Sums => h + n >= 4

Placed ==
  ~Stopped("R") =>
    /\ Spaced(wire["R"], faults)
    /\ rcv.pc = "byte" => HeaderAhead(wire["R"], faults)

\* Contents and CRC are two things, and no byte of another kind is one of them.
LEMMA CellValues ==
  /\ \A b \in Contents : b \notin Sums
  /\ \A b \in 0..255 : b \notin Contents /\ b \notin Sums
  /\ \A b \in {Noise, CAN, EOT, SOH, STX} : b \notin Contents /\ b \notin Sums
<1>1. \A k \in 1..N : k \in Nat
  BY XPacketAssumption
<1>2. \A b \in Contents : b \in Nat /\ b >= 1000 /\ \E k \in Nat : b = Cell(k)
  BY <1>1, ByteValues DEF Contents
<1>3. \A b \in Sums : b \in Nat /\ b >= 1000 /\ \E k \in Nat : b = Crc(k)
  BY <1>1, ByteValues DEF Sums
<1>4. \A b \in Contents : b \notin Sums
  BY <1>2, <1>3, ByteValues
<1>5. \A b \in 0..255 : b \notin Contents /\ b \notin Sums
  BY <1>2, <1>3
<1>6. \A b \in {Noise, CAN, EOT, SOH, STX} : b \notin Contents /\ b \notin Sums
  BY <1>2, <1>3 DEF Noise, CAN, EOT, SOH, STX
<1> QED  BY <1>4, <1>5, <1>6

\* Bytes that are lost or damaged bring contents no nearer than their number allows.
LEMMA SpacedThinned ==
  ASSUME NEW s \in Seq(Bytes), NEW t \in Seq(Bytes), NEW d \in Nat, NEW n \in Nat,
         NEW n2 \in Nat, n + d <= n2, Spaced(s, n), Thins(t, s, d)
  PROVE  Spaced(t, n2)
<1>1. PICK f \in [1..Len(t) -> 1..Len(s)] :
        /\ \A i \in 1..Len(t) : t[i] = s[f[i]] \/ t[i] \in {Noise, CAN}
        /\ \A i, h \in 1..Len(t) : i < h => f[i] < f[h] /\ f[h] - f[i] <= h - i + d
  BY DEF Thins
<1> SUFFICES ASSUME NEW i \in 1..Len(t), NEW h \in 1..Len(t), i < h, t[i] \in Sums
             PROVE  /\ t[h] \in Contents => h - i + n2 >= 4
                    /\ t[h] \in Sums => h = i + 1 \/ h - i + n2 >= 5
  BY DEF Spaced
<1>2. \A m \in 1..Len(t) : t[m] \in Contents \cup Sums => t[m] = s[f[m]]
  <2>1. \A b \in {Noise, CAN} : b \notin Contents \cup Sums
    BY CellValues
  <2> QED  BY <1>1, <2>1
<1>3. f[i] \in 1..Len(s) /\ f[h] \in 1..Len(s) /\ f[i] < f[h] /\ f[h] - f[i] <= h - i + d
  BY <1>1
<1>4. s[f[i]] \in Sums
  BY <1>2
<1>5. /\ s[f[h]] \in Contents => f[h] - f[i] + n >= 4
      /\ s[f[h]] \in Sums => f[h] = f[i] + 1 \/ f[h] - f[i] + n >= 5
  BY <1>3, <1>4 DEF Spaced
<1>6. Len(s) \in Nat /\ Len(t) \in Nat
  OBVIOUS
<1>7. ASSUME t[h] \in Contents PROVE h - i + n2 >= 4
  BY <1>2, <1>3, <1>5, <1>6, <1>7
<1>8. ASSUME t[h] \in Sums, h # i + 1 PROVE h - i + n2 >= 5
  <2>1. f[h] = f[i] + 1 \/ f[h] - f[i] + n >= 5
    BY <1>2, <1>5, <1>8
  <2>2. f[h] # f[i] + 1
    <3>1. i + 1 \in 1..Len(t) /\ i < i + 1 /\ i + 1 < h
      BY <1>6, <1>8
    <3>2. f[i] < f[i + 1] /\ f[i + 1] < f[h] /\ f[i + 1] \in 1..Len(s)
      BY <1>1, <3>1
    <3> QED  BY <1>3, <1>6, <3>2
  <2> QED  BY <1>3, <1>6, <2>1, <2>2
<1> QED  BY <1>7, <1>8

\* A packet, and what else send() writes, can be added.
LEMMA SpacedJoined ==
  ASSUME NEW w \in Seq(Bytes), NEW n \in Nat, NEW bytes \in SenderWrites, Spaced(w, n)
  PROVE  /\ Spaced(w \o bytes, n)
         /\ HeaderAhead(w, n) => HeaderAhead(w \o bytes, n)
<1> DEFINE t == w \o bytes
<1>1. bytes \in Seq(Bytes) /\ PacketSize \in Nat \ {0}
  BY WritesType, XPacketAssumption
<1>2. /\ t \in Seq(Bytes) /\ Len(t) = Len(w) + Len(bytes) /\ Len(w) \in Nat /\ Len(bytes) \in Nat
      /\ \A i \in 1..Len(w) : t[i] = w[i]
      /\ \A i \in 1..Len(bytes) : t[Len(w) + i] = bytes[i]
  BY <1>1, Joined
<1>3. \A i \in 1..Len(bytes) :
        /\ bytes[i] \in Contents => i >= 4 /\ i <= PacketSize + 3
        /\ bytes[i] \in Sums => i \in {PacketSize + 4, PacketSize + 5}
  <2>1. CASE bytes \in {<<>>, <<EOT>>, <<CAN, CAN>>}
    <3>1. \A i \in 1..Len(bytes) : bytes[i] \in {EOT, CAN}
      BY <2>1
    <3>2. \A b \in {EOT, CAN} : b \notin Contents /\ b \notin Sums
      BY CellValues
    <3> QED  BY <3>1, <3>2
  <2>2. ASSUME NEW k \in 1..N, bytes = Packet(k)
        PROVE  \A i \in 1..Len(bytes) :
                 /\ bytes[i] \in Contents => i >= 4 /\ i <= PacketSize + 3
                 /\ bytes[i] \in Sums => i \in {PacketSize + 4, PacketSize + 5}
    <3>1. /\ Len(bytes) = PacketSize + 5
          /\ bytes[1] = First /\ bytes[2] = k % SeqMod /\ bytes[3] = SeqMod - 1 - (k % SeqMod)
          /\ \A i \in 4..PacketSize + 3 : bytes[i] = Cell(k)
          /\ bytes[PacketSize + 4] = Crc(k) /\ bytes[PacketSize + 5] = Crc(k)
      BY <2>2, PacketBytes, Zenon
    <3>2. \A b \in {bytes[1], bytes[2], bytes[3]} : b \notin Contents /\ b \notin Sums
      <4>1. k \in Nat
        BY XPacketAssumption
      <4>2. k % SeqMod \in 0..255 /\ SeqMod - 1 - (k % SeqMod) \in 0..255
        BY <4>1, NumberBytes
      <4>3. First \in {SOH, STX}
        BY DEF First
      <4> QED  BY <3>1, <4>2, <4>3, CellValues
    <3>3. Cell(k) \notin Sums /\ Crc(k) \notin Contents
      <4>1. Cell(k) \in Contents /\ Crc(k) \in Sums
        BY DEF Contents, Sums
      <4> QED  BY <4>1, CellValues
    <3>4. ASSUME NEW i \in 1..Len(bytes)
          PROVE  \/ bytes[i] \notin Contents /\ bytes[i] \notin Sums
                 \/ i \in 4..PacketSize + 3 /\ bytes[i] \notin Sums
                 \/ i \in {PacketSize + 4, PacketSize + 5} /\ bytes[i] \notin Contents
      <4>1. \/ i = 1 \/ i = 2 \/ i = 3
            \/ i \in 4..PacketSize + 3 \/ i \in {PacketSize + 4, PacketSize + 5}
        BY <1>1, <3>1
      <4>2. CASE i = 1 \/ i = 2 \/ i = 3
        BY <3>2, <4>2
      <4>3. CASE i \in 4..PacketSize + 3
        BY <3>1, <3>3, <4>3
      <4>4. CASE i \in {PacketSize + 4, PacketSize + 5}
        BY <3>1, <3>3, <4>4
      <4> QED  BY <4>1, <4>2, <4>3, <4>4
    <3> QED  BY <1>1, <3>4
  <2> QED  BY <2>1, <2>2 DEF SenderWrites
<1> HIDE DEF t
<1>4. \A h \in 1..Len(t) : \/ h \in 1..Len(w) /\ t[h] = w[h]
                           \/ h - Len(w) \in 1..Len(bytes) /\ t[h] = bytes[h - Len(w)]
  <2> TAKE h \in 1..Len(t)
  <2>1. CASE h <= Len(w)
    BY <1>2, <2>1
  <2>2. CASE ~(h <= Len(w))
    <3>1. h - Len(w) \in 1..Len(bytes) /\ Len(w) + (h - Len(w)) = h
      BY <1>2, <2>2
    <3> QED  BY <1>2, <3>1
  <2> QED  BY <2>1, <2>2
<1>5. ASSUME NEW i \in 1..Len(t), NEW h \in 1..Len(t), i < h, t[i] \in Sums
      PROVE  /\ t[h] \in Contents => h - i + n >= 4
             /\ t[h] \in Sums => h = i + 1 \/ h - i + n >= 5
  <2>1. CASE h \in 1..Len(w) /\ t[h] = w[h]
    <3>1. i \in 1..Len(w) /\ t[i] = w[i]
      BY <1>2, <1>5, <2>1
    <3> QED  BY <1>5, <2>1, <3>1 DEF Spaced
  <2>2. CASE h - Len(w) \in 1..Len(bytes) /\ t[h] = bytes[h - Len(w)]
    <3>1. /\ t[h] \in Contents => h - Len(w) >= 4 /\ h - Len(w) <= PacketSize + 3
          /\ t[h] \in Sums => h - Len(w) \in {PacketSize + 4, PacketSize + 5}
      BY <1>3, <2>2
    <3>2. CASE i \in 1..Len(w)
      BY <1>1, <1>2, <3>1, <3>2
    <3>3. CASE i - Len(w) \in 1..Len(bytes) /\ t[i] = bytes[i - Len(w)]
      <4>1. i - Len(w) \in {PacketSize + 4, PacketSize + 5}
        BY <1>3, <1>5, <3>3
      <4> QED  BY <1>1, <1>2, <1>5, <3>1, <4>1
    <3> QED  BY <1>4, <3>2, <3>3
  <2> QED  BY <1>4, <2>1, <2>2
<1>6. ASSUME HeaderAhead(w, n), NEW h \in 1..Len(t), t[h] \in Contents \cup Sums PROVE h + n >= 4
  <2>1. CASE h \in 1..Len(w) /\ t[h] = w[h]
    BY <1>6, <2>1 DEF HeaderAhead
  <2>2. CASE h - Len(w) \in 1..Len(bytes) /\ t[h] = bytes[h - Len(w)]
    <3>1. h - Len(w) >= 4
      BY <1>1, <1>3, <1>6, <2>2
    <3> QED  BY <1>2, <3>1
  <2> QED  BY <1>4, <2>1, <2>2
<1> QED  BY <1>5, <1>6 DEF t, Spaced, HeaderAhead

\* One fault brings the contents nearer by one byte at most.
LEMMA AheadFaulted ==
  ASSUME NEW s \in Seq(Bytes), NEW x \in 1..Len(s), NEW b \in {Noise, CAN}, NEW n \in Nat,
         HeaderAhead(s, n)
  PROVE  /\ HeaderAhead([s EXCEPT ![x] = b], n + 1)
         /\ HeaderAhead(SubSeq(s, 1, x - 1) \o SubSeq(s, x + 1, Len(s)), n + 1)
<1>1. HeaderAhead([s EXCEPT ![x] = b], n + 1)
  <2> DEFINE t == [s EXCEPT ![x] = b]
  <2>1. /\ Len(t) = Len(s) /\ Len(s) \in Nat
        /\ \A i \in 1..Len(s) : t[i] = IF i = x THEN b ELSE s[i]
    BY ControlBytes, ExceptSeq
  <2> HIDE DEF t
  <2>2. b \notin Contents \cup Sums
    BY CellValues
  <2>3. \A h \in 1..Len(t) : t[h] \in Contents \cup Sums => s[h] \in Contents \cup Sums
    BY <2>1, <2>2
  <2>4. HeaderAhead(t, n + 1)
    BY <2>1, <2>3 DEF HeaderAhead
  <2> QED  BY <2>4 DEF t
<1>2. HeaderAhead(SubSeq(s, 1, x - 1) \o SubSeq(s, x + 1, Len(s)), n + 1)
  <2> DEFINE a == SubSeq(s, 1, x - 1)
             c == SubSeq(s, x + 1, Len(s))
             t == a \o c
  <2>1. Len(s) \in Nat /\ \A i \in 1..Len(s) : s[i] \in Bytes
    OBVIOUS
  <2>2. a \in Seq(Bytes) /\ Len(a) = x - 1 /\ \A i \in 1..x - 1 : a[i] = s[i]
    <3>1. \A i \in 1..x - 1 : s[i] \in Bytes
      BY <2>1
    <3> QED  BY <3>1, SubSeqProperties
  <2>3. c \in Seq(Bytes) /\ Len(c) = Len(s) - x /\ \A i \in 1..Len(s) - x : c[i] = s[x + i]
    <3>1. x \in Nat
      BY <2>1
    <3>2. /\ c \in Seq(Bytes) /\ Len(c) = IF x < Len(s) THEN Len(s) - x ELSE 0
          /\ \A i \in 1..Len(s) - x : c[i] = s[x + i]
      BY <3>1, Rest, Zenon
    <3> QED  BY <2>1, <3>2
  <2>4. a \in Seq(Bytes) /\ c \in Seq(Bytes)
    BY <2>2, <2>3
  <2> HIDE DEF a, c
  <2>5. /\ Len(t) = Len(a) + Len(c)
        /\ \A i \in 1..Len(a) : t[i] = a[i]
        /\ \A i \in 1..Len(c) : t[Len(a) + i] = c[i]
    BY <2>4, Joined
  <2> HIDE DEF t
  <2>6. ASSUME NEW h \in 1..Len(t), t[h] \in Contents \cup Sums PROVE h + (n + 1) >= 4
    <3>1. CASE h < x
      <4>1. h \in 1..Len(s) /\ t[h] = s[h]
        BY <2>1, <2>2, <2>5, <3>1
      <4>2. h + n >= 4
        BY <2>6, <4>1 DEF HeaderAhead
      <4> QED  BY <4>1, <4>2
    <3>2. CASE ~(h < x)
      <4>1. h - (x - 1) \in 1..Len(c) /\ Len(a) + (h - (x - 1)) = h /\ x + (h - (x - 1)) = h + 1
            /\ h + 1 \in 1..Len(s)
        BY <2>1, <2>2, <2>3, <2>5, <3>2
      <4>2. t[h] = c[h - (x - 1)]
        BY <2>5, <4>1
      <4>3. c[h - (x - 1)] = s[h + 1]
        BY <2>3, <4>1
      <4>4. (h + 1) + n >= 4
        BY <2>6, <4>1, <4>2, <4>3 DEF HeaderAhead
      <4> QED  BY <4>1, <4>4
    <3> QED  BY <3>1, <3>2
  <2>7. HeaderAhead(t, n + 1)
    BY <2>6 DEF HeaderAhead
  <2> QED  BY <2>7 DEF t, a, c
<1> QED  BY <1>1, <1>2

\* Behind the CRC of a good packet, the header of the next one is ahead.
LEMMA GoodAhead ==
  ASSUME NEW w \in Seq(Bytes), NEW n \in Nat, Spaced(w, n), NEW c \in Nat, 2 <= c, c <= Len(w),
         w[c - 1] \in Sums, w[c] \in Sums
  PROVE  HeaderAhead(SubSeq(w, c + 1, Len(w)), n)
<1> DEFINE t == SubSeq(w, c + 1, Len(w))
<1>1. /\ Len(t) = IF c < Len(w) THEN Len(w) - c ELSE 0
      /\ \A i \in 1..Len(w) - c : t[i] = w[c + i]
  BY Rest
<1>2. Len(w) \in Nat
  OBVIOUS
<1> HIDE DEF t
<1>3. ASSUME NEW h \in 1..Len(t), t[h] \in Contents \cup Sums PROVE h + n >= 4
  <2>1. /\ h \in 1..Len(w) - c /\ c + h \in 1..Len(w) /\ c \in 1..Len(w) /\ c - 1 \in 1..Len(w)
        /\ c < c + h /\ c - 1 < c + h /\ c + h # (c - 1) + 1
        /\ (c + h) - c = h /\ (c + h) - (c - 1) = h + 1
    BY <1>1, <1>2
  <2>2. t[h] = w[c + h]
    BY <1>1, <2>1
  <2>3. CASE t[h] \in Contents
    <3>1. (c + h) - c + n >= 4
      BY <2>1, <2>2, <2>3 DEF Spaced
    <3> QED  BY <2>1, <3>1
  <2>4. CASE t[h] \in Sums
    <3>1. (c + h) - (c - 1) + n >= 5
      BY <2>1, <2>2, <2>4 DEF Spaced
    <3> QED  BY <2>1, <3>1
  <2> QED  BY <1>3, <2>3, <2>4
<1>4. HeaderAhead(t, n)
  BY <1>3 DEF HeaderAhead
<1> QED  BY <1>4 DEF t

\* More faults allow more.
LEMMA PlacedMore ==
  ASSUME NEW w \in Seq(Bytes), NEW n \in Nat, NEW n2 \in Nat, n <= n2
  PROVE  (Spaced(w, n) => Spaced(w, n2)) /\ (HeaderAhead(w, n) => HeaderAhead(w, n2))
<1>1. Len(w) \in Nat
  OBVIOUS
<1> QED  BY <1>1 DEF Spaced, HeaderAhead

LEMMA InitPlaced == Init => Placed
<1> SUFFICES ASSUME Init PROVE Placed
  OBVIOUS
<1>1. wire["R"] = <<>> /\ Len(<<>>) = 0
  BY DEF Init, Sides
<1> QED  BY <1>1 DEF Placed, Spaced, HeaderAhead

\* Every step leaves contents and CRCs where the faults allow.
LEMMA NextPlaced == ASSUME CodeLimits PROVE TypeInv /\ Placed /\ [Next]_vars => Placed'
<1> SUFFICES ASSUME TypeInv, Placed, [Next]_vars PROVE Placed'
  OBVIOUS
<1> DEFINE w == wire["R"]
           n == faults
<1>1. /\ wire \in Lines /\ w \in Seq(Bytes) /\ "R" \in Sides /\ "S" \in Sides /\ Peer("S") = "R"
      /\ TypeOK
  BY DEF TypeInv, TypeOK, Lines, Sides, Peer
<1>2. n \in Nat /\ faults' \in Nat /\ n <= faults'
  BY FaultsGrow
<1> SUFFICES ASSUME ~Stopped("R")'
             PROVE  /\ Spaced(wire'["R"], faults')
                    /\ rcv'.pc = "byte" => HeaderAhead(wire'["R"], faults')
  BY DEF Placed
<1>3. CASE SenderStep
  <2>1. rcv' = rcv /\ ~Stopped("R")
    BY <1>3 DEF SenderStep, Stopped
  <2>2. Spaced(w, n) /\ (rcv.pc = "byte" => HeaderAhead(w, n))
    BY <2>1 DEF Placed
  <2>3. PICK bytes \in SenderWrites : (\E m \in Nat : Pass("S", m, bytes)) \/ Quit("S", bytes)
    BY <1>3, SenderSteps
  <2>4. bytes \in Seq(Bytes)
    BY WritesType
  <2>5. wire'["R"] = w \o bytes
    <3>1. CASE \E m \in Nat : Pass("S", m, bytes)
      BY <1>1, <2>1, <2>4, <3>1, PassEffect
    <3>2. CASE Quit("S", bytes)
      BY <1>1, <2>1, <2>4, <3>2, QuitEffect
    <3> QED  BY <2>3, <3>1, <3>2
  <2> HIDE DEF w, n
  <2>6. Spaced(w \o bytes, n) /\ (rcv.pc = "byte" => HeaderAhead(w \o bytes, n))
    BY <1>1, <1>2, <2>2, SpacedJoined
  <2>7. w \o bytes \in Seq(Bytes)
    BY <1>1, <2>4
  <2>8. /\ Spaced(w \o bytes, faults')
        /\ rcv.pc = "byte" => HeaderAhead(w \o bytes, faults')
    BY <1>2, <2>6, <2>7, PlacedMore
  <2> QED  BY <2>1, <2>5, <2>8
<1>4. CASE ReceiverStep
  <2>1. ~Stopped("R")
    BY <1>4, ReceiverLoops DEF Stopped, Results
  <2>2. Spaced(w, n)
    BY <2>1 DEF Placed
  <2>3. CASE PacketGood
    <3>1. /\ BodySize = PacketSize + 4 /\ Len(w) >= PacketSize + 4
          /\ w[PacketSize + 3] \in Sums /\ w[PacketSize + 4] \in Sums
      BY <2>3, GoodPacket DEF Sums
    <3>2. PacketSize \in Nat /\ Len(w) \in Nat
      BY <1>1, XPacketAssumption
    <3>3. wire'["R"] = SubSeq(w, BodySize + 1, Len(w))
      <4>1. <<ACK>> \in Seq(Bytes) /\ BodySize \in Nat
        BY <3>1, <3>2, ControlBytes
      <4>2. Pass("R", BodySize, <<ACK>>)
        BY <2>3 DEF PacketGood
      <4> QED  BY <1>1, <4>1, <4>2, PassEffect
    <3> HIDE DEF w, n
    <3>4. /\ BodySize \in Nat /\ 2 <= BodySize /\ BodySize <= Len(w)
          /\ w[BodySize - 1] \in Sums /\ w[BodySize] \in Sums
      <4>1. BodySize - 1 = PacketSize + 3
        BY <3>1, <3>2
      <4> QED  BY <3>1, <3>2, <4>1
    <3>5. HeaderAhead(wire'["R"], n)
      BY <1>1, <1>2, <2>2, <3>3, <3>4, GoodAhead
    <3>6. wire'["R"] \in Seq(Bytes) /\ Thins(wire'["R"], w, 0)
      BY <1>1, <3>3, <3>4, Rest, ThinsRest
    <3>7. Spaced(wire'["R"], n)
      <4>1. n + 0 <= n /\ 0 \in Nat
        BY <1>2
      <4> QED  BY <1>1, <1>2, <2>2, <3>6, <4>1, SpacedThinned
    <3> QED  BY <1>2, <3>5, <3>6, <3>7, PlacedMore
  <2>4. CASE ~PacketGood
    <3>1. rcv'.pc # "byte"
      <4>1. rcv \in ReceiverStates
        BY <1>1 DEF TypeOK, ReceiverStates
      <4>2. PacketStarts => rcv'.pc = "packet"
        BY <4>1 DEF PacketStarts, ReceiverStates
      <4>3. PacketBad => rcv' = rcv
        BY DEF PacketBad
      <4> QED  BY <1>4, <2>4, <4>2, <4>3, ReceiverLoops
    <3>2. PICK m \in Nat : wire'["R"] = SubSeq(w, m + 1, Len(w))
      BY <1>4, <2>4, ReceiverReads
    <3> HIDE DEF w, n
    <3>3. wire'["R"] \in Seq(Bytes) /\ Thins(wire'["R"], w, 0)
      BY <1>1, <3>2, Rest, ThinsRest
    <3>4. n + 0 <= faults' /\ 0 \in Nat
      BY <1>2
    <3> QED  BY <1>1, <1>2, <2>2, <3>1, <3>3, <3>4, SpacedThinned
  <2> QED  BY <2>3, <2>4
<1>5. CASE Fault
  <2>1. rcv' = rcv /\ faults' = n + 1 /\ ~Stopped("R")
    BY <1>5 DEF Fault, Stopped
  <2>2. Spaced(w, n) /\ (rcv.pc = "byte" => HeaderAhead(w, n))
    BY <2>1 DEF Placed
  <2>3. PICK p \in Sides : \E i \in 1..Len(wire[p]) : \E b \in {Noise, CAN} :
           /\ wire' \in Lines /\ \A q \in Sides \ {p} : wire'[q] = wire[q]
           /\ \/ wire'[p] = [wire[p] EXCEPT ![i] = b]
              \/ wire'[p] = SubSeq(wire[p], 1, i - 1) \o SubSeq(wire[p], i + 1, Len(wire[p]))
    BY <1>1, <1>5, FaultEffect
  <2>4. wire'["R"] \in Seq(Bytes)
    BY <1>1, <2>3 DEF Lines
  <2>5. CASE p # "R"
    <3>1. wire'["R"] = w
      BY <1>1, <2>3, <2>5
    <3> HIDE DEF w, n
    <3> QED  BY <1>1, <1>2, <2>1, <2>2, <3>1, PlacedMore
  <2>6. CASE p = "R"
    <3>1. PICK i \in 1..Len(w), b \in {Noise, CAN} :
            \/ wire'["R"] = [w EXCEPT ![i] = b]
            \/ wire'["R"] = SubSeq(w, 1, i - 1) \o SubSeq(w, i + 1, Len(w))
      BY <2>3, <2>6
    <3> HIDE DEF w, n
    <3>2. /\ Thins([w EXCEPT ![i] = b], w, 0)
          /\ Thins(SubSeq(w, 1, i - 1) \o SubSeq(w, i + 1, Len(w)), w, 1)
      BY <1>1, ThinsDamaged, ThinsShorter
    <3>3. /\ HeaderAhead(w, n) => HeaderAhead([w EXCEPT ![i] = b], n + 1)
          /\ HeaderAhead(w, n) => HeaderAhead(SubSeq(w, 1, i - 1) \o SubSeq(w, i + 1, Len(w)), n + 1)
      BY <1>1, <1>2, AheadFaulted
    <3>4. n + 0 <= faults' /\ n + 1 <= faults' /\ 0 \in Nat /\ 1 \in Nat
      BY <1>2, <2>1
    <3>5. PICK d \in {0, 1} : Thins(wire'["R"], w, d)
      BY <3>1, <3>2
    <3>6. d \in Nat /\ n + d <= faults'
      BY <3>4
    <3>7. Spaced(wire'["R"], faults')
      BY <1>1, <1>2, <2>2, <2>4, <3>5, <3>6, SpacedThinned
    <3>8. HeaderAhead(w, n) => HeaderAhead(wire'["R"], n + 1)
      BY <3>1, <3>3
    <3> QED  BY <2>1, <2>2, <3>7, <3>8
  <2> QED  BY <2>5, <2>6
<1>6. CASE UNCHANGED vars
  BY <1>6 DEF vars, Placed, Stopped
<1> QED  BY <1>3, <1>4, <1>5, <1>6 DEF Next, Terminated, vars

\* What recv() returned stays true.
Reported ==
  rcv.pc = "done" =>
    \/ Len(stored) = N
    \/ faults > 0 /\ EotInNumbers
    \/ faults > 2 /\ EotInContents

\* A byte taken for EOT is the one that was sent, or a number, or one of contents or CRC
\* behind a header that is lost.
LEMMA EotRead ==
  ASSUME CodeLimits, TypeInv, InOrder, Clean, Placed, EndOfTransmission
  PROVE  \/ Len(stored) = N
         \/ faults > 0 /\ EotInNumbers
         \/ faults > 2 /\ EotInContents
<1> DEFINE w == wire["R"]
           j == Len(stored)
<1>1. rcv.pc = "byte" /\ w # <<>> /\ MayBe(Head(w), EOT)
  BY DEF EndOfTransmission, RReads
<1>2. w \in Seq(Bytes) /\ j \in Nat /\ N \in Nat /\ faults \in Nat
  BY Counters DEF TypeInv, TypeOK, Sides
<1>3. MayBe(w[1], EOT) /\ 1 \in 1..Len(w)
  BY <1>1, <1>2
<1>4. ~Stopped("R")
  BY <1>1 DEF Stopped, Results
<1>5. PICK m \in {j, j + 1} : Fits(w[1], m, j)
  <2>1. PICK L : Split(w, L, j, faults)
    BY <1>4 DEF InOrder, Carries
  <2> HIDE DEF w, j
  <2>2. Fits(w[1], j, j) \/ Fits(w[1], j + 1, j)
    BY <1>3, <2>1 DEF Split
  <2> QED  BY <2>2
<1>6. CASE w[1] = EOT
  <2>1. EOT \in Numbers(m) \/ j = N
    BY <1>2, <1>5, <1>6 DEF Fits, Marks, EOT, SOH, STX, CAN, Noise, Cell, Crc
  <2>2. EotInNumbers \/ j = N
    BY <1>5, <2>1 DEF EotInNumbers
  <2>3. ASSUME faults = 0 PROVE j = N
    <3>1. Shaking \/ Reading \/ Sent \/ Begun \/ Answered \/ Ending \/ Empty \/ Left
      BY <1>4, <2>3 DEF Clean
    <3>2. ~Sent
      <4> SUFFICES ASSUME Sent PROVE FALSE
        OBVIOUS
      <4>1. w[1] = First
        BY PacketBytes DEF Sent, TypeInv
      <4> QED  BY <1>6, <4>1 DEF First, SOH, STX, EOT
    <3> QED  BY <1>1, <3>1, <3>2 DEF Shaking, Reading, Begun, Answered, Ending, Empty, Left
  <2> QED  BY <1>2, <2>2, <2>3
<1>7. ASSUME NEW k \in 1..N, w[1] \in {Cell(k), Crc(k)}, EOT \in Values[k]
      PROVE  faults > 2 /\ EotInContents
  <2>1. HeaderAhead(w, faults)
    BY <1>1, <1>4 DEF Placed
  <2>2. 1 + faults >= 4
    <3>1. w[1] \in Contents \cup Sums
      BY <1>7 DEF Contents, Sums
    <3> QED  BY <1>3, <2>1, <3>1 DEF HeaderAhead
  <2>3. k = m
    <3> DEFINE b == w[1]
    <3>1. b \in {Cell(k), Crc(k)} /\ Fits(b, m, j) /\ m \in Nat /\ k \in Nat
      BY <1>2, <1>5, <1>7
    <3>2. b \in Contents \/ b \in Sums
      BY <1>7 DEF Contents, Sums
    <3> HIDE DEF b
    <3>3. \A c \in Numbers(m) : c \notin Contents /\ c \notin Sums
      <4>1. \A c \in Numbers(m) : c \in 0..255
        BY <3>1, NumberBytes DEF Numbers
      <4> QED  BY <4>1, CellValues
    <3>4. b \notin Numbers(m) /\ b \notin {Noise, CAN, EOT, SOH, STX}
      BY <3>2, <3>3, CellValues
    <3>5. b \in {Cell(m), Crc(m)}
      BY <3>1, <3>4 DEF Fits, Marks
    <3> QED  BY <3>1, <3>5 DEF Cell, Crc
  <2>4. EotInContents
    BY <1>5, <1>7, <2>3 DEF EotInContents
  <2> QED  BY <1>2, <2>2, <2>4
<1> QED  BY <1>3, <1>6, <1>7 DEF MayBe

\* Every step preserves that what is reported is true.
LEMMA NextReported ==
  ASSUME CodeLimits
  PROVE  TypeInv /\ InOrder /\ Clean /\ Placed /\ Reported /\ [Next]_vars => Reported'
<1> SUFFICES ASSUME TypeInv, InOrder, Clean, Placed, Reported, [Next]_vars PROVE Reported'
  OBVIOUS
<1>1. faults \in Nat /\ faults' \in Nat /\ faults <= faults'
  BY FaultsGrow
<1>2. CASE rcv' = rcv /\ stored' = stored
  BY <1>1, <1>2 DEF Reported, EotInNumbers, EotInContents, Numbers
<1>3. CASE ReceiverStep
  <2> SUFFICES ASSUME rcv'.pc = "done" PROVE Reported'
    BY DEF Reported
  <2>1. rcv \in ReceiverStates
    BY DEF TypeInv, TypeOK, ReceiverStates
  <2>2. Stopped("R")'
    BY DEF Stopped, Results
  <2>3. ~PacketGood /\ ~PacketBad /\ ~PacketStarts
    BY <2>1 DEF PacketGood, PacketBad, PacketStarts, BodyRead, ReceiverStates
  <2>4. \A r : \A bytes : REnds(r, bytes) => r = "done"
    BY <2>1 DEF REnds, ReceiverStates
  <2>5. ~AskAgain
    <3>1. ASSUME NEW errors, NEW cancel, rcv.pc = "hello" PROVE ~Ask(errors, cancel)
      BY <2>1, <2>4, <3>1 DEF Ask, ReceiverStates
    <3> QED  BY <3>1 DEF AskAgain
  <2>6. EndOfTransmission /\ stored' = stored
    BY <1>3, <2>3, <2>4, <2>5 DEF ReceiverStep, AskCancelled, CancelByte, ByteRaises, PacketRaises
  <2> QED  BY <1>1, <2>6, EotRead DEF Reported, EotInNumbers, EotInContents, Numbers
<1> QED  BY <1>2, <1>3 DEF Next, SenderStep, Fault, Terminated, vars

\* send() returns True only when every packet is stored, and recv() a number of bytes
\* only then, or when the line made it read a sequence number for EOT, or, with three
\* faults at least, a byte of contents or CRC: for every stream and whatever it holds.
THEOREM OutcomesAreTrue == ASSUME CodeLimits PROVE Spec => []OutcomeIsTrue
<1> DEFINE Inv == TypeInv /\ Backed /\ InOrder /\ Clean /\ Placed /\ Reported
<1>1. Inv => OutcomeIsTrue
  <2> SUFFICES ASSUME Inv, snd.pc = "done" PROVE Len(stored) = N
    BY DEF OutcomeIsTrue, Reported
  <2>1. Len(stored) <= N /\ N <= Len(stored) /\ Len(stored) \in Nat /\ N \in Nat
    BY Counters DEF InOrder, Backed, TypeInv, TypeOK
  <2> QED  BY <2>1
<1>2. Init => Inv
  BY InitTypes, InitBacked, InitInOrder, InitClean, InitPlaced DEF Init, Reported
<1>3. Inv /\ [Next]_vars => Inv'
  BY NextTypes, NextBacked, NextInOrder, NextClean, NextPlaced, NextReported
<1> QED  BY <1>1, <1>2, <1>3, PTL DEF Spec

-----------------------------------------------------------------------------
(***************************************************************************)
(* Seen from outside.                                                      *)
(***************************************************************************)

\* A step stores the next packet, or send() returns True, or neither can be seen.
LEMMA NextTransfers ==
  ASSUME TypeInv, Backed, InOrder, TypeInv', Backed', InOrder', [Next]_vars
  PROVE  [Transfer!Next]_(Transfer!vars)
<1> DEFINE j == Len(stored)
           Whole == [k \in 1..N |-> k]
<1>0. j \in Nat /\ N \in Nat /\ j <= N
  BY Counters DEF TypeInv, TypeOK, InOrder
<1>1. /\ j \in Nat /\ N \in Nat /\ j <= N /\ stored \in Seq(1..N)
      /\ stored = [k \in 1..j |-> k]
  BY Counters DEF TypeInv, TypeOK, InOrder
<1>2. Whole \in Seq(1..N) /\ Len(Whole) = N
  BY <1>1
<1>3. ASSUME NEW n \in 0..N PROVE SubSeq(Whole, 1, n) = [k \in 1..n |-> k]
  BY <1>1, <1>3
<1>4. snd.pc = "done" => j = N
  <2>1. snd.pc = "done" => N <= j
    BY DEF Backed
  <2> HIDE DEF j
  <2> QED  BY <1>0, <2>1
<1>5. CASE stored' = stored /\ (snd'.pc = "done" <=> snd.pc = "done")
  BY <1>5 DEF Transfer!vars
<1>6. CASE stored' = stored /\ snd'.pc = "done" /\ snd.pc # "done"
  <2>1. stored = Whole
    <3>1. j = N
      <4>1. N <= Len(stored')
        BY <1>6 DEF Backed
      <4>2. N <= j
        BY <1>6, <4>1
      <4> HIDE DEF j
      <4> QED  BY <1>0, <4>2
    <3> QED  BY <1>1, <3>1
  <2> QED  BY <1>6, <2>1 DEF Transfer!Next, Transfer!Report
<1>7. ASSUME snd' = snd, NEW k \in 1..N, stored' = Append(stored, k)
      PROVE  Transfer!Next
  <2>1. Len(stored') = j + 1
    BY <1>1, <1>7
  <2>2. stored' = [h \in 1..j + 1 |-> h] /\ j + 1 <= N
    BY <2>1 DEF InOrder
  <2>3. snd.pc # "done"
    <3>1. j + 1 <= N
      BY <2>2
    <3> HIDE DEF j
    <3> QED  BY <1>0, <1>4, <3>1
  <2>4. stored # <<0>>
    <3>1. stored = <<0>> => 1 \in 1..j /\ stored[1] = 0
      OBVIOUS
    <3> QED  BY <1>1, <3>1
  <2>5. j + 1 \in j + 1..N /\ stored = SubSeq(Whole, 1, j) /\ stored' = SubSeq(Whole, 1, j + 1)
    BY <1>1, <1>3, <2>2
  <2> HIDE DEF Whole, j
  <2> QED  BY <1>2, <1>7, <2>3, <2>4, <2>5 DEF Transfer!Next, Transfer!Extend, Whole, j
<1>8. CASE ReceiverStep
  <2>1. snd' = snd
    BY <1>8 DEF ReceiverStep
  <2>2. stored' = stored \/ \E k \in 1..N : stored' = Append(stored, k)
    BY <1>8, ReceiverSteps DEF TypeInv
  <2> QED  BY <1>5, <1>7, <2>1, <2>2
<1>9. CASE SenderStep
  <2>1. stored' = stored /\ snd.pc # "done"
    BY <1>9, SenderLoops DEF SenderStep
  <2> QED  BY <1>5, <1>6, <2>1
<1>10. CASE Fault \/ UNCHANGED vars
  BY <1>5, <1>10 DEF Fault, vars
<1> QED  BY <1>8, <1>9, <1>10 DEF Next, Terminated

\* A stream grows from its front and is reported when it is whole: the transfer is what
\* FileTransfer promises.
THEOREM XModemTransfers == ASSUME CodeLimits PROVE Spec => ImplementsTransfer
<1> DEFINE Inv == TypeInv /\ Backed /\ InOrder
<1>1. Init => Transfer!Init
  BY DEF Init, Transfer!Init
<1>2. Init => Inv
  BY InitTypes, InitBacked, InitInOrder
<1>3. Inv /\ [Next]_vars => Inv'
  BY NextTypes, NextBacked, NextInOrder
<1>4. Inv /\ Inv' /\ [Next]_vars => [Transfer!Next]_(Transfer!vars)
  BY NextTransfers
<1> QED  BY <1>1, <1>2, <1>3, <1>4, PTL DEF Spec, ImplementsTransfer, Transfer!Spec

=============================================================================
