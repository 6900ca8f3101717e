---------------------------- MODULE FramerProofs ----------------------------
(***************************************************************************)
(* Theorems of Framer, for packets of any bytes and any length, any number *)
(* of faults and each of the three CRCs: what is sent over an intact line  *)
(* is what is read, a fault costs one packet at most, and the CRC sees     *)
(* every change of one byte.                                               *)
(*                                                                         *)
(* The loops of the code are recursive functions here.  That there is such *)
(* a function, and what it does to all sequences of bytes, is shown by an  *)
(* induction over the natural numbers that is stated about sets            *)
(* (SetInduction), because a theorem with an operator as its parameter     *)
(* cannot be used.                                                         *)
(***************************************************************************)
EXTENDS Framer, SequenceTheorems, FiniteSetTheorems, WellFoundedInduction, TLAPS

LEMMA SetInduction ==
  ASSUME NEW S, 0 \in S, \A n \in Nat : n \in S => n + 1 \in S
  PROVE  Nat \subseteq S
<1> DEFINE R == OpToRel(<, Nat)
           T == Nat \ S
<1>1. IsWellFoundedOn(R, Nat)
  BY NatLessThanWellFounded
<1>2. \A x, y \in Nat : y < x => <<y, x>> \in R
  BY DEF OpToRel
<1> HIDE DEF R
<1>3. ASSUME T # {} PROVE FALSE
  <2>1. \E x \in T : \A y \in T : <<y, x>> \notin R
    BY <1>1, <1>3, WFMin
  <2>2. PICK x \in T : \A y \in T : <<y, x>> \notin R
    BY <2>1
  <2>3. x # 0 /\ x \in Nat /\ x - 1 \in Nat
    OBVIOUS
  <2>4. x - 1 < x /\ (x - 1) + 1 = x
    BY <2>3
  <2>5. x - 1 \notin T
    BY <1>2, <2>2, <2>3, <2>4
  <2> QED  BY <2>2, <2>3, <2>4, <2>5
<1> QED  BY <1>3

Moves(top, T) == [1..top -> [T -> T]]
IsRecursive(f, top, T, base, move) ==
  f \in [0..top -> T] /\ f[0] = base /\ \A n \in 1..top : f[n] = move[n][f[n - 1]]

\* A function can be defined by recursion over 0..top: there is one whose value at 0 is
\* base, and at n what move[n] makes of the value before.
LEMMA Recursion ==
  ASSUME NEW top \in Nat, NEW T, NEW base \in T, NEW move \in Moves(top, T)
  PROVE  \E f : IsRecursive(f, top, T, base, move)
<1> DEFINE Good(m, f) == f[0] = base /\ \A n \in 1..m : f[n] = move[n][f[n - 1]]
           S == {m \in Nat : m <= top => \E f \in [0..m -> T] : Good(m, f)}
<1>1. 0 \in S
  <2> DEFINE f == [n \in 0..0 |-> base]
  <2>1. f \in [0..0 -> T] /\ Good(0, f)
    OBVIOUS
  <2> QED  BY <2>1
<1>2. ASSUME NEW m \in Nat, m \in S PROVE m + 1 \in S
  <2> SUFFICES ASSUME m + 1 <= top PROVE \E f \in [0..(m + 1) -> T] : Good(m + 1, f)
    OBVIOUS
  <2>1. PICK f \in [0..m -> T] : Good(m, f)
    BY <1>2
  <2> DEFINE g == [n \in 0..(m + 1) |-> IF n <= m THEN f[n] ELSE move[m + 1][f[m]]]
  <2>2. move[m + 1] \in [T -> T] /\ f[m] \in T
    BY DEF Moves
  <2>3. g \in [0..(m + 1) -> T]
    BY <2>2
  <2>4. g[0] = base
    BY <2>1
  <2>5. ASSUME NEW n \in 1..(m + 1) PROVE g[n] = move[n][g[n - 1]]
    <3>1. CASE n <= m
      BY <2>1, <3>1
    <3>2. CASE n = m + 1
      BY <3>2
    <3> QED  BY <3>1, <3>2
  <2> QED  BY <2>3, <2>4, <2>5
<1>3. Nat \subseteq S
  <2> HIDE DEF S
  <2> QED  BY <1>1, <1>2, SetInduction
<1> QED  BY <1>3 DEF IsRecursive

\* A function that obeys a recursion is in the set the recursion stays in.
LEMMA RecursionType ==
  ASSUME NEW top \in Nat, NEW T, NEW base \in T, NEW move \in Moves(top, T), NEW f,
         f = [n \in 0..top |-> f[n]], f[0] = base,
         \A n \in 1..top : f[n - 1] \in T => f[n] = move[n][f[n - 1]]
  PROVE  IsRecursive(f, top, T, base, move)
<1> DEFINE S == {n \in Nat : n <= top => f[n] \in T}
<1>1. 0 \in S
  OBVIOUS
<1>2. ASSUME NEW n \in Nat, n \in S PROVE n + 1 \in S
  <2> SUFFICES ASSUME n + 1 <= top PROVE f[n + 1] \in T
    OBVIOUS
  <2>1. n + 1 \in 1..top /\ (n + 1) - 1 = n /\ f[n] \in T
    BY <1>2
  <2>2. f[n + 1] = move[n + 1][f[n]]
    BY <2>1
  <2>3. move[n + 1] \in [T -> T]
    BY <2>1 DEF Moves
  <2> QED  BY <2>1, <2>2, <2>3
<1> HIDE DEF S
<1>3. Nat \subseteq S
  BY <1>1, <1>2, SetInduction
<1>4. \A n \in 0..top : f[n] \in T
  BY <1>3 DEF S
<1>5. f \in [0..top -> T]
  BY <1>4
<1>6. \A n \in 1..top : f[n] = move[n][f[n - 1]]
  <2>1. \A n \in 1..top : n - 1 \in 0..top
    OBVIOUS
  <2> QED  BY <1>4, <2>1
<1> QED  BY <1>5, <1>6 DEF IsRecursive

\* Two recursions that make the same moves up to a point agree there.
LEMMA RecursionSame ==
  ASSUME NEW top \in Nat, NEW T, NEW base \in T, NEW m1 \in Moves(top, T), NEW m2 \in Moves(top, T),
         NEW f, NEW g, IsRecursive(f, top, T, base, m1), IsRecursive(g, top, T, base, m2),
         NEW p \in 0..top, \A n \in 1..p : m1[n] = m2[n]
  PROVE  f[p] = g[p]
<1> DEFINE S == {n \in Nat : n <= p => f[n] = g[n]}
<1>0. /\ f[0] = base /\ \A n \in 1..top : f[n] = m1[n][f[n - 1]]
      /\ g[0] = base /\ \A n \in 1..top : g[n] = m2[n][g[n - 1]]
  BY DEF IsRecursive
<1>1. 0 \in S
  BY <1>0
<1>2. ASSUME NEW n \in Nat, n \in S PROVE n + 1 \in S
  <2> SUFFICES ASSUME n + 1 <= p PROVE f[n + 1] = g[n + 1]
    OBVIOUS
  <2>1. n + 1 \in 1..p /\ n + 1 \in 1..top /\ (n + 1) - 1 = n /\ f[n] = g[n]
    BY <1>2
  <2>2. f[n + 1] = m1[n + 1][f[n]] /\ g[n + 1] = m2[n + 1][g[n]]
    BY <1>0, <2>1
  <2> QED  BY <2>1, <2>2
<1> HIDE DEF S
<1>3. Nat \subseteq S
  BY <1>1, <1>2, SetInduction
<1> QED  BY <1>3 DEF S

Lossless(m1, m2, p, top, T) ==
  \A n \in (p + 1)..top : \A x, y \in T : m1[n][x] = m2[n][y] => x = y

\* Two that differ at a point, and whose moves from there on lose nothing, differ at
\* the end.
LEMMA RecursionDiffers ==
  ASSUME NEW top \in Nat, NEW T, NEW a \in T, NEW b \in T,
         NEW m1 \in Moves(top, T), NEW m2 \in Moves(top, T),
         NEW f, NEW g, IsRecursive(f, top, T, a, m1), IsRecursive(g, top, T, b, m2),
         NEW p \in 0..top, f[p] # g[p],
         Lossless(m1, m2, p, top, T)
  PROVE  f[top] # g[top]
<1> DEFINE S == {n \in Nat : p <= n /\ n <= top => f[n] # g[n]}
<1>0. /\ f \in [0..top -> T] /\ \A n \in 1..top : f[n] = m1[n][f[n - 1]]
      /\ g \in [0..top -> T] /\ \A n \in 1..top : g[n] = m2[n][g[n - 1]]
  BY DEF IsRecursive
<1>p. p \in Nat /\ p <= top
  OBVIOUS
<1>1. 0 \in S
  BY <1>p
<1>2. ASSUME NEW n \in Nat, n \in S PROVE n + 1 \in S
  <2> SUFFICES ASSUME p <= n + 1, n + 1 <= top PROVE f[n + 1] # g[n + 1]
    OBVIOUS
  <2>1. CASE p = n + 1
    BY <2>1
  <2>2. CASE p <= n
    <3>1. n + 1 \in (p + 1)..top /\ n + 1 \in 1..top /\ n \in 0..top /\ (n + 1) - 1 = n
      BY <1>p, <2>2
    <3>2. f[n] # g[n] /\ f[n] \in T /\ g[n] \in T
      BY <1>0, <1>2, <2>2, <3>1
    <3>3. f[n + 1] = m1[n + 1][f[n]] /\ g[n + 1] = m2[n + 1][g[n]]
      BY <1>0, <3>1
    <3> QED  BY <3>1, <3>2, <3>3 DEF Lossless
  <2> QED  BY <1>p, <2>1, <2>2
<1> HIDE DEF S
<1>3. Nat \subseteq S
  BY <1>1, <1>2, SetInduction
<1> QED  BY <1>3, <1>p DEF S

-----------------------------------------------------------------------------
(* The loop over the bytes of the buffer *)

Decoders == [inPacket : BOOLEAN, escaped : BOOLEAN, current : Seq(Byte)]
States == [decoder : Decoders, packets : Seq(Seq(Byte))]

LEMMA ByteOfBits == ASSUME NEW b \in Byte PROVE unescape(b) \in Byte
BY DEF unescape, Xor, Byte

LEMMA ScanType ==
  ASSUME NEW d \in Decoders, NEW b \in Byte
  PROVE  Scan(d, b) \in Decoders
<1>1. unescape(b) \in Byte
  BY ByteOfBits
<1> DEFINE c == IF d.escaped THEN unescape(b) ELSE b
<1>2. c \in Byte
  BY <1>1
<1>3. Append(d.current, c) \in Seq(Byte) /\ <<>> \in Seq(Byte)
  BY <1>2, AppendProperties DEF Decoders
<1> HIDE DEF c
<1>4. CASE b = START
  BY <1>4, <1>3 DEF Scan, Outside, Decoders
<1>5. CASE b # START
  BY <1>5, <1>3 DEF Scan, Outside, Decoders, c
<1> QED  BY <1>4, <1>5

LEMMA GenuineType ==
  ASSUME NEW data \in Seq(Byte), Genuine(data)
  PROVE  SubSeq(data, 1, Len(data) - CrcSize) \in Seq(Byte)
         /\ SubSeq(data, 1, Len(data) - CrcSize) # <<>>
<1>1. Len(data) > CrcSize /\ CrcSize \in Nat /\ Len(data) \in Nat /\ CrcSize >= 1
  BY FramerAssumption DEF Genuine
<1> DEFINE m == Len(data) - CrcSize
<1>2. m \in 1..Len(data)
  BY <1>1
<1> HIDE DEF m
<1>3. SubSeq(data, 1, m) \in Seq(Byte) /\ Len(SubSeq(data, 1, m)) = m
  BY <1>2, SubSeqProperties
<1>4. SubSeq(data, 1, m) # <<>>
  BY <1>2, <1>3
<1> QED  BY <1>3, <1>4 DEF m

LEMMA StepType ==
  ASSUME NEW s \in States, NEW b \in Byte
  PROVE  Step(s, b) \in States
<1>1. s.decoder \in Decoders /\ s.packets \in Seq(Seq(Byte)) /\ s.decoder.current \in Seq(Byte)
  BY DEF States, Decoders
<1>2. Scan(s.decoder, b) \in Decoders
  BY <1>1, ScanType
<1> DEFINE raw == SubSeq(s.decoder.current, 1, Len(s.decoder.current) - CrcSize)
<1>3. Genuine(s.decoder.current) => raw \in Seq(Byte)
  BY <1>1, GenuineType
<1>4. Genuine(s.decoder.current) => Append(s.packets, raw) \in Seq(Seq(Byte))
  <2> HIDE DEF raw
  <2> QED  BY <1>1, <1>3, AppendProperties
<1> DEFINE packets == IF b = END /\ s.decoder.inPacket /\ Genuine(s.decoder.current)
                        THEN Append(s.packets, raw) ELSE s.packets
<1>5. packets \in Seq(Seq(Byte))
  BY <1>1, <1>4
<1>6. Step(s, b) = [decoder |-> Scan(s.decoder, b), packets |-> packets]
  BY DEF Step
<1> HIDE DEF packets
<1> QED  BY <1>2, <1>5, <1>6 DEF States

After(s, bytes, f) ==
  f = [n \in 0..Len(bytes) |-> IF n = 0 THEN s ELSE Step(f[n - 1], bytes[n])]

LEMMA AfterExists ==
  ASSUME NEW s \in States, NEW bytes \in Seq(Byte)
  PROVE  \E f \in [0..Len(bytes) -> States] : After(s, bytes, f)
<1> DEFINE top == Len(bytes)
           move == [n \in 1..top |-> [t \in States |-> Step(t, bytes[n])]]
<1>1. top \in Nat
  OBVIOUS
<1>2. \A n \in 1..top : bytes[n] \in Byte
  OBVIOUS
<1>3. move \in [1..top -> [States -> States]]
  BY <1>2, StepType
<1>4. \A n \in 1..top : \A t \in States : move[n][t] = Step(t, bytes[n])
  OBVIOUS
<1>a. s \in States
  OBVIOUS
<1> HIDE DEF move, top
<1>b. move \in Moves(top, States)
  BY <1>3 DEF Moves
<1>c. PICK f : IsRecursive(f, top, States, s, move)
  BY <1>1, <1>b, <1>a, Recursion
<1>5. f \in [0..top -> States] /\ f[0] = s /\ \A n \in 1..top : f[n] = move[n][f[n - 1]]
  BY <1>c DEF IsRecursive
<1>6. \A n \in 1..top : n - 1 \in 0..top
  BY <1>1
<1>7. \A n \in 1..top : f[n] = Step(f[n - 1], bytes[n])
  BY <1>4, <1>5, <1>6
<1>8. \A n \in 0..top : f[n] = IF n = 0 THEN s ELSE Step(f[n - 1], bytes[n])
  BY <1>1, <1>5, <1>7
<1>9. f = [n \in 0..top |-> IF n = 0 THEN s ELSE Step(f[n - 1], bytes[n])]
  BY <1>5, <1>8
<1> QED  BY <1>5, <1>9 DEF After, top

LEMMA ScannedValue ==
  ASSUME NEW s \in States, NEW bytes \in Seq(Byte)
  PROVE  \E f \in [0..Len(bytes) -> States] : After(s, bytes, f) /\ Scanned(s, bytes) = f[Len(bytes)]
<1> DEFINE top == Len(bytes)
           g == CHOOSE f : f = [n \in 0..top |-> IF n = 0 THEN s ELSE Step(f[n - 1], bytes[n])]
<1>1. PICK f \in [0..top -> States] : After(s, bytes, f)
  BY AfterExists
<1>2. g = [n \in 0..top |-> IF n = 0 THEN s ELSE Step(g[n - 1], bytes[n])]
  BY <1>1 DEF After
<1>3. Scanned(s, bytes) = g[top]
  BY DEF Scanned
<1>4. top \in Nat
  OBVIOUS
<1> HIDE DEF g
<1>5. g \in [0..top -> States]
  <2> DEFINE S == {n \in Nat : n <= top => g[n] \in States}
  <2>1. 0 \in S
    BY <1>2
  <2>2. ASSUME NEW n \in Nat, n \in S PROVE n + 1 \in S
    <3> SUFFICES ASSUME n + 1 <= top PROVE g[n + 1] \in States
      OBVIOUS
    <3>1. g[n] \in States /\ bytes[n + 1] \in Byte
      BY <2>2
    <3>2. g[n + 1] = Step(g[n], bytes[n + 1])
      BY <1>2
    <3> QED  BY <3>1, <3>2, StepType
  <2> HIDE DEF S
  <2>3. Nat \subseteq S
    BY <2>1, <2>2, SetInduction
  <2> USE DEF S
  <2>4. \A n \in 0..top : g[n] \in States
    BY <2>3, <1>4
  <2> HIDE DEF top, S
  <2> QED  BY <1>2, <2>4
<1> QED  BY <1>2, <1>3, <1>5 DEF After

LEMMA AfterAgree ==
  ASSUME NEW s, NEW x \in Seq(Byte), NEW y \in Seq(Byte), NEW f, NEW g, Len(x) <= Len(y),
         \A n \in 1..Len(x) : x[n] = y[n], After(s, x, f), After(s, y, g)
  PROVE  f[Len(x)] = g[Len(x)]
<1> DEFINE top == Len(x)
           S == {n \in Nat : n <= top => f[n] = g[n]}
<1>1. top \in Nat /\ top <= Len(y) /\ Len(y) \in Nat
  OBVIOUS
<1>f. \A n \in 0..top : f[n] = IF n = 0 THEN s ELSE Step(f[n - 1], x[n])
  BY <1>1 DEF After
<1>g. \A n \in 0..Len(y) : g[n] = IF n = 0 THEN s ELSE Step(g[n - 1], y[n])
  BY <1>1 DEF After
<1>s. 0..top \subseteq 0..Len(y)
  BY <1>1
<1>2. /\ \A n \in 0..top : f[n] = IF n = 0 THEN s ELSE Step(f[n - 1], x[n])
      /\ \A n \in 0..top : g[n] = IF n = 0 THEN s ELSE Step(g[n - 1], y[n])
  BY <1>f, <1>g, <1>s
<1>3. 0 \in S
  BY <1>2, <1>1
<1>4. ASSUME NEW n \in Nat, n \in S PROVE n + 1 \in S
  <2> SUFFICES ASSUME n + 1 <= top PROVE f[n + 1] = g[n + 1]
    OBVIOUS
  <2>1. f[n] = g[n] /\ x[n + 1] = y[n + 1]
    BY <1>4
  <2>2. f[n + 1] = Step(f[n], x[n + 1]) /\ g[n + 1] = Step(g[n], y[n + 1])
    BY <1>2
  <2> QED  BY <2>1, <2>2
<1> HIDE DEF S
<1>5. Nat \subseteq S
  BY <1>3, <1>4, SetInduction
<1> QED  BY <1>1, <1>5 DEF S

LEMMA ScannedType ==
  ASSUME NEW s \in States, NEW bytes \in Seq(Byte)
  PROVE  Scanned(s, bytes) \in States
<1>1. Len(bytes) \in 0..Len(bytes)
  OBVIOUS
<1> QED  BY <1>1, ScannedValue

LEMMA ScannedNothing ==
  ASSUME NEW s \in States
  PROVE  Scanned(s, <<>>) = s
<1>1. <<>> \in Seq(Byte) /\ Len(<<>>) = 0
  OBVIOUS
<1>2. PICK f : After(s, <<>>, f) /\ Scanned(s, <<>>) = f[Len(<<>>)]
  BY <1>1, ScannedValue
<1>3. f[0] = s
  BY <1>1, <1>2 DEF After
<1> QED  BY <1>1, <1>2, <1>3

LEMMA ScannedAppend ==
  ASSUME NEW s \in States, NEW x \in Seq(Byte), NEW b \in Byte
  PROVE  Scanned(s, Append(x, b)) = Step(Scanned(s, x), b)
<1> DEFINE y == Append(x, b)
           m == Len(x)
<1>1. y \in Seq(Byte) /\ Len(y) = m + 1 /\ m \in Nat /\ y[m + 1] = b
      /\ \A n \in 1..m : x[n] = y[n]
  BY AppendProperties
<1> HIDE DEF y
<1>2. PICK f : After(s, x, f) /\ Scanned(s, x) = f[m]
  BY ScannedValue
<1>3. PICK g : After(s, y, g) /\ Scanned(s, y) = g[m + 1]
  BY <1>1, ScannedValue
<1>4. f[m] = g[m]
  BY <1>1, <1>2, <1>3, AfterAgree
<1>5. g[m + 1] = Step(g[m], b)
  BY <1>1, <1>3 DEF After
<1> QED  BY <1>2, <1>3, <1>4, <1>5 DEF y

LEMMA ScannedConcat ==
  ASSUME NEW s \in States, NEW x \in Seq(Byte), NEW y \in Seq(Byte)
  PROVE  Scanned(s, x \o y) = Scanned(Scanned(s, x), y)
<1> DEFINE S == {n \in Nat : \A z \in Seq(Byte) : Len(z) = n =>
                   Scanned(s, x \o z) = Scanned(Scanned(s, x), z)}
<1>t. Scanned(s, x) \in States
  BY ScannedType
<1>1. 0 \in S
  <2> SUFFICES ASSUME NEW z \in Seq(Byte), Len(z) = 0
               PROVE  Scanned(s, x \o z) = Scanned(Scanned(s, x), z)
    OBVIOUS
  <2>1. z = <<>>
    OBVIOUS
  <2>2. x \o z = x
    BY <2>1, ConcatEmptySeq
  <2> QED  BY <1>t, <2>1, <2>2, ScannedNothing
<1>2. ASSUME NEW n \in Nat, n \in S PROVE n + 1 \in S
  <2> SUFFICES ASSUME NEW z \in Seq(Byte), Len(z) = n + 1
               PROVE  Scanned(s, x \o z) = Scanned(Scanned(s, x), z)
    OBVIOUS
  <2>1. z # <<>>
    OBVIOUS
  <2>2. PICK w \in Seq(Byte), b \in Byte : z = Append(w, b)
    BY <2>1, SequenceEmptyOrAppend
  <2>3. Len(w) = n
    BY <2>2
  <2>4. Scanned(s, x \o w) = Scanned(Scanned(s, x), w)
    BY <1>2, <2>3
  <2>5. x \o w \in Seq(Byte)
    BY ConcatProperties
  <2>6. x \o z = Append(x \o w, b)
    BY <2>2
  <2> DEFINE t == Scanned(s, x)
             v == x \o w
  <2>7. Scanned(s, Append(v, b)) = Step(Scanned(s, v), b)
    <3> HIDE DEF v
    <3> QED  BY <2>5, ScannedAppend DEF v
  <2>8. Scanned(t, Append(w, b)) = Step(Scanned(t, w), b)
    <3> HIDE DEF t
    <3> QED  BY <1>t, ScannedAppend DEF t
  <2> QED  BY <2>2, <2>4, <2>6, <2>7, <2>8
<1> HIDE DEF S
<1>3. Nat \subseteq S
  BY <1>1, <1>2, SetInduction
<1> QED  BY <1>3, LenProperties DEF S

\* One byte: what the loop does to it.
LEMMA ScannedByte ==
  ASSUME NEW s \in States, NEW b \in Byte
  PROVE  Scanned(s, <<b>>) = Step(s, b)
<1>1. <<>> \in Seq(Byte) /\ <<b>> = Append(<<>>, b)
  OBVIOUS
<1>2. Scanned(s, Append(<<>>, b)) = Step(Scanned(s, <<>>), b)
  BY <1>1, ScannedAppend
<1> QED  BY <1>1, <1>2, ScannedNothing

\* The first byte can be looked at first.
LEMMA ScannedHead ==
  ASSUME NEW s \in States, NEW bytes \in Seq(Byte), bytes # <<>>
  PROVE  /\ Head(bytes) \in Byte /\ Tail(bytes) \in Seq(Byte)
         /\ Scanned(s, bytes) = Scanned(Step(s, Head(bytes)), Tail(bytes))
<1> DEFINE h == Head(bytes)
           t == Tail(bytes)
<1>1. h \in Byte /\ t \in Seq(Byte) /\ <<h>> \in Seq(Byte) /\ bytes = <<h>> \o t
  OBVIOUS
<1> HIDE DEF h, t
<1>2. Scanned(s, <<h>> \o t) = Scanned(Scanned(s, <<h>>), t)
  BY <1>1, ScannedConcat
<1>3. Scanned(s, <<h>>) = Step(s, h)
  BY <1>1, ScannedByte
<1> QED  BY <1>1, <1>2, <1>3 DEF h, t

-----------------------------------------------------------------------------
(* A frame that arrives as it was written *)

Inside(data, packets) ==
  [decoder |-> [inPacket |-> TRUE, escaped |-> FALSE, current |-> data], packets |-> packets]

Specials == {START, END, DLE, XON, XOFF, CAN}

LEMMA SpecialBytes ==
  /\ Specials \subseteq Byte
  /\ \A b \in Specials : 7 \notin b
BY DEF Specials, START, END, DLE, XON, XOFF, CAN, Byte

LEMMA Different ==
  /\ START # END /\ START # DLE /\ START # CAN /\ END # DLE /\ END # CAN /\ DLE # CAN
<1>1. 0 \in END /\ 0 \notin START /\ 0 \notin DLE /\ 0 \notin CAN
  BY DEF START, END, DLE, CAN
<1>2. 1 \in START /\ 1 \in DLE /\ 1 \notin CAN /\ 2 \in DLE /\ 2 \notin START
  BY DEF START, DLE, CAN
<1> QED  BY <1>1, <1>2

LEMMA InsideType ==
  ASSUME NEW data \in Seq(Byte), NEW packets \in Seq(Seq(Byte))
  PROVE  Inside(data, packets) \in States
BY DEF Inside, States, Decoders

LEMMA StartStep ==
  ASSUME NEW s \in States
  PROVE  Step(s, START) = Inside(<<>>, s.packets)
BY Different DEF Step, Scan, Inside, Outside

\* An escaped byte is read as the byte it stands for.
LEMMA EscapeUndone ==
  ASSUME NEW b \in Byte, NEW data \in Seq(Byte), NEW packets \in Seq(Seq(Byte))
  PROVE  /\ escape(b) \in Seq(Byte)
         /\ Scanned(Inside(data, packets), escape(b)) = Inside(Append(data, b), packets)
<1> DEFINE s == Inside(data, packets)
<1>1. s \in States
  BY InsideType
<1>2. CASE b \in Specials
  <2> DEFINE u == unescape(b)
             t == [decoder |-> [inPacket |-> TRUE, escaped |-> TRUE, current |-> data], packets |-> packets]
  <2>1. u \in Byte /\ DLE \in Byte
    BY ByteOfBits, SpecialBytes DEF Specials
  <2>2. 7 \in u
    BY <1>2, SpecialBytes DEF unescape, Xor
  <2>3. u \notin Specials
    BY <2>2, SpecialBytes
  <2>4. unescape(u) = b
    BY DEF unescape, Xor
  <2>5. escape(b) = <<DLE, u>>
    BY <1>2 DEF escape, Specials
  <2>6. t \in States
    BY DEF States, Decoders
  <2>7. Step(s, DLE) = t
    BY Different DEF Step, Scan, Inside
  <2> HIDE DEF u
  <2>8. Step(t, u) = Inside(Append(data, b), packets)
    BY <2>3, <2>4 DEF Step, Scan, Inside, Specials
  <2>9. <<DLE, u>> \in Seq(Byte) /\ <<DLE>> \in Seq(Byte) /\ <<DLE, u>> = Append(<<DLE>>, u)
    BY <2>1
  <2> HIDE DEF s, t
  <2>10. Scanned(s, <<DLE>>) = t
    BY <1>1, <2>1, <2>7, ScannedByte
  <2>11. Scanned(s, Append(<<DLE>>, u)) = Step(Scanned(s, <<DLE>>), u)
    BY <1>1, <2>1, <2>9, ScannedAppend
  <2> QED  BY <2>5, <2>8, <2>9, <2>10, <2>11 DEF s
<1>3. CASE b \notin Specials
  <2>1. escape(b) = <<b>> /\ <<b>> \in Seq(Byte)
    BY <1>3 DEF escape, Specials
  <2>2. Step(s, b) = Inside(Append(data, b), packets)
    BY <1>3 DEF Step, Scan, Inside, Specials
  <2> HIDE DEF s
  <2>3. Scanned(s, <<b>>) = Step(s, b)
    BY <1>1, ScannedByte
  <2> QED  BY <2>1, <2>2, <2>3 DEF s
<1> QED  BY <1>2, <1>3

Escapes(raw) == [i \in 1..Len(raw) |-> escape(raw[i])]

\* FlattenSeq() as a recursion.
LEMMA Flattened ==
  ASSUME NEW raw \in Seq(Byte), raw # <<>>
  PROVE  \E f \in [1..Len(raw) -> Seq(Byte)] :
           /\ f[1] = escape(raw[1])
           /\ \A n \in 2..Len(raw) : f[n] = f[n - 1] \o escape(raw[n])
           /\ FlattenSeq(Escapes(raw)) = f[Len(raw)]
<1> DEFINE top == Len(raw)
           T == Seq(Byte)
           e == Escapes(raw)
           move == [n \in 1..top |-> [x \in T |-> x \o e[n]]]
<1>1. top \in Nat /\ top >= 1
  OBVIOUS
<1>2. \A n \in 1..top : e[n] = escape(raw[n]) /\ e[n] \in T
  <2> SUFFICES ASSUME NEW n \in 1..top PROVE e[n] = escape(raw[n]) /\ e[n] \in T
    OBVIOUS
  <2>1. raw[n] \in Byte /\ <<>> \in Seq(Byte) /\ <<>> \in Seq(Seq(Byte))
    OBVIOUS
  <2>2. escape(raw[n]) \in T
    BY <2>1, EscapeUndone
  <2> QED  BY <2>2 DEF Escapes
<1>3. Len(e) = top /\ e \in Seq(T)
  BY <1>1, <1>2 DEF Escapes
<1> HIDE DEF e
<1>4. move \in Moves(top, T)
  BY <1>2, ConcatProperties DEF Moves
<1>5. <<>> \in T
  OBVIOUS
<1>6. \A n \in 1..top : \A x \in T : move[n][x] = x \o e[n]
  OBVIOUS
<1> HIDE DEF move, T, top
<1>7. PICK h : IsRecursive(h, top, T, <<>>, move)
  BY <1>1, <1>4, <1>5, Recursion
<1>8. h \in [0..top -> T] /\ h[0] = <<>> /\ \A n \in 1..top : h[n] = h[n - 1] \o e[n]
  <2>1. h \in [0..top -> T] /\ h[0] = <<>> /\ \A n \in 1..top : h[n] = move[n][h[n - 1]]
    BY <1>7 DEF IsRecursive
  <2>2. \A n \in 1..top : h[n - 1] \in T
    BY <1>1, <2>1
  <2> QED  BY <1>6, <2>1, <2>2
<1> DEFINE f == [n \in 1..top |-> h[n]]
<1>9. h[1] = e[1]
  <2>0. 1 \in 1..top /\ 1 - 1 = 0
    BY <1>1
  <2>1. h[1] = <<>> \o e[1] /\ e[1] \in Seq(Byte)
    BY <1>2, <1>8, <2>0 DEF T
  <2> QED  BY <2>1, ConcatEmptySeq
<1>10. f = [i \in 1..top |-> IF i = 1 THEN e[i] ELSE f[i - 1] \o e[i]]
  <2>1. \A i \in 1..top : h[i] = IF i = 1 THEN e[i] ELSE h[i - 1] \o e[i]
    BY <1>1, <1>8, <1>9
  <2>2. \A i \in 1..top : i # 1 => i - 1 \in 1..top
    BY <1>1
  <2> QED  BY <2>1, <2>2
<1> DEFINE g == CHOOSE flatten : flatten = [i \in 1..top |-> IF i = 1 THEN e[i] ELSE flatten[i - 1] \o e[i]]
<1> HIDE DEF f
<1>11. g = [i \in 1..top |-> IF i = 1 THEN e[i] ELSE g[i - 1] \o e[i]]
  BY <1>10
<1>12. FlattenSeq(e) = g[top]
  BY <1>1, <1>3 DEF FlattenSeq
<1> HIDE DEF g
<1>13. g[1] = e[1] /\ \A n \in 2..top : g[n] = g[n - 1] \o e[n]
  <2>1. \A i \in 1..top : g[i] = IF i = 1 THEN e[i] ELSE g[i - 1] \o e[i]
    BY <1>11
  <2>2. 1 \in 1..top /\ \A n \in 2..top : n \in 1..top /\ n # 1
    BY <1>1
  <2> QED  BY <2>1, <2>2
<1>14. g \in [1..top -> T]
  <2> DEFINE S == {n \in Nat : n + 1 <= top => g[n + 1] \in T}
  <2>1. 0 \in S
    BY <1>1, <1>2, <1>13
  <2>2. ASSUME NEW n \in Nat, n \in S PROVE n + 1 \in S
    <3> SUFFICES ASSUME n + 2 <= top PROVE g[n + 2] \in T
      OBVIOUS
    <3>1. g[n + 1] \in T /\ e[n + 2] \in T
      BY <1>1, <1>2, <2>2
    <3>a. n + 2 \in 2..top /\ (n + 2) - 1 = n + 1
      BY <1>1
    <3>2. g[n + 2] = g[n + 1] \o e[n + 2]
      BY <1>13, <3>a
    <3> QED  BY <3>1, <3>2, ConcatProperties DEF T
  <2> HIDE DEF S
  <2>3. Nat \subseteq S
    BY <2>1, <2>2, SetInduction
  <2>4. ASSUME NEW n \in 1..top PROVE g[n] \in T
    <3>1. n - 1 \in Nat /\ (n - 1) + 1 = n /\ n <= top
      BY <1>1
    <3>2. n - 1 \in S
      BY <2>3, <3>1
    <3> QED  BY <3>1, <3>2 DEF S
  <2> QED  BY <1>11, <2>4
<1>15. g[1] = escape(raw[1])
  <2>1. 1 \in 1..top
    BY <1>1
  <2> QED  BY <2>1, <1>2, <1>13
<1>16. \A n \in 2..top : g[n] = g[n - 1] \o escape(raw[n])
  <2>1. \A n \in 2..top : n \in 1..top
    BY <1>1
  <2> QED  BY <2>1, <1>2, <1>13
<1> QED  BY <1>12, <1>14, <1>15, <1>16 DEF top, T, e

\* What the decoder has of raw when it has read the escapes of raw, and no END yet.
LEMMA EscapesUndone ==
  ASSUME NEW raw \in Seq(Byte), raw # <<>>, NEW packets \in Seq(Seq(Byte))
  PROVE  /\ FlattenSeq(Escapes(raw)) \in Seq(Byte)
         /\ Scanned(Inside(<<>>, packets), FlattenSeq(Escapes(raw))) = Inside(raw, packets)
<1> DEFINE top == Len(raw)
           s == Inside(<<>>, packets)
<1>1. top \in Nat /\ top >= 1
  OBVIOUS
<1>2. s \in States
  <2>1. <<>> \in Seq(Byte)
    OBVIOUS
  <2> QED  BY <2>1, InsideType
<1>3. PICK f \in [1..top -> Seq(Byte)] :
        /\ f[1] = escape(raw[1])
        /\ \A n \in 2..top : f[n] = f[n - 1] \o escape(raw[n])
        /\ FlattenSeq(Escapes(raw)) = f[top]
  BY Flattened
<1>r. \A n \in 1..top : raw[n] \in Byte
  OBVIOUS
<1>4. \A n \in 1..top : SubSeq(raw, 1, n) \in Seq(Byte)
  BY <1>1, SubSeqProperties
<1>5. SubSeq(raw, 1, 1) = Append(<<>>, raw[1])
  <2>1. 1 \in 1..Len(raw) /\ 1 \in 1..(Len(raw) + 1) /\ 1 \in 0..Len(raw)
    BY <1>1
  <2>2. /\ SubSeq(raw, 1, 1) \in Seq(Byte)
        /\ Len(SubSeq(raw, 1, 1)) = 1
        /\ SubSeq(raw, 1, 1)[1] = raw[1]
    BY <2>1, SubSeqProperties
  <2> DEFINE x == SubSeq(raw, 1, 1)
  <2> HIDE DEF x
  <2>3. x \in Seq(Byte) /\ Len(x) = 1 /\ x[1] = raw[1]
    BY <2>2 DEF x
  <2>4. x = <<raw[1]>>
    BY <2>3
  <2> QED  BY <2>4 DEF x
<1>6. \A n \in 2..top : SubSeq(raw, 1, n) = Append(SubSeq(raw, 1, n - 1), raw[n])
  BY <1>1
<1>7. SubSeq(raw, 1, top) = raw
  BY <1>1
<1> DEFINE S == {n \in Nat : n + 1 <= top =>
                   Scanned(s, f[n + 1]) = Inside(SubSeq(raw, 1, n + 1), packets)}
<1> HIDE DEF s
<1>8. 0 \in S
  <2>1. raw[1] \in Byte /\ <<>> \in Seq(Byte)
    BY <1>1, <1>r
  <2>2. Scanned(s, escape(raw[1])) = Inside(Append(<<>>, raw[1]), packets)
    BY <2>1, EscapeUndone DEF s
  <2>a. 0 + 1 = 1
    OBVIOUS
  <2>b. Scanned(s, f[1]) = Inside(SubSeq(raw, 1, 1), packets)
    BY <1>3, <1>5, <2>2, Zenon
  <2>3. Scanned(s, f[0 + 1]) = Inside(SubSeq(raw, 1, 0 + 1), packets)
    BY <2>a, <2>b, Zenon
  <2> HIDE DEF top
  <2> QED  BY <2>3
<1>9. ASSUME NEW n \in Nat, n \in S PROVE n + 1 \in S
  <2> SUFFICES ASSUME n + 2 <= top
               PROVE  Scanned(s, f[n + 2]) = Inside(SubSeq(raw, 1, n + 2), packets)
    OBVIOUS
  <2> DEFINE k == n + 1
             m == n + 2
             data == SubSeq(raw, 1, k)
  <2>1. k \in 1..top /\ m \in 2..top /\ m \in 1..top /\ m - 1 = k /\ k <= top
    BY <1>1
  <2>2. Scanned(s, f[k]) = Inside(data, packets)
    BY <1>9, <2>1
  <2>3. data \in Seq(Byte) /\ f[k] \in Seq(Byte) /\ raw[m] \in Byte
    BY <1>3, <1>4, <1>r, <2>1
  <2>4. f[m] = f[k] \o escape(raw[m])
    BY <1>3, <2>1
  <2>5. SubSeq(raw, 1, m) = Append(data, raw[m])
    BY <1>6, <2>1
  <2> HIDE DEF k, m, data
  <2>6. escape(raw[m]) \in Seq(Byte)
        /\ Scanned(Inside(data, packets), escape(raw[m])) = Inside(Append(data, raw[m]), packets)
    BY <2>3, EscapeUndone
  <2>7. Scanned(s, f[k] \o escape(raw[m])) = Scanned(Scanned(s, f[k]), escape(raw[m]))
    BY <1>2, <2>3, <2>6, ScannedConcat
  <2>8. Scanned(s, f[m]) = Inside(SubSeq(raw, 1, m), packets)
    BY <2>2, <2>4, <2>5, <2>6, <2>7
  <2> QED  BY <2>8 DEF m
<1> HIDE DEF S
<1>10. Nat \subseteq S
  BY <1>8, <1>9, SetInduction
<1>11. Scanned(s, f[top]) = Inside(SubSeq(raw, 1, top), packets)
  <2>1. top - 1 \in Nat /\ (top - 1) + 1 = top
    BY <1>1
  <2>2. top - 1 \in S
    BY <1>10, <2>1
  <2> QED  BY <2>1, <2>2 DEF S
<1>12. f[top] \in Seq(Byte)
  <2>1. top \in 1..top
    BY <1>1
  <2> HIDE DEF top
  <2> QED  BY <1>3, <2>1
<1> QED  BY <1>3, <1>7, <1>11, <1>12 DEF s

LEMMA CrcBytesType ==
  ASSUME NEW data
  PROVE  CrcBytes(data) \in Seq(Byte) /\ Len(CrcBytes(data)) = CrcSize
<1>1. CrcSize \in Nat
  BY FramerAssumption
<1> DEFINE byte(k) == Masked(ShiftRight(Crc(data), 8 * (k - 1)), 8)
<1>2. \A k \in 1..CrcSize : byte(k) \in Byte
  BY DEF Masked, Byte
<1>3. CrcBytes(data) = [k \in 1..CrcSize |-> byte(k)]
  BY DEF CrcBytes
<1> HIDE DEF byte
<1> QED  BY <1>1, <1>2, <1>3

Framed(data) == (<<START>> \o FlattenSeq(Escapes(data))) \o <<END>>

\* Whatever the decoder was doing, data between START and END is read as a packet if
\* its CRC is right, and leaves nothing else behind.
LEMMA FramedRead ==
  ASSUME NEW s \in States, NEW data \in Seq(Byte), data # <<>>
  PROVE  /\ Framed(data) \in Seq(Byte)
         /\ Scanned(s, Framed(data)).packets =
              IF Genuine(data) THEN Append(s.packets, SubSeq(data, 1, Len(data) - CrcSize))
                               ELSE s.packets
<1> DEFINE body == FlattenSeq(Escapes(data))
<1>1. s.packets \in Seq(Seq(Byte)) /\ START \in Byte /\ END \in Byte
  BY SpecialBytes DEF States, Specials
<1>2. /\ body \in Seq(Byte)
      /\ Scanned(Inside(<<>>, s.packets), body) = Inside(data, s.packets)
  BY <1>1, EscapesUndone
<1>3. Framed(data) = (<<START>> \o body) \o <<END>>
  BY DEF Framed
<1> HIDE DEF body
<1>4. <<START>> \in Seq(Byte) /\ <<END>> \in Seq(Byte) /\ <<START>> \o body \in Seq(Byte)
  BY <1>1, <1>2, ConcatProperties
<1>5. Scanned(s, <<START>>) = Inside(<<>>, s.packets)
  BY <1>1, ScannedByte, StartStep
<1>6. Scanned(s, <<START>> \o body) = Scanned(Scanned(s, <<START>>), body)
  BY <1>2, <1>4, ScannedConcat
<1>7. Scanned(s, <<START>> \o body) = Inside(data, s.packets)
  BY <1>2, <1>5, <1>6
<1>8. Inside(data, s.packets) \in States
  BY <1>1, InsideType
<1>9. Scanned(s, (<<START>> \o body) \o <<END>>) = Scanned(Inside(data, s.packets), <<END>>)
  <2> DEFINE x == <<START>> \o body
             y == <<END>>
  <2>1. x \in Seq(Byte) /\ y \in Seq(Byte) /\ Scanned(s, x) = Inside(data, s.packets)
    BY <1>4, <1>7
  <2> HIDE DEF x, y
  <2>2. Scanned(s, x \o y) = Scanned(Scanned(s, x), y)
    BY <2>1, ScannedConcat
  <2> QED  BY <2>1, <2>2 DEF x, y
<1>10. Scanned(s, Framed(data)) = Step(Inside(data, s.packets), END)
  BY <1>1, <1>3, <1>8, <1>9, ScannedByte
<1>11. Step(Inside(data, s.packets), END).packets =
         IF Genuine(data) THEN Append(s.packets, SubSeq(data, 1, Len(data) - CrcSize)) ELSE s.packets
  BY DEF Step, Inside
<1>12. Framed(data) \in Seq(Byte)
  BY <1>3, <1>4, ConcatProperties
<1> QED  BY <1>10, <1>11, <1>12

\* What send_packet() puts between START and END.
Raw(p) == p \o CrcBytes(p)

LEMMA RawType ==
  ASSUME NEW p \in Packets
  PROVE  /\ Raw(p) \in Seq(Byte) /\ Raw(p) # <<>> /\ Len(Raw(p)) = Len(p) + CrcSize
         /\ SubSeq(Raw(p), 1, Len(Raw(p)) - CrcSize) = p
         /\ Genuine(Raw(p)) /\ Frame(p) = Framed(Raw(p))
<1> DEFINE raw == p \o CrcBytes(p)
<1>1. p \in Seq(Byte) /\ p # <<>> /\ CrcSize \in Nat
  BY FramerAssumption
<1>2. CrcBytes(p) \in Seq(Byte) /\ Len(CrcBytes(p)) = CrcSize
  BY CrcBytesType
<1>3. /\ raw \in Seq(Byte) /\ raw # <<>>
      /\ Len(raw) = Len(p) + CrcSize /\ Len(raw) > CrcSize
      /\ Len(raw) - CrcSize = Len(p)
  BY <1>1, <1>2
<1>4. SubSeq(raw, 1, Len(p)) = p
  BY <1>1, <1>2
<1>5. Genuine(raw)
  BY <1>3, <1>4 DEF Genuine
<1>6. Frame(p) = Framed(raw)
  BY DEF Frame, Framed, Escapes
<1> QED  BY <1>3, <1>4, <1>5, <1>6 DEF Raw

\* A frame that arrives unharmed is read as the packet it was made from.
LEMMA FrameRead ==
  ASSUME NEW s \in States, NEW p \in Packets
  PROVE  /\ Frame(p) \in Seq(Byte)
         /\ Scanned(s, Frame(p)).packets = Append(s.packets, p)
BY RawType, FramedRead

-----------------------------------------------------------------------------
(* What a decoder out of step can cost *)

Count(s) == Cardinality(Known(s.packets))
Pending(s) == IF s.decoder.inPacket THEN 1 ELSE 0

LEMMA KnownFinite ==
  ASSUME NEW packets \in Seq(Seq(Byte))
  PROVE  IsFiniteSet(Known(packets)) /\ Cardinality(Known(packets)) \in Nat
<1>1. IsFiniteSet(1..Len(packets))
  BY FS_Interval
<1>2. IsFiniteSet(Known(packets))
  BY <1>1, FS_Subset DEF Known
<1> QED  BY <1>2, FS_CardinalityType

LEMMA KnownAppend ==
  ASSUME NEW packets \in Seq(Seq(Byte)), NEW p \in Seq(Byte)
  PROVE  Cardinality(Known(Append(packets, p)))
           = Cardinality(Known(packets)) + (IF Head(p) # {} THEN 1 ELSE 0)
<1> DEFINE new == Append(packets, p)
           n == Len(packets) + 1
<1>1. /\ new \in Seq(Seq(Byte)) /\ Len(new) = n /\ n \in Nat /\ new[n] = p
      /\ \A i \in 1..Len(packets) : new[i] = packets[i]
      /\ 1..n = (1..Len(packets)) \cup {n} /\ n \notin 1..Len(packets)
  BY AppendProperties
<1> HIDE DEF new, n
<1>2. CASE Head(p) # {}
  <2>1. Known(new) = Known(packets) \cup {n} /\ n \notin Known(packets)
    BY <1>1, <1>2 DEF Known
  <2> QED  BY <1>2, <2>1, KnownFinite, FS_AddElement DEF new
<1>3. CASE ~(Head(p) # {})
  <2>1. Known(new) = Known(packets)
    BY <1>1, <1>3 DEF Known
  <2> QED  BY <1>3, <2>1, KnownFinite DEF new
<1> QED  BY <1>2, <1>3

LEMMA CountType ==
  ASSUME NEW s \in States
  PROVE  Count(s) \in Nat /\ Pending(s) \in 0..1
<1>1. s.packets \in Seq(Seq(Byte))
  BY DEF States
<1> QED  BY <1>1, KnownFinite DEF Count, Pending

\* A byte completes at most one packet, that of the frame the decoder is in, and takes
\* none back.  Only START leads into a frame.
LEMMA StepCount ==
  ASSUME NEW s \in States, NEW b \in Byte
  PROVE  /\ Count(Step(s, b)) >= Count(s)
         /\ Count(Step(s, b)) + Pending(Step(s, b)) <= Count(s) + 1
         /\ b # START => Count(Step(s, b)) + Pending(Step(s, b)) <= Count(s) + Pending(s)
<1> DEFINE t == Step(s, b)
           raw == SubSeq(s.decoder.current, 1, Len(s.decoder.current) - CrcSize)
           Goal == /\ Count(t) >= Count(s)
                   /\ Count(t) + Pending(t) <= Count(s) + 1
                   /\ b # START => Count(t) + Pending(t) <= Count(s) + Pending(s)
<1>1. s.packets \in Seq(Seq(Byte)) /\ s.decoder.current \in Seq(Byte) /\ s.decoder.inPacket \in BOOLEAN
  BY DEF States, Decoders
<1>2. t \in States
  BY StepType
<1>3. t.decoder = Scan(s.decoder, b)
  BY DEF Step
<1>4. /\ Count(s) \in Nat /\ Count(t) \in Nat /\ Pending(s) \in 0..1 /\ Pending(t) \in 0..1
  BY <1>2, CountType
<1>5. CASE b = END /\ s.decoder.inPacket
  <2>1. ~t.decoder.inPacket
    BY <1>1, <1>3, <1>5, Different DEF Scan, States, Decoders
  <2>2. Pending(t) = 0 /\ Pending(s) = 1
    BY <1>5, <2>1 DEF Pending
  <2>3. Count(t) = Count(s) \/ Count(t) = Count(s) + 1
    <3>1. CASE Genuine(s.decoder.current)
      <4>1. raw \in Seq(Byte)
        BY <1>1, <3>1, GenuineType
      <4>2. t.packets = Append(s.packets, raw)
        BY <1>5, <3>1 DEF Step
      <4> HIDE DEF raw, t
      <4>3. Count(t) = Count(s) + (IF Head(raw) # {} THEN 1 ELSE 0)
        BY <1>1, <4>1, <4>2, KnownAppend DEF Count
      <4> QED  BY <1>4, <4>3
    <3>2. CASE ~Genuine(s.decoder.current)
      <4>1. t.packets = s.packets
        BY <3>2 DEF Step
      <4> QED  BY <4>1 DEF Count
    <3> QED  BY <3>1, <3>2
  <2>4. Goal
    <3> HIDE DEF t
    <3> QED  BY <1>4, <1>5, <2>2, <2>3
  <2> QED  BY <2>4
<1>6. CASE ~(b = END /\ s.decoder.inPacket)
  <2>1. t.packets = s.packets
    BY <1>6 DEF Step
  <2>2. Count(t) = Count(s)
    BY <2>1 DEF Count
  <2>3. b # START => (t.decoder.inPacket => s.decoder.inPacket)
    BY <1>1, <1>3 DEF Scan, States, Decoders
  <2>4. b # START => Pending(t) <= Pending(s)
    BY <2>3 DEF Pending
  <2>5. Goal
    <3> HIDE DEF t
    <3> QED  BY <1>4, <2>2, <2>4
  <2> QED  BY <2>5
<1> QED  BY <1>5, <1>6

\* The distance between two readings of the same bytes: what the first has is at most
\* what the second has and lost more, with the frame the first is in, or, once both
\* are in the same state, without it.
Near(s, t, lost) ==
  \/ Count(s) + Pending(s) <= Count(t) + lost
  \/ s.decoder = t.decoder /\ Count(s) <= Count(t) + lost

LEMMA SameStep ==
  ASSUME NEW s \in States, NEW t \in States, NEW b \in Byte, s.decoder = t.decoder
  PROVE  /\ Step(s, b).decoder = Step(t, b).decoder
         /\ Count(Step(s, b)) - Count(s) = Count(Step(t, b)) - Count(t)
<1> DEFINE raw == SubSeq(s.decoder.current, 1, Len(s.decoder.current) - CrcSize)
<1>1. /\ s.packets \in Seq(Seq(Byte)) /\ t.packets \in Seq(Seq(Byte))
      /\ s.decoder.current \in Seq(Byte)
  BY DEF States, Decoders
<1>2. Count(s) \in Nat /\ Count(t) \in Nat
  BY CountType
<1>3. Step(s, b).decoder = Step(t, b).decoder
  BY DEF Step
<1>4. CASE b = END /\ s.decoder.inPacket /\ Genuine(s.decoder.current)
  <2>1. raw \in Seq(Byte)
    BY <1>1, <1>4, GenuineType
  <2>2. Step(s, b).packets = Append(s.packets, raw) /\ Step(t, b).packets = Append(t.packets, raw)
    BY <1>4 DEF Step
  <2> HIDE DEF raw
  <2>3. /\ Count(Step(s, b)) = Count(s) + (IF Head(raw) # {} THEN 1 ELSE 0)
        /\ Count(Step(t, b)) = Count(t) + (IF Head(raw) # {} THEN 1 ELSE 0)
    BY <1>1, <2>1, <2>2, KnownAppend DEF Count
  <2> QED  BY <1>2, <1>3, <2>3
<1>5. CASE ~(b = END /\ s.decoder.inPacket /\ Genuine(s.decoder.current))
  <2>1. Step(s, b).packets = s.packets /\ Step(t, b).packets = t.packets
    BY <1>5 DEF Step
  <2>2. Count(Step(s, b)) = Count(s) /\ Count(Step(t, b)) = Count(t)
    BY <2>1 DEF Count
  <2> QED  BY <1>2, <1>3, <2>2
<1> QED  BY <1>4, <1>5

LEMMA NearStep ==
  ASSUME NEW s \in States, NEW t \in States, NEW b \in Byte, NEW lost \in Nat, Near(s, t, lost)
  PROVE  Near(Step(s, b), Step(t, b), lost)
<1> DEFINE u == Step(s, b)
           v == Step(t, b)
<1>1. u \in States /\ v \in States
  BY StepType
<1>2. /\ Count(s) \in Nat /\ Count(t) \in Nat /\ Count(u) \in Nat /\ Count(v) \in Nat
      /\ Pending(s) \in 0..1 /\ Pending(u) \in 0..1
  BY <1>1, CountType
<1>3. /\ Count(v) >= Count(t)
      /\ b # START => Count(u) + Pending(u) <= Count(s) + Pending(s)
  BY StepCount
<1>4. CASE s.decoder = t.decoder /\ Count(s) <= Count(t) + lost
  <2>1. u.decoder = v.decoder /\ Count(u) - Count(s) = Count(v) - Count(t)
    BY <1>4, SameStep
  <2> HIDE DEF u, v
  <2> QED  BY <1>2, <1>4, <2>1 DEF Near, u, v
<1>5. CASE Count(s) + Pending(s) <= Count(t) + lost
  <2>1. CASE b # START
    <3>1. Count(u) + Pending(u) <= Count(v) + lost
      <4> HIDE DEF u, v
      <4> QED  BY <1>2, <1>3, <1>5, <2>1
    <3> QED  BY <3>1 DEF Near
  <2>2. CASE b = START
    <3>1. u = Inside(<<>>, s.packets) /\ v = Inside(<<>>, t.packets)
      BY <2>2, StartStep
    <3>2. u.decoder = v.decoder /\ Count(u) = Count(s) /\ Count(v) = Count(t)
      BY <3>1 DEF Inside, Count
    <3>3. Count(u) <= Count(v) + lost
      <4> HIDE DEF u, v
      <4> QED  BY <1>2, <1>5, <3>2
    <3> QED  BY <3>2, <3>3 DEF Near
  <2> QED  BY <2>1, <2>2
<1> QED  BY <1>4, <1>5 DEF Near

\* The decoder is in step again at the next START: what follows costs nothing more.
LEMMA NearScanned ==
  ASSUME NEW s \in States, NEW t \in States, NEW bytes \in Seq(Byte), NEW lost \in Nat,
         Near(s, t, lost)
  PROVE  Count(Scanned(s, bytes)) <= Count(Scanned(t, bytes)) + lost
<1> DEFINE S == {n \in Nat : \A z \in Seq(Byte) : Len(z) = n =>
                   Near(Scanned(s, z), Scanned(t, z), lost)}
<1>1. 0 \in S
  <2> SUFFICES ASSUME NEW z \in Seq(Byte), Len(z) = 0
               PROVE  Near(Scanned(s, z), Scanned(t, z), lost)
    OBVIOUS
  <2>1. z = <<>>
    OBVIOUS
  <2> QED  BY <2>1, ScannedNothing
<1>2. ASSUME NEW n \in Nat, n \in S PROVE n + 1 \in S
  <2> SUFFICES ASSUME NEW z \in Seq(Byte), Len(z) = n + 1
               PROVE  Near(Scanned(s, z), Scanned(t, z), lost)
    OBVIOUS
  <2>1. z # <<>>
    OBVIOUS
  <2>2. PICK w \in Seq(Byte), b \in Byte : z = Append(w, b)
    BY <2>1, SequenceEmptyOrAppend
  <2>3. Len(w) = n
    BY <2>2
  <2>4. Near(Scanned(s, w), Scanned(t, w), lost)
    BY <1>2, <2>3
  <2>5. Scanned(s, w) \in States /\ Scanned(t, w) \in States
    BY ScannedType
  <2>6. Near(Step(Scanned(s, w), b), Step(Scanned(t, w), b), lost)
    BY <2>4, <2>5, NearStep
  <2>7. Scanned(s, z) = Step(Scanned(s, w), b) /\ Scanned(t, z) = Step(Scanned(t, w), b)
    BY <2>2, ScannedAppend
  <2> QED  BY <2>6, <2>7
<1> HIDE DEF S
<1>3. Nat \subseteq S
  BY <1>1, <1>2, SetInduction
<1>4. Near(Scanned(s, bytes), Scanned(t, bytes), lost)
  BY <1>3, LenProperties DEF S
<1> DEFINE u == Scanned(s, bytes)
           v == Scanned(t, bytes)
<1>5. u \in States /\ v \in States
  BY ScannedType
<1>6. Count(u) \in Nat /\ Count(v) \in Nat /\ Pending(u) \in 0..1
  BY <1>5, CountType
<1> HIDE DEF u, v
<1> QED  BY <1>4, <1>6 DEF Near, u, v

-----------------------------------------------------------------------------
(* What the CRCs detect *)

Register(width) == SUBSET (0..(width - 1))

\* What the proofs need of a polynomial that is shifted to the left: its last bit is
\* set, so a round that has lost the top bit shows it there.
Shifted(width, poly) == width \in Nat /\ width >= 8 /\ poly \subseteq 0..(width - 1) /\ 0 \in poly

LEMMA Polynomials ==
  /\ Shifted(16, Poly16) /\ Shifted(24, Poly24)
  /\ Poly32 \subseteq 0..31 /\ 31 \in Poly32
BY DEF Shifted, Poly16, Poly24, Poly32

\* A round loses nothing: two registers that differ, differ after it.
LEMMA RoundInjective ==
  ASSUME NEW width, NEW poly, Shifted(width, poly), NEW c \in Register(width), NEW d \in Register(width)
  PROVE  /\ Round(c, width, poly) \in Register(width)
         /\ Round(c, width, poly) = Round(d, width, poly) => c = d
<1> DEFINE top == width - 1
           Bit(x, i) == i \in 0..top /\ ~((i - 1 \in x) <=> (top \in x /\ i \in poly))
<1>1. width \in Nat /\ top \in Nat /\ poly \subseteq 0..top /\ 0 \in poly /\ top >= 7
  BY DEF Shifted
<1>2. ASSUME NEW x \in Register(width) PROVE \A i : i \in Round(x, width, poly) <=> Bit(x, i)
  <2>1. x \subseteq 0..top
    BY DEF Register
  <2>2. \A i \in 0..top : i \in ShiftLeft(x, 1) <=> i - 1 \in x
    BY <1>1, <2>1 DEF ShiftLeft
  <2> QED  BY <1>1, <2>2 DEF Round, Masked, Xor
<1>3. Round(c, width, poly) \in Register(width)
  BY DEF Round, Masked, Register
<1>4. ASSUME Round(c, width, poly) = Round(d, width, poly) PROVE c = d
  <2>1. \A i : Bit(c, i) <=> Bit(d, i)
    BY <1>2, <1>4
  <2>2. c \subseteq 0..top /\ d \subseteq 0..top
    BY DEF Register
  <2>3. top \in c <=> top \in d
    <3>1. -1 \notin c /\ -1 \notin d /\ 0 - 1 = -1
      BY <1>1, <2>2
    <3>2. 0 \in 0..top
      BY <1>1
    <3>3. Bit(c, 0) <=> Bit(d, 0)
      BY <2>1
    <3> QED  BY <1>1, <3>1, <3>2, <3>3
  <2>4. ASSUME NEW i \in 0..top, i # top PROVE i \in c <=> i \in d
    <3>1. i + 1 \in 0..top /\ (i + 1) - 1 = i
      BY <1>1, <2>4
    <3>2. Bit(c, i + 1) <=> Bit(d, i + 1)
      BY <2>1
    <3> QED  BY <2>3, <3>1, <3>2
  <2>5. \A i : i \in c <=> i \in d
    <3> HIDE DEF Bit
    <3> QED  BY <2>2, <2>3, <2>4
  <2> QED  BY <2>5
<1> QED  BY <1>3, <1>4

LEMMA RoundReflectedInjective ==
  ASSUME NEW c \in Register(32), NEW d \in Register(32)
  PROVE  /\ RoundReflected(c, Poly32) \in Register(32)
         /\ RoundReflected(c, Poly32) = RoundReflected(d, Poly32) => c = d
<1> DEFINE Bit(x, i) == i \in 0..31 /\ ~((i + 1 \in x) <=> (0 \in x /\ i \in Poly32))
<1>1. ASSUME NEW x \in Register(32) PROVE \A i : i \in RoundReflected(x, Poly32) <=> Bit(x, i)
  <2>1. x \subseteq 0..31
    BY DEF Register
  <2>2. \A i : i \in ShiftRight(x, 1) <=> i \in 0..31 /\ i + 1 \in x
    BY <2>1 DEF ShiftRight
  <2> DEFINE m == ShiftRight(x, 1)
             p == IF 0 \in x THEN Poly32 ELSE {}
  <2>3. \A i : i \in RoundReflected(x, Poly32) <=> ~((i \in m) <=> (i \in p))
    BY DEF RoundReflected, Xor
  <2>4. \A i : i \in p <=> (0 \in x /\ i \in Poly32)
    OBVIOUS
  <2>5. \A i : i \in Poly32 => i \in 0..31
    BY Polynomials
  <2> HIDE DEF m, p
  <2>6. \A i : i \in m <=> i \in 0..31 /\ i + 1 \in x
    BY <2>2 DEF m
  <2>7. ASSUME NEW i PROVE i \in RoundReflected(x, Poly32) <=> Bit(x, i)
    <3>1. (i \in RoundReflected(x, Poly32)) <=> ~((i \in m) <=> (i \in p))
      BY <2>3
    <3>2. (i \in m <=> i \in 0..31 /\ i + 1 \in x) /\ (i \in p <=> (0 \in x /\ i \in Poly32))
      BY <2>4, <2>6
    <3>3. i \in Poly32 => i \in 0..31
      BY <2>5
    <3> HIDE DEF m, p
    <3> QED  BY <3>1, <3>2, <3>3, Zenon
  <2> QED  BY <2>7
<1>2. RoundReflected(c, Poly32) \in Register(32)
  BY <1>1 DEF Register
<1>3. ASSUME RoundReflected(c, Poly32) = RoundReflected(d, Poly32) PROVE c = d
  <2>1. \A i : Bit(c, i) <=> Bit(d, i)
    BY <1>1, <1>3
  <2>2. c \subseteq 0..31 /\ d \subseteq 0..31
    BY DEF Register
  <2>3. 0 \in c <=> 0 \in d
    <3>1. 31 + 1 \notin c /\ 31 + 1 \notin d
      BY <2>2
    <3>2. Bit(c, 31) <=> Bit(d, 31)
      BY <2>1
    <3> QED  BY <3>1, <3>2, Polynomials
  <2>4. ASSUME NEW i \in 0..31, i # 0 PROVE i \in c <=> i \in d
    <3>1. i - 1 \in 0..31 /\ (i - 1) + 1 = i
      BY <2>4
    <3>2. Bit(c, i - 1) <=> Bit(d, i - 1)
      BY <2>1
    <3> QED  BY <2>3, <3>1, <3>2
  <2>5. \A i : i \in c <=> i \in d
    <3> HIDE DEF Bit
    <3> QED  BY <2>2, <2>3, <2>4
  <2> QED  BY <2>5
<1> QED  BY <1>2, <1>3

RoundMoves(width, poly) == [k \in 1..8 |-> [x \in Register(width) |-> Round(x, width, poly)]]

LEMMA RoundMovesType ==
  ASSUME NEW width, NEW poly, Shifted(width, poly)
  PROVE  /\ RoundMoves(width, poly) \in Moves(8, Register(width))
         /\ \A k \in 1..8 : \A x \in Register(width) :
              RoundMoves(width, poly)[k][x] = Round(x, width, poly)
BY RoundInjective DEF RoundMoves, Moves

\* The eight rounds as a recursion.
LEMMA RoundsValue ==
  ASSUME NEW width, NEW poly, Shifted(width, poly), NEW c \in Register(width)
  PROVE  \E f : /\ IsRecursive(f, 8, Register(width), c, RoundMoves(width, poly))
                /\ Rounds(c, width, poly) = f[8]
<1> DEFINE T == Register(width)
           move == RoundMoves(width, poly)
<1>1. move \in Moves(8, T) /\ \A k \in 1..8 : \A x \in T : move[k][x] = Round(x, width, poly)
  BY RoundMovesType
<1>t. c \in T /\ 8 \in Nat
  OBVIOUS
<1> HIDE DEF T, move
<1>2. PICK h : IsRecursive(h, 8, T, c, move)
  BY <1>1, <1>t, Recursion
<1>3. h \in [0..8 -> T] /\ h[0] = c /\ \A k \in 1..8 : h[k] = move[k][h[k - 1]]
  BY <1>2 DEF IsRecursive
<1>4. \A k \in 1..8 : h[k] = Round(h[k - 1], width, poly)
  BY <1>1, <1>3
<1>5. h = [k \in 0..8 |-> IF k = 0 THEN c ELSE Round(h[k - 1], width, poly)]
  BY <1>3, <1>4
<1> DEFINE g == CHOOSE after : after = [k \in 0..8 |-> IF k = 0 THEN c ELSE Round(after[k - 1], width, poly)]
<1>6. g = [k \in 0..8 |-> IF k = 0 THEN c ELSE Round(g[k - 1], width, poly)]
  BY <1>5
<1>7. Rounds(c, width, poly) = g[8]
  BY DEF Rounds
<1> HIDE DEF g
<1>8. g = [k \in 0..8 |-> g[k]] /\ g[0] = c /\ \A k \in 1..8 : g[k] = Round(g[k - 1], width, poly)
  BY <1>6
<1>9. \A k \in 1..8 : g[k - 1] \in T => g[k] = move[k][g[k - 1]]
  BY <1>1, <1>8
<1>10. IsRecursive(g, 8, T, c, move)
  BY <1>1, <1>t, <1>8, <1>9, RecursionType
<1> QED  BY <1>7, <1>10 DEF T, move

LEMMA RoundsInjective ==
  ASSUME NEW width, NEW poly, Shifted(width, poly), NEW c \in Register(width), NEW d \in Register(width)
  PROVE  /\ Rounds(c, width, poly) \in Register(width)
         /\ Rounds(c, width, poly) = Rounds(d, width, poly) => c = d
<1> DEFINE T == Register(width)
           move == RoundMoves(width, poly)
<1>1. PICK f : IsRecursive(f, 8, T, c, move) /\ Rounds(c, width, poly) = f[8]
  BY RoundsValue
<1>2. PICK g : IsRecursive(g, 8, T, d, move) /\ Rounds(d, width, poly) = g[8]
  BY RoundsValue
<1>3. move \in Moves(8, T) /\ \A k \in 1..8 : \A x \in T : move[k][x] = Round(x, width, poly)
  BY RoundMovesType
<1>4. \A x, y \in T : Round(x, width, poly) = Round(y, width, poly) => x = y
  BY RoundInjective
<1>5. \A k \in 1..8 : \A x, y \in T : move[k][x] = move[k][y] => x = y
  <2> HIDE DEF move, T
  <2> QED  BY <1>3, <1>4
<1>t. c \in T /\ d \in T /\ 8 \in Nat /\ 0 \in 0..8
  OBVIOUS
<1> HIDE DEF T, move
<1>6. f[0] = c /\ g[0] = d /\ f[8] \in T
  BY <1>1, <1>2 DEF IsRecursive
<1>7. c # d => f[8] # g[8]
  <2> SUFFICES ASSUME c # d PROVE f[8] # g[8]
    OBVIOUS
  <2>1. f[0] # g[0]
    BY <1>6
  <2>2. Lossless(move, move, 0, 8, T)
    BY <1>5 DEF Lossless
  <2> QED  BY <1>1, <1>2, <1>3, <1>t, <2>1, <2>2, RecursionDiffers
<1> QED  BY <1>1, <1>2, <1>6, <1>7 DEF T

ReflectedMoves == [k \in 1..8 |-> [x \in Register(32) |-> RoundReflected(x, Poly32)]]

LEMMA ReflectedMovesType ==
  /\ ReflectedMoves \in Moves(8, Register(32))
  /\ \A k \in 1..8 : \A x \in Register(32) : ReflectedMoves[k][x] = RoundReflected(x, Poly32)
BY RoundReflectedInjective DEF ReflectedMoves, Moves

LEMMA RoundsReflectedValue ==
  ASSUME NEW c \in Register(32)
  PROVE  \E f : /\ IsRecursive(f, 8, Register(32), c, ReflectedMoves)
                /\ RoundsReflected(c, Poly32) = f[8]
<1> DEFINE T == Register(32)
           move == ReflectedMoves
<1>1. move \in Moves(8, T) /\ \A k \in 1..8 : \A x \in T : move[k][x] = RoundReflected(x, Poly32)
  BY ReflectedMovesType
<1>t. c \in T /\ 8 \in Nat
  OBVIOUS
<1> HIDE DEF T, move
<1>2. PICK h : IsRecursive(h, 8, T, c, move)
  BY <1>1, <1>t, Recursion
<1>3. h \in [0..8 -> T] /\ h[0] = c /\ \A k \in 1..8 : h[k] = move[k][h[k - 1]]
  BY <1>2 DEF IsRecursive
<1>4. \A k \in 1..8 : h[k] = RoundReflected(h[k - 1], Poly32)
  BY <1>1, <1>3
<1>5. h = [k \in 0..8 |-> IF k = 0 THEN c ELSE RoundReflected(h[k - 1], Poly32)]
  BY <1>3, <1>4
<1> DEFINE g == CHOOSE after : after = [k \in 0..8 |-> IF k = 0 THEN c ELSE RoundReflected(after[k - 1], Poly32)]
<1>6. g = [k \in 0..8 |-> IF k = 0 THEN c ELSE RoundReflected(g[k - 1], Poly32)]
  BY <1>5
<1>7. RoundsReflected(c, Poly32) = g[8]
  BY DEF RoundsReflected
<1> HIDE DEF g
<1>8. g = [k \in 0..8 |-> g[k]] /\ g[0] = c /\ \A k \in 1..8 : g[k] = RoundReflected(g[k - 1], Poly32)
  BY <1>6
<1>9. \A k \in 1..8 : g[k - 1] \in T => g[k] = move[k][g[k - 1]]
  BY <1>1, <1>8
<1>10. IsRecursive(g, 8, T, c, move)
  BY <1>1, <1>t, <1>8, <1>9, RecursionType
<1> QED  BY <1>7, <1>10 DEF T, move

LEMMA RoundsReflectedInjective ==
  ASSUME NEW c \in Register(32), NEW d \in Register(32)
  PROVE  /\ RoundsReflected(c, Poly32) \in Register(32)
         /\ RoundsReflected(c, Poly32) = RoundsReflected(d, Poly32) => c = d
<1> DEFINE T == Register(32)
           move == ReflectedMoves
<1>1. PICK f : IsRecursive(f, 8, T, c, move) /\ RoundsReflected(c, Poly32) = f[8]
  BY RoundsReflectedValue
<1>2. PICK g : IsRecursive(g, 8, T, d, move) /\ RoundsReflected(d, Poly32) = g[8]
  BY RoundsReflectedValue
<1>3. move \in Moves(8, T) /\ \A k \in 1..8 : \A x \in T : move[k][x] = RoundReflected(x, Poly32)
  BY ReflectedMovesType
<1>4. \A x, y \in T : RoundReflected(x, Poly32) = RoundReflected(y, Poly32) => x = y
  BY RoundReflectedInjective
<1>5. \A k \in 1..8 : \A x, y \in T : move[k][x] = move[k][y] => x = y
  <2> HIDE DEF move, T
  <2> QED  BY <1>3, <1>4
<1>t. c \in T /\ d \in T /\ 8 \in Nat /\ 0 \in 0..8
  OBVIOUS
<1> HIDE DEF T, move
<1>6. f[0] = c /\ g[0] = d /\ f[8] \in T
  BY <1>1, <1>2 DEF IsRecursive
<1>7. c # d => f[8] # g[8]
  <2> SUFFICES ASSUME c # d PROVE f[8] # g[8]
    OBVIOUS
  <2>1. f[0] # g[0]
    BY <1>6
  <2>2. Lossless(move, move, 0, 8, T)
    BY <1>5 DEF Lossless
  <2> QED  BY <1>1, <1>2, <1>3, <1>t, <2>1, <2>2, RecursionDiffers
<1> QED  BY <1>1, <1>2, <1>6, <1>7 DEF T

LEMMA XorInjective ==
  ASSUME NEW a, NEW b, NEW c
  PROVE  /\ Xor(a, c) = Xor(b, c) => a = b
         /\ Xor(c, a) = Xor(c, b) => a = b
<1>1. ASSUME Xor(a, c) = Xor(b, c) PROVE a = b
  <2>1. \A i : i \in Xor(a, c) <=> i \in Xor(b, c)
    BY <1>1
  <2>2. \A i : i \in a <=> i \in b
    BY <2>1 DEF Xor
  <2> QED  BY <2>2
<1>2. ASSUME Xor(c, a) = Xor(c, b) PROVE a = b
  <2>1. \A i : i \in Xor(c, a) <=> i \in Xor(c, b)
    BY <1>2
  <2>2. \A i : i \in a <=> i \in b
    BY <2>1 DEF Xor
  <2> QED  BY <2>2
<1> QED  BY <1>1, <1>2

LEMMA ShiftLeftInjective ==
  ASSUME NEW width \in Nat, width >= 8, NEW b \in Byte, NEW c \in Byte
  PROVE  /\ ShiftLeft(b, width - 8) \in Register(width)
         /\ ShiftLeft(b, width - 8) = ShiftLeft(c, width - 8) => b = c
<1> DEFINE k == width - 8
<1>1. k \in Nat /\ b \subseteq 0..7 /\ c \subseteq 0..7 /\ 7 + k = width - 1
  BY DEF Byte
<1> HIDE DEF k
<1>2. \A x \in Byte : \A i \in 0..7 : i + k \in ShiftLeft(x, k) <=> i \in x
  <2> SUFFICES ASSUME NEW x \in Byte, NEW i \in 0..7 PROVE i + k \in ShiftLeft(x, k) <=> i \in x
    OBVIOUS
  <2>1. x \subseteq 0..7
    BY DEF Byte
  <2>2. \A j \in x : j + k = i + k => j = i
    BY <1>1, <2>1
  <2> QED  BY <2>2 DEF ShiftLeft
<1>3. ShiftLeft(b, k) \in Register(width)
  <2>1. \A j \in b : j + k \in 0..(width - 1)
    BY <1>1
  <2> QED  BY <2>1 DEF ShiftLeft, Register
<1>4. ASSUME ShiftLeft(b, k) = ShiftLeft(c, k) PROVE b = c
  <2>1. \A i \in 0..7 : i \in b <=> i \in c
    BY <1>2, <1>4
  <2> QED  BY <1>1, <2>1
<1> QED  BY <1>3, <1>4 DEF k

LEMMA XorRegister ==
  ASSUME NEW width, NEW a \in Register(width), NEW b \in Register(width)
  PROVE  Xor(a, b) \in Register(width)
BY DEF Xor, Register

\* Two sequences of bytes that differ in one place only.
DifferAt(x, y, m) ==
  /\ x \in Seq(Byte) /\ y \in Seq(Byte) /\ Len(x) = Len(y)
  /\ m \in 1..Len(x) /\ x[m] # y[m]
  /\ \A n \in 1..Len(x) : n # m => x[n] = y[n]

LeftMoves(data, width, poly) ==
  [n \in 1..Len(data) |->
     [r \in Register(width) |-> Rounds(Xor(r, ShiftLeft(data[n], width - 8)), width, poly)]]

LEMMA LeftMovesType ==
  ASSUME NEW width, NEW poly, Shifted(width, poly), NEW data \in Seq(Byte)
  PROVE  /\ LeftMoves(data, width, poly) \in Moves(Len(data), Register(width))
         /\ \A n \in 1..Len(data) : \A r \in Register(width) :
              /\ LeftMoves(data, width, poly)[n][r]
                   = Rounds(Xor(r, ShiftLeft(data[n], width - 8)), width, poly)
              /\ Xor(r, ShiftLeft(data[n], width - 8)) \in Register(width)
<1> DEFINE T == Register(width)
           s(n) == ShiftLeft(data[n], width - 8)
           to(n, r) == Rounds(Xor(r, s(n)), width, poly)
<1>1. \A n \in 1..Len(data) : s(n) \in T
  <2>1. width \in Nat /\ width >= 8 /\ \A n \in 1..Len(data) : data[n] \in Byte
    BY DEF Shifted
  <2> QED  BY <2>1, ShiftLeftInjective
<1> HIDE DEF s, T
<1>2. \A n \in 1..Len(data) : \A r \in T : Xor(r, s(n)) \in T
  BY <1>1, XorRegister DEF T
<1>3. \A n \in 1..Len(data) : \A r \in T : to(n, r) \in T
  BY <1>2, RoundsInjective DEF T
<1>4. LeftMoves(data, width, poly) = [n \in 1..Len(data) |-> [r \in T |-> to(n, r)]]
  BY DEF LeftMoves, T, s
<1> HIDE DEF to
<1>5. LeftMoves(data, width, poly) \in Moves(Len(data), T)
  BY <1>3, <1>4 DEF Moves
<1>6. \A n \in 1..Len(data) : \A r \in T : LeftMoves(data, width, poly)[n][r] = to(n, r)
  BY <1>4
<1> QED  BY <1>2, <1>5, <1>6 DEF to, s, T

LEMMA EmptyRegister == ASSUME NEW width PROVE {} \in Register(width)
BY DEF Register

\* A CRC that is shifted to the left as a recursion over the bytes.
LEMMA CrcLeftValue ==
  ASSUME NEW width, NEW poly, Shifted(width, poly), NEW data \in Seq(Byte)
  PROVE  \E f : /\ IsRecursive(f, Len(data), Register(width), {}, LeftMoves(data, width, poly))
                /\ CrcLeft(data, width, poly) = f[Len(data)]
<1> DEFINE T == Register(width)
           top == Len(data)
           move == LeftMoves(data, width, poly)
           to(n, r) == Rounds(Xor(r, ShiftLeft(data[n], width - 8)), width, poly)
<1>1. move \in Moves(top, T) /\ \A n \in 1..top : \A r \in T : move[n][r] = to(n, r)
  BY LeftMovesType
<1>t. {} \in T /\ top \in Nat
  BY EmptyRegister
<1>7. CrcLeft(data, width, poly)
        = (CHOOSE after : after = [n \in 0..top |-> IF n = 0 THEN {} ELSE to(n, after[n - 1])])[top]
  BY DEF CrcLeft
<1> HIDE DEF T, move, to, top
<1>2. PICK h : IsRecursive(h, top, T, {}, move)
  BY <1>1, <1>t, Recursion
<1>3. h \in [0..top -> T] /\ h[0] = {} /\ \A n \in 1..top : h[n] = move[n][h[n - 1]]
  BY <1>2 DEF IsRecursive
<1>4. \A n \in 1..top : h[n] = to(n, h[n - 1])
  <2>1. \A n \in 1..top : h[n - 1] \in T
    BY <1>3, <1>t
  <2> QED  BY <1>1, <1>3, <2>1
<1>5. h = [n \in 0..top |-> IF n = 0 THEN {} ELSE to(n, h[n - 1])]
  <2>1. \A n \in 0..top : h[n] = IF n = 0 THEN {} ELSE to(n, h[n - 1])
    BY <1>t, <1>3, <1>4
  <2> QED  BY <1>3, <2>1
<1> DEFINE g == CHOOSE after : after = [n \in 0..top |-> IF n = 0 THEN {} ELSE to(n, after[n - 1])]
<1>6. g = [n \in 0..top |-> IF n = 0 THEN {} ELSE to(n, g[n - 1])]
  BY <1>5
<1>c. CrcLeft(data, width, poly) = g[top]
  BY <1>7
<1> HIDE DEF g
<1>8. g = [n \in 0..top |-> g[n]] /\ g[0] = {} /\ \A n \in 1..top : g[n] = to(n, g[n - 1])
  BY <1>6, <1>t
<1>9. \A n \in 1..top : g[n - 1] \in T => g[n] = move[n][g[n - 1]]
  BY <1>1, <1>8
<1>10. IsRecursive(g, top, T, {}, move)
  BY <1>1, <1>t, <1>8, <1>9, RecursionType
<1> QED  BY <1>c, <1>10 DEF T, move, top

LEMMA CrcLeftDiffers ==
  ASSUME NEW width, NEW poly, Shifted(width, poly), NEW x, NEW y, NEW m, DifferAt(x, y, m)
  PROVE  CrcLeft(x, width, poly) # CrcLeft(y, width, poly)
<1> DEFINE T == Register(width)
           top == Len(x)
           m1 == LeftMoves(x, width, poly)
           m2 == LeftMoves(y, width, poly)
           s(z, n) == ShiftLeft(z[n], width - 8)
           to(z, n, r) == Rounds(Xor(r, s(z, n)), width, poly)
<1>0. /\ x \in Seq(Byte) /\ y \in Seq(Byte) /\ Len(y) = top /\ top \in Nat
      /\ m \in 1..top /\ m \in 0..top /\ m - 1 \in 0..top /\ m \in Nat
      /\ x[m] # y[m] /\ x[m] \in Byte /\ y[m] \in Byte
      /\ \A n \in 1..top : n # m => x[n] = y[n]
      /\ \A n \in 1..top : x[n] \in Byte /\ y[n] \in Byte
      /\ {} \in T /\ width \in Nat /\ width >= 8
  BY EmptyRegister DEF DifferAt, Shifted
<1>1. PICK f : IsRecursive(f, top, T, {}, m1) /\ CrcLeft(x, width, poly) = f[top]
  BY <1>0, CrcLeftValue
<1>2. PICK g : IsRecursive(g, top, T, {}, m2) /\ CrcLeft(y, width, poly) = g[top]
  BY <1>0, CrcLeftValue
<1>3. /\ m1 \in Moves(top, T) /\ m2 \in Moves(top, T)
      /\ \A n \in 1..top : \A r \in T : m1[n][r] = to(x, n, r) /\ m2[n][r] = to(y, n, r)
      /\ \A n \in 1..top : \A r \in T : Xor(r, s(x, n)) \in T /\ Xor(r, s(y, n)) \in T
  <2>1. /\ m1 \in Moves(Len(x), T)
        /\ \A n \in 1..Len(x) : \A r \in T : m1[n][r] = to(x, n, r) /\ Xor(r, s(x, n)) \in T
    BY <1>0, LeftMovesType
  <2>2. /\ m2 \in Moves(Len(y), T)
        /\ \A n \in 1..Len(y) : \A r \in T : m2[n][r] = to(y, n, r) /\ Xor(r, s(y, n)) \in T
    BY <1>0, LeftMovesType
  <2>3. Len(x) = top /\ Len(y) = top
    BY <1>0
  <2> HIDE DEF m1, m2, T, to, s, top
  <2> QED  BY <2>1, <2>2, <2>3
<1>4. \A n \in 1..top : n # m => m1[n] = m2[n]
  BY <1>0 DEF LeftMoves
<1>5. s(x, m) # s(y, m)
  BY <1>0, ShiftLeftInjective
<1>6. \A a, b \in T : Rounds(a, width, poly) = Rounds(b, width, poly) => a = b
  BY RoundsInjective
<1> HIDE DEF T, m1, m2, s, top
<1>7. f[m - 1] = g[m - 1]
  <2>1. \A n \in 1..(m - 1) : m1[n] = m2[n]
    <3>1. \A n \in 1..(m - 1) : n \in 1..top /\ n # m
      BY <1>0
    <3> QED  BY <1>4, <3>1
  <2> QED  BY <1>0, <1>1, <1>2, <1>3, <2>1, RecursionSame
<1>8. f[m - 1] \in T /\ f[m] = m1[m][f[m - 1]] /\ g[m] = m2[m][g[m - 1]]
  BY <1>0, <1>1, <1>2 DEF IsRecursive
<1> DEFINE r == f[m - 1]
<1>9. f[m] = to(x, m, r) /\ g[m] = to(y, m, r) /\ Xor(r, s(x, m)) \in T /\ Xor(r, s(y, m)) \in T
  BY <1>0, <1>3, <1>7, <1>8
<1>10. f[m] # g[m]
  <2> HIDE DEF r
  <2>1. Xor(r, s(x, m)) # Xor(r, s(y, m))
    BY <1>5, XorInjective
  <2> QED  BY <1>6, <1>9, <2>1
<1>11. Lossless(m1, m2, m, top, T)
  <2> SUFFICES ASSUME NEW n \in (m + 1)..top, NEW a \in T, NEW b \in T, m1[n][a] = m2[n][b]
               PROVE  a = b
    BY DEF Lossless
  <2>1. n \in 1..top /\ n # m
    BY <1>0
  <2>2. m2[n][b] = m1[n][b]
    BY <1>4, <2>1
  <2>3. /\ Rounds(Xor(a, s(x, n)), width, poly) = Rounds(Xor(b, s(x, n)), width, poly)
        /\ Xor(a, s(x, n)) \in T /\ Xor(b, s(x, n)) \in T
    BY <1>3, <2>1, <2>2
  <2>4. Xor(a, s(x, n)) = Xor(b, s(x, n))
    BY <1>6, <2>3
  <2> QED  BY <2>4, XorInjective
<1> HIDE DEF r
<1>12. f[top] # g[top]
  BY <1>0, <1>1, <1>2, <1>3, <1>10, <1>11, RecursionDiffers
<1> QED  BY <1>1, <1>2, <1>12

LEMMA CrcLeftType ==
  ASSUME NEW width, NEW poly, Shifted(width, poly), NEW data \in Seq(Byte)
  PROVE  CrcLeft(data, width, poly) \in Register(width)
<1>1. PICK f : /\ IsRecursive(f, Len(data), Register(width), {}, LeftMoves(data, width, poly))
               /\ CrcLeft(data, width, poly) = f[Len(data)]
  BY CrcLeftValue
<1>2. Len(data) \in 0..Len(data)
  OBVIOUS
<1> QED  BY <1>1, <1>2 DEF IsRecursive

ReflectedByteMoves(data) ==
  [n \in 1..Len(data) |->
     [r \in Register(32) |-> RoundsReflected(Xor(r, data[n]), Poly32)]]

LEMMA ByteRegister == Byte \subseteq Register(32) /\ 0..31 \in Register(32)
BY DEF Byte, Register

LEMMA ReflectedByteMovesType ==
  ASSUME NEW data \in Seq(Byte)
  PROVE  /\ ReflectedByteMoves(data) \in Moves(Len(data), Register(32))
         /\ \A n \in 1..Len(data) : \A r \in Register(32) :
              /\ ReflectedByteMoves(data)[n][r]
                   = RoundsReflected(Xor(r, data[n]), Poly32)
              /\ Xor(r, data[n]) \in Register(32)
<1> DEFINE T == Register(32)
           s(n) == data[n]
           to(n, r) == RoundsReflected(Xor(r, s(n)), Poly32)
<1>1. \A n \in 1..Len(data) : s(n) \in T
  <2>1. \A n \in 1..Len(data) : data[n] \in Byte
    OBVIOUS
  <2> QED  BY <2>1, ByteRegister
<1> HIDE DEF s, T
<1>2. \A n \in 1..Len(data) : \A r \in T : Xor(r, s(n)) \in T
  BY <1>1, XorRegister DEF T
<1>3. \A n \in 1..Len(data) : \A r \in T : to(n, r) \in T
  BY <1>2, RoundsReflectedInjective DEF T
<1>4. ReflectedByteMoves(data) = [n \in 1..Len(data) |-> [r \in T |-> to(n, r)]]
  BY DEF ReflectedByteMoves, T, s
<1> HIDE DEF to
<1>5. ReflectedByteMoves(data) \in Moves(Len(data), T)
  BY <1>3, <1>4 DEF Moves
<1>6. \A n \in 1..Len(data) : \A r \in T : ReflectedByteMoves(data)[n][r] = to(n, r)
  BY <1>4
<1> QED  BY <1>2, <1>5, <1>6 DEF to, s, T

LEMMA CrcReflectedValue ==
  ASSUME NEW data \in Seq(Byte)
  PROVE  \E f : /\ IsRecursive(f, Len(data), Register(32), 0..31, ReflectedByteMoves(data))
                /\ CrcReflected(data) = f[Len(data)]
<1> DEFINE T == Register(32)
           ones == 0..31
           top == Len(data)
           move == ReflectedByteMoves(data)
           to(n, r) == RoundsReflected(Xor(r, data[n]), Poly32)
<1>1. move \in Moves(top, T) /\ \A n \in 1..top : \A r \in T : move[n][r] = to(n, r)
  BY ReflectedByteMovesType
<1>t. ones \in T /\ top \in Nat
  BY ByteRegister
<1>7. CrcReflected(data)
        = (CHOOSE after : after = [n \in 0..top |-> IF n = 0 THEN ones ELSE to(n, after[n - 1])])[top]
  BY DEF CrcReflected
<1> HIDE DEF T, move, to, top, ones
<1>2. PICK h : IsRecursive(h, top, T, ones, move)
  BY <1>1, <1>t, Recursion
<1>3. h \in [0..top -> T] /\ h[0] = ones /\ \A n \in 1..top : h[n] = move[n][h[n - 1]]
  BY <1>2 DEF IsRecursive
<1>4. \A n \in 1..top : h[n] = to(n, h[n - 1])
  <2>1. \A n \in 1..top : h[n - 1] \in T
    BY <1>3, <1>t
  <2> QED  BY <1>1, <1>3, <2>1
<1>5. h = [n \in 0..top |-> IF n = 0 THEN ones ELSE to(n, h[n - 1])]
  <2>1. \A n \in 0..top : h[n] = IF n = 0 THEN ones ELSE to(n, h[n - 1])
    BY <1>t, <1>3, <1>4
  <2> QED  BY <1>3, <2>1
<1> DEFINE g == CHOOSE after : after = [n \in 0..top |-> IF n = 0 THEN ones ELSE to(n, after[n - 1])]
<1>6. g = [n \in 0..top |-> IF n = 0 THEN ones ELSE to(n, g[n - 1])]
  BY <1>5
<1>c. CrcReflected(data) = g[top]
  BY <1>7
<1> HIDE DEF g
<1>8. g = [n \in 0..top |-> g[n]] /\ g[0] = ones /\ \A n \in 1..top : g[n] = to(n, g[n - 1])
  BY <1>6, <1>t
<1>9. \A n \in 1..top : g[n - 1] \in T => g[n] = move[n][g[n - 1]]
  BY <1>1, <1>8
<1>10. IsRecursive(g, top, T, ones, move)
  BY <1>1, <1>t, <1>8, <1>9, RecursionType
<1> QED  BY <1>c, <1>10 DEF T, move, top, ones

LEMMA CrcReflectedDiffers ==
  ASSUME NEW x, NEW y, NEW m, DifferAt(x, y, m)
  PROVE  CrcReflected(x) # CrcReflected(y)
<1> DEFINE T == Register(32)
           top == Len(x)
           m1 == ReflectedByteMoves(x)
           m2 == ReflectedByteMoves(y)
           s(z, n) == z[n]
           to(z, n, r) == RoundsReflected(Xor(r, s(z, n)), Poly32)
<1>0. /\ x \in Seq(Byte) /\ y \in Seq(Byte) /\ Len(y) = top /\ top \in Nat
      /\ m \in 1..top /\ m \in 0..top /\ m - 1 \in 0..top /\ m \in Nat
      /\ x[m] # y[m] /\ x[m] \in Byte /\ y[m] \in Byte
      /\ \A n \in 1..top : n # m => x[n] = y[n]
      /\ \A n \in 1..top : x[n] \in Byte /\ y[n] \in Byte
      /\ (0..31) \in T
  BY ByteRegister DEF DifferAt
<1>1. PICK f : IsRecursive(f, top, T, (0..31), m1) /\ CrcReflected(x) = f[top]
  BY <1>0, CrcReflectedValue
<1>2. PICK g : IsRecursive(g, top, T, (0..31), m2) /\ CrcReflected(y) = g[top]
  BY <1>0, CrcReflectedValue
<1>3. /\ m1 \in Moves(top, T) /\ m2 \in Moves(top, T)
      /\ \A n \in 1..top : \A r \in T : m1[n][r] = to(x, n, r) /\ m2[n][r] = to(y, n, r)
      /\ \A n \in 1..top : \A r \in T : Xor(r, s(x, n)) \in T /\ Xor(r, s(y, n)) \in T
  <2>1. /\ m1 \in Moves(Len(x), T)
        /\ \A n \in 1..Len(x) : \A r \in T : m1[n][r] = to(x, n, r) /\ Xor(r, s(x, n)) \in T
    BY <1>0, ReflectedByteMovesType
  <2>2. /\ m2 \in Moves(Len(y), T)
        /\ \A n \in 1..Len(y) : \A r \in T : m2[n][r] = to(y, n, r) /\ Xor(r, s(y, n)) \in T
    BY <1>0, ReflectedByteMovesType
  <2>3. Len(x) = top /\ Len(y) = top
    BY <1>0
  <2> HIDE DEF m1, m2, T, to, s, top
  <2> QED  BY <2>1, <2>2, <2>3
<1>4. \A n \in 1..top : n # m => m1[n] = m2[n]
  BY <1>0 DEF ReflectedByteMoves
<1>5. s(x, m) # s(y, m)
  BY <1>0
<1>6. \A a, b \in T : RoundsReflected(a, Poly32) = RoundsReflected(b, Poly32) => a = b
  BY RoundsReflectedInjective
<1> HIDE DEF T, m1, m2, s, top
<1>7. f[m - 1] = g[m - 1]
  <2>1. \A n \in 1..(m - 1) : m1[n] = m2[n]
    <3>1. \A n \in 1..(m - 1) : n \in 1..top /\ n # m
      BY <1>0
    <3> QED  BY <1>4, <3>1
  <2> QED  BY <1>0, <1>1, <1>2, <1>3, <2>1, RecursionSame
<1>8. f[m - 1] \in T /\ f[m] = m1[m][f[m - 1]] /\ g[m] = m2[m][g[m - 1]]
  BY <1>0, <1>1, <1>2 DEF IsRecursive
<1> DEFINE r == f[m - 1]
<1>9. f[m] = to(x, m, r) /\ g[m] = to(y, m, r) /\ Xor(r, s(x, m)) \in T /\ Xor(r, s(y, m)) \in T
  BY <1>0, <1>3, <1>7, <1>8
<1>10. f[m] # g[m]
  <2> HIDE DEF r
  <2>1. Xor(r, s(x, m)) # Xor(r, s(y, m))
    BY <1>5, XorInjective
  <2> QED  BY <1>6, <1>9, <2>1
<1>11. Lossless(m1, m2, m, top, T)
  <2> SUFFICES ASSUME NEW n \in (m + 1)..top, NEW a \in T, NEW b \in T, m1[n][a] = m2[n][b]
               PROVE  a = b
    BY DEF Lossless
  <2>1. n \in 1..top /\ n # m
    BY <1>0
  <2>2. m2[n][b] = m1[n][b]
    BY <1>4, <2>1
  <2>3. /\ RoundsReflected(Xor(a, s(x, n)), Poly32) = RoundsReflected(Xor(b, s(x, n)), Poly32)
        /\ Xor(a, s(x, n)) \in T /\ Xor(b, s(x, n)) \in T
    BY <1>3, <2>1, <2>2
  <2>4. Xor(a, s(x, n)) = Xor(b, s(x, n))
    BY <1>6, <2>3
  <2> QED  BY <2>4, XorInjective
<1> HIDE DEF r
<1>12. f[top] # g[top]
  BY <1>0, <1>1, <1>2, <1>3, <1>10, <1>11, RecursionDiffers
<1> QED  BY <1>1, <1>2, <1>12

LEMMA CrcReflectedType ==
  ASSUME NEW data \in Seq(Byte)
  PROVE  CrcReflected(data) \in Register(32)
<1>1. PICK f : /\ IsRecursive(f, Len(data), Register(32), 0..31, ReflectedByteMoves(data))
               /\ CrcReflected(data) = f[Len(data)]
  BY CrcReflectedValue
<1>2. Len(data) \in 0..Len(data)
  OBVIOUS
<1> QED  BY <1>1, <1>2 DEF IsRecursive

LEMMA CrcType ==
  ASSUME NEW data \in Seq(Byte)
  PROVE  Crc(data) \in Register(8 * CrcSize)
<1>1. CrcSize = 2 \/ CrcSize = 3 \/ CrcSize = 4
  BY FramerAssumption
<1>2. CASE CrcSize = 2
  <2>1. Crc(data) = CrcLeft(data, 16, Poly16) /\ 8 * CrcSize = 16
    BY <1>2 DEF Crc, crc16
  <2> QED  BY <2>1, Polynomials, CrcLeftType
<1>3. CASE CrcSize = 3
  <2>1. Crc(data) = CrcLeft(data, 24, Poly24) /\ 8 * CrcSize = 24
    BY <1>3 DEF Crc, crc24
  <2> QED  BY <2>1, Polynomials, CrcLeftType
<1>4. CASE CrcSize = 4
  <2>1. Crc(data) = Xor(CrcReflected(data), 0..31) /\ 8 * CrcSize = 32
    BY <1>4 DEF Crc, crc32
  <2>2. CrcReflected(data) \in Register(32) /\ 0..31 \in Register(32)
    BY CrcReflectedType, ByteRegister
  <2>3. Xor(CrcReflected(data), 0..31) \in Register(32)
    BY <2>2, XorRegister
  <2> QED  BY <2>1, <2>3
<1> QED  BY <1>1, <1>2, <1>3, <1>4

LEMMA CrcDiffers ==
  ASSUME NEW x, NEW y, NEW m, DifferAt(x, y, m)
  PROVE  Crc(x) # Crc(y)
<1>1. CrcSize = 2 \/ CrcSize = 3 \/ CrcSize = 4
  BY FramerAssumption
<1>2. CASE CrcSize = 2
  <2>1. Crc(x) = CrcLeft(x, 16, Poly16) /\ Crc(y) = CrcLeft(y, 16, Poly16)
    BY <1>2 DEF Crc, crc16
  <2> QED  BY <2>1, Polynomials, CrcLeftDiffers
<1>3. CASE CrcSize = 3
  <2>1. Crc(x) = CrcLeft(x, 24, Poly24) /\ Crc(y) = CrcLeft(y, 24, Poly24)
    BY <1>3 DEF Crc, crc24
  <2> QED  BY <2>1, Polynomials, CrcLeftDiffers
<1>4. CASE CrcSize = 4
  <2>1. Crc(x) = Xor(CrcReflected(x), 0..31) /\ Crc(y) = Xor(CrcReflected(y), 0..31)
    BY <1>4 DEF Crc, crc32
  <2>2. CrcReflected(x) # CrcReflected(y)
    BY CrcReflectedDiffers
  <2> QED  BY <2>1, <2>2, XorInjective
<1> QED  BY <1>1, <1>2, <1>3, <1>4

\* No bit of the CRC is left out of its bytes.
LEMMA CrcBytesDiffer ==
  ASSUME NEW x \in Seq(Byte), NEW y \in Seq(Byte), CrcBytes(x) = CrcBytes(y)
  PROVE  Crc(x) = Crc(y)
<1> DEFINE c == Crc(x)
           d == Crc(y)
<1>1. CrcSize \in {2, 3, 4}
  BY FramerAssumption
<1>2. c \subseteq 0..(8 * CrcSize - 1) /\ d \subseteq 0..(8 * CrcSize - 1)
  BY CrcType DEF Register
<1>3. ASSUME NEW k \in 1..CrcSize
      PROVE  Masked(ShiftRight(c, 8 * (k - 1)), 8) = Masked(ShiftRight(d, 8 * (k - 1)), 8)
  <2>1. CrcBytes(x)[k] = Masked(ShiftRight(c, 8 * (k - 1)), 8) /\ CrcBytes(y)[k] = Masked(ShiftRight(d, 8 * (k - 1)), 8)
    BY DEF CrcBytes
  <2> QED  BY <2>1
<1> HIDE DEF c, d
<1>4. ASSUME NEW i \in 0..(8 * CrcSize - 1) PROVE i \in c <=> i \in d
  <2> DEFINE In(k) == 8 * (k - 1) <= i /\ i < 8 * (k - 1) + 8
  <2>1. \E k \in 1..CrcSize : In(k)
    <3>1. CASE i < 8
      <4>1. 1 \in 1..CrcSize /\ In(1)
        BY <1>1, <3>1
      <4> QED  BY <4>1
    <3>2. CASE 8 <= i /\ i < 16
      <4>1. 2 \in 1..CrcSize /\ In(2)
        BY <1>1, <3>2
      <4> QED  BY <4>1
    <3>3. CASE 16 <= i /\ i < 24
      <4>1. 3 \in 1..CrcSize /\ In(3)
        BY <1>1, <3>3
      <4> QED  BY <4>1
    <3>4. CASE 24 <= i
      <4>1. 4 \in 1..CrcSize /\ In(4)
        BY <1>1, <3>4
      <4> QED  BY <4>1
    <3> HIDE DEF In
    <3> QED  BY <1>1, <3>1, <3>2, <3>3, <3>4
  <2>2. PICK k \in 1..CrcSize : 8 * (k - 1) <= i /\ i < 8 * (k - 1) + 8
    BY <2>1
  <2> DEFINE from == 8 * (k - 1)
             bit == i - from
  <2>3. from \in Nat /\ bit \in 0..7 /\ i \in Nat /\ bit + from = i
    BY <1>1, <2>2
  <2> HIDE DEF from
  <2>4. ASSUME NEW z, z \subseteq 0..(8 * CrcSize - 1)
        PROVE  bit \in Masked(ShiftRight(z, from), 8) <=> i \in z
    <3>1. \A j \in z : j \in Int
      BY <1>1, <2>4
    <3>2. \A j \in z : j - from = bit => j = i
      BY <2>3, <3>1
    <3>3. bit \in 0..(8 - 1) /\ i >= from
      BY <2>3
    <3>4. bit \in ShiftRight(z, from) <=> i \in z
      BY <3>2, <3>3 DEF ShiftRight
    <3> QED  BY <3>3, <3>4 DEF Masked
  <2>5. Masked(ShiftRight(c, from), 8) = Masked(ShiftRight(d, from), 8)
    BY <1>3 DEF from
  <2> QED  BY <1>2, <2>4, <2>5
<1>5. c = d
  BY <1>2, <1>4
<1> QED  BY <1>5 DEF c, d

-----------------------------------------------------------------------------
(* The theorems *)

Now == [decoder |-> decoder, packets |-> received]

\* The receiver after what is in the buffer, and after what is on the wire as well.
Soon == Scanned(Now, arrived)
Finally == Scanned(Soon, wire)

\* The packets that a receiver is sure to have when all that is on its way has arrived
\* as it is now: all but one for each fault so far.
Costs == Len(sent) - Count(Finally) <= faults

\* With no fault they are those that were sent.
Exact == faults = 0 => Finally.packets = sent

LEMMA NowType == ASSUME TypeOK PROVE /\ Now \in States /\ Soon \in States /\ Finally \in States
                                     /\ wire \in Seq(Byte) /\ arrived \in Seq(Byte)
                                     /\ sent \in Seq(Packets) /\ faults \in Nat
<1>1. Now \in States
  BY DEF TypeOK, Now, States, Decoders
<1>2. wire \in Seq(Byte) /\ arrived \in Seq(Byte) /\ sent \in Seq(Packets) /\ faults \in Nat
  BY FramerAssumption DEF TypeOK
<1> QED  BY <1>1, <1>2, ScannedType DEF Soon, Finally

LEMMA CarriesType ==
  ASSUME TypeOK, NEW b \in Byte, NEW left \in Seq(Byte), Carries(b, left), faults' \in 0..MaxFaults
  PROVE  TypeOK'
<1>1. Append(arrived, b) \in Seq(Byte)
  BY AppendProperties DEF TypeOK
<1> QED  BY <1>1 DEF TypeOK, Carries

LEMMA TypeNext == ASSUME TypeOK, [Next]_vars PROVE TypeOK'
<1> USE FramerAssumption
<1>n. faults \in 0..MaxFaults
  BY DEF TypeOK
<1>f. Fault => faults' \in 0..MaxFaults
  BY <1>n DEF Fault
<1>w. wire # <<>> => Head(wire) \in Byte /\ Tail(wire) \in Seq(Byte)
  BY DEF TypeOK
<1>1. CASE send_packet
  <2>1. PICK p \in Packets : sent' = Append(sent, p) /\ wire' = wire \o Frame(p)
    BY <1>1 DEF send_packet
  <2>2. Frame(p) \in Seq(Byte)
    <3>1. Now \in States
      BY NowType
    <3> QED  BY <3>1, FrameRead
  <2>3. wire' \in Seq(Byte)
    BY <2>1, <2>2, ConcatProperties DEF TypeOK
  <2>4. sent' \in Seq(Packets) /\ Len(sent') <= N
    BY <1>1, <2>1, AppendProperties DEF TypeOK, send_packet
  <2> QED  BY <1>1, <2>3, <2>4 DEF TypeOK, send_packet
<1>2. CASE read_packets
  <2>1. Soon \in States
    BY NowType
  <2>2. decoder' = Soon.decoder /\ received' = Soon.packets /\ arrived' = <<>>
    BY <1>2 DEF read_packets, Soon, Now
  <2>3. decoder' \in Decoders /\ received' \in Seq(Seq(Byte)) /\ arrived' \in Seq(Byte)
    BY <2>1, <2>2 DEF States
  <2> QED  BY <1>2, <2>3 DEF TypeOK, read_packets, Decoders
<1>3. CASE Carry
  BY <1>3, <1>n, <1>w, CarriesType DEF Carry
<1>4. CASE Change
  <2>1. PICK b \in NoiseBytes : Carries(b, Tail(wire))
    BY <1>4 DEF Change
  <2> QED  BY <1>4, <1>f, <1>w, <2>1, CarriesType DEF Change
<1>5. CASE Insert
  <2>1. PICK b \in NoiseBytes : Carries(b, wire)
    BY <1>5 DEF Insert
  <2>2. wire \in Seq(Byte)
    BY DEF TypeOK
  <2> QED  BY <1>5, <1>f, <2>1, <2>2, CarriesType DEF Insert
<1>6. CASE Drop
  BY <1>6, <1>f, <1>w DEF Drop, TypeOK
<1>7. CASE Terminated
  BY <1>7 DEF Terminated, TypeOK, vars
<1>8. CASE UNCHANGED vars
  BY <1>8 DEF TypeOK, vars
<1> QED  BY <1>1, <1>2, <1>3, <1>4, <1>5, <1>6, <1>7, <1>8 DEF Next

\* The fields of the framer and what is on the line have their types, whatever the
\* packets and the noise (framer.py:15-23): no step puts anything but a byte anywhere.
THEOREM TypeCorrect == Spec => []TypeOK
<1>1. Init => TypeOK
  BY FramerAssumption DEF Init, TypeOK, Outside
<1>2. TypeOK /\ [Next]_vars => TypeOK'
  BY TypeNext
<1> QED  BY <1>1, <1>2, PTL DEF Spec

\* A byte that arrives is the next one the receiver will read.
LEMMA SoonCarries ==
  ASSUME TypeOK, NEW b \in Byte, NEW left, Carries(b, left)
  PROVE  Soon' = Step(Soon, b) /\ Finally' = Scanned(Step(Soon, b), left) /\ UNCHANGED sent
<1>1. arrived' = Append(arrived, b) /\ wire' = left /\ Now' = Now /\ UNCHANGED sent
  BY DEF Carries, Now
<1>2. Soon' = Scanned(Now, Append(arrived, b))
  BY <1>1 DEF Soon
<1>3. Scanned(Now, Append(arrived, b)) = Step(Soon, b)
  BY NowType, ScannedAppend DEF Soon
<1> QED  BY <1>1, <1>2, <1>3 DEF Finally

LEMMA WireHead ==
  ASSUME TypeOK, wire # <<>>
  PROVE  /\ Head(wire) \in Byte /\ Tail(wire) \in Seq(Byte)
         /\ Finally = Scanned(Step(Soon, Head(wire)), Tail(wire))
BY NowType, ScannedHead DEF Finally

\* The steps without noise: what will have arrived is the same but for a packet sent.
LEMMA QuietSteps ==
  ASSUME TypeOK, send_packet \/ read_packets \/ Carry \/ Terminated \/ UNCHANGED vars
  PROVE  /\ UNCHANGED faults
         /\ \/ Finally' = Finally /\ UNCHANGED sent
            \/ \E p \in Packets : /\ sent' = Append(sent, p)
                                 /\ Finally'.packets = Append(Finally.packets, p)
<1>t. /\ Now \in States /\ Soon \in States /\ Finally \in States
      /\ wire \in Seq(Byte) /\ arrived \in Seq(Byte)
  BY NowType
<1>1. CASE send_packet
  <2>1. PICK p \in Packets : sent' = Append(sent, p) /\ wire' = wire \o Frame(p)
    BY <1>1 DEF send_packet
  <2>2. Soon' = Soon /\ UNCHANGED faults
    BY <1>1 DEF send_packet, Soon, Now
  <2>3. Frame(p) \in Seq(Byte) /\ Scanned(Finally, Frame(p)).packets = Append(Finally.packets, p)
    BY <1>t, FrameRead
  <2>4. Scanned(Soon, wire \o Frame(p)) = Scanned(Finally, Frame(p))
    BY <1>t, <2>3, ScannedConcat DEF Finally
  <2>5. Finally' = Scanned(Soon, wire \o Frame(p))
    BY <2>1, <2>2 DEF Finally
  <2> QED  BY <2>1, <2>2, <2>3, <2>4, <2>5
<1>2. CASE read_packets
  <2>1. decoder' = Soon.decoder /\ received' = Soon.packets /\ arrived' = <<>> /\ wire' = wire
        /\ UNCHANGED sent /\ UNCHANGED faults
    BY <1>2 DEF read_packets, Soon, Now
  <2>2. Now' = Soon
    BY <1>t, <2>1 DEF Now, States
  <2>3. Soon' = Scanned(Soon, <<>>)
    BY <2>1, <2>2 DEF Soon
  <2>4. Soon' = Soon
    BY <1>t, <2>3, ScannedNothing
  <2> QED  BY <2>1, <2>4 DEF Finally
<1>3. CASE Carry
  <2>1. wire # <<>> /\ Carries(Head(wire), Tail(wire)) /\ UNCHANGED faults
    BY <1>3 DEF Carry
  <2>2. Head(wire) \in Byte /\ Finally = Scanned(Step(Soon, Head(wire)), Tail(wire))
    BY <2>1, WireHead
  <2>3. Finally' = Scanned(Step(Soon, Head(wire)), Tail(wire)) /\ UNCHANGED sent
    BY <2>1, <2>2, SoonCarries
  <2> QED  BY <2>1, <2>2, <2>3
<1>4. CASE Terminated \/ UNCHANGED vars
  BY <1>4 DEF Terminated, vars, Finally, Soon, Now
<1> QED  BY <1>1, <1>2, <1>3, <1>4

\* A fault costs at most one packet.
LEMMA NoisySteps ==
  ASSUME TypeOK, Change \/ Insert \/ Drop
  PROVE  /\ faults' = faults + 1 /\ UNCHANGED sent
         /\ Count(Finally) <= Count(Finally') + 1
<1>t. /\ Now \in States /\ Soon \in States /\ Finally \in States
      /\ wire \in Seq(Byte) /\ arrived \in Seq(Byte)
  BY NowType
<1>s. \A b \in Byte : /\ Step(Soon, b) \in States
                      /\ Count(Step(Soon, b)) \in Nat /\ Pending(Step(Soon, b)) \in 0..1
                      /\ Count(Step(Soon, b)) >= Count(Soon)
                      /\ Count(Step(Soon, b)) + Pending(Step(Soon, b)) <= Count(Soon) + 1
  BY <1>t, StepType, StepCount, CountType
<1>c. Count(Soon) \in Nat /\ Pending(Soon) \in 0..1
  BY <1>t, CountType
<1>n. NoiseBytes \subseteq Byte
  BY FramerAssumption
<1>1. CASE Change
  <2>1. PICK b \in NoiseBytes : Carries(b, Tail(wire))
    BY <1>1 DEF Change
  <2>2. wire # <<>> /\ faults' = faults + 1
    BY <1>1 DEF Change, Fault
  <2> DEFINE h == Head(wire)
             t == Tail(wire)
             u == Step(Soon, h)
             v == Step(Soon, b)
  <2>3. h \in Byte /\ t \in Seq(Byte) /\ Finally = Scanned(u, t)
    BY <2>2, WireHead
  <2>4. Finally' = Scanned(v, t) /\ UNCHANGED sent
    BY <1>n, <2>1, SoonCarries
  <2>5. u \in States /\ v \in States
    BY <1>n, <1>s, <2>3
  <2>6. /\ Count(u) \in Nat /\ Pending(u) \in 0..1 /\ Count(v) \in Nat
        /\ Count(u) + Pending(u) <= Count(Soon) + 1 /\ Count(v) >= Count(Soon)
    BY <1>n, <1>s, <2>3
  <2> HIDE DEF h, t, u, v
  <2>7. Near(u, v, 1)
    BY <1>c, <2>6 DEF Near
  <2>8. Count(Scanned(u, t)) <= Count(Scanned(v, t)) + 1
    BY <2>3, <2>5, <2>7, NearScanned
  <2> QED  BY <2>2, <2>3, <2>4, <2>8
<1>2. CASE Insert
  <2>1. PICK b \in NoiseBytes : Carries(b, wire)
    BY <1>2 DEF Insert
  <2>2. faults' = faults + 1
    BY <1>2 DEF Insert, Fault
  <2> DEFINE v == Step(Soon, b)
  <2>4. Finally' = Scanned(v, wire) /\ UNCHANGED sent
    BY <1>n, <2>1, SoonCarries
  <2>5. v \in States /\ Count(v) \in Nat /\ Count(v) >= Count(Soon)
    BY <1>n, <1>s
  <2> HIDE DEF v
  <2>7. Near(Soon, v, 1)
    BY <1>c, <2>5 DEF Near
  <2>8. Count(Scanned(Soon, wire)) <= Count(Scanned(v, wire)) + 1
    BY <1>t, <2>5, <2>7, NearScanned
  <2> QED  BY <2>2, <2>4, <2>8 DEF Finally
<1>3. CASE Drop
  <2>2. wire # <<>> /\ faults' = faults + 1 /\ wire' = Tail(wire) /\ UNCHANGED sent
    BY <1>3 DEF Drop, Fault
  <2> DEFINE h == Head(wire)
             t == Tail(wire)
             u == Step(Soon, h)
  <2>3. h \in Byte /\ t \in Seq(Byte) /\ Finally = Scanned(u, t)
    BY <2>2, WireHead
  <2>4. Finally' = Scanned(Soon, t)
    BY <1>3 DEF Drop, Finally, Soon, Now
  <2>5. /\ u \in States /\ Count(u) \in Nat /\ Pending(u) \in 0..1
        /\ Count(u) + Pending(u) <= Count(Soon) + 1
    BY <1>s, <2>3
  <2> HIDE DEF h, t, u
  <2>7. Near(u, Soon, 1)
    BY <1>c, <2>5 DEF Near
  <2>8. Count(Scanned(u, t)) <= Count(Scanned(Soon, t)) + 1
    BY <1>t, <2>3, <2>5, <2>7, NearScanned
  <2> QED  BY <2>2, <2>3, <2>4, <2>8
<1> QED  BY <1>1, <1>2, <1>3

LEMMA CostsNext == ASSUME TypeOK, TypeOK', Costs, [Next]_vars PROVE Costs'
<1>1. /\ Count(Finally) \in Nat /\ faults \in Nat /\ sent \in Seq(Packets)
      /\ Finally.packets \in Seq(Seq(Byte)) /\ Len(sent) \in Nat
  BY NowType, CountType DEF States
<1>2. Finally' \in States
  <2>1. Now' \in States /\ wire' \in Seq(Byte) /\ arrived' \in Seq(Byte)
    BY DEF TypeOK, Now, States, Decoders
  <2>2. Scanned(Now', arrived') \in States
    BY <2>1, ScannedType
  <2> QED  BY <2>1, <2>2, ScannedType DEF Finally, Soon
<1>3. Count(Finally') \in Nat
  BY <1>2, CountType
<1>4. CASE send_packet \/ read_packets \/ Carry \/ Terminated \/ UNCHANGED vars
  <2>1. UNCHANGED faults
    BY <1>4, QuietSteps
  <2>2. CASE Finally' = Finally /\ UNCHANGED sent
    BY <2>1, <2>2 DEF Costs
  <2>3. CASE \E p \in Packets : sent' = Append(sent, p) /\ Finally'.packets = Append(Finally.packets, p)
    <3>1. PICK p \in Packets : sent' = Append(sent, p) /\ Finally'.packets = Append(Finally.packets, p)
      BY <2>3
    <3>2. p \in Seq(Byte) /\ Head(p) # {}
      BY FramerAssumption
    <3>3. Count(Finally') = Count(Finally) + 1
      BY <1>1, <3>1, <3>2, KnownAppend DEF Count
    <3>4. Len(sent') = Len(sent) + 1
      BY <1>1, <3>1
    <3>5. (Len(sent) + 1) - (Count(Finally) + 1) = Len(sent) - Count(Finally)
      BY <1>1
    <3> QED  BY <2>1, <3>3, <3>4, <3>5 DEF Costs
  <2> QED  BY <1>4, <2>2, <2>3, QuietSteps
<1>5. CASE Change \/ Insert \/ Drop
  <2>1. faults' = faults + 1 /\ UNCHANGED sent /\ Count(Finally) <= Count(Finally') + 1
    BY <1>5, NoisySteps
  <2>2. Len(sent) - Count(Finally) <= faults
    BY DEF Costs
  <2>3. Len(sent) - Count(Finally') <= faults + 1
    BY <1>1, <1>3, <2>1, <2>2
  <2> QED  BY <2>1, <2>3 DEF Costs
<1> QED  BY <1>4, <1>5 DEF Next

\* A damaged byte costs one packet at most (framer.py:82): for packets of any length
\* and content, any number of faults, and reads of any size.
THEOREM OnePacketPerFault == Spec => []FaultCostsOnePacket
<1>1. Init => Costs
  <2> SUFFICES ASSUME Init PROVE Costs
    OBVIOUS
  <2>1. Now = [decoder |-> Outside, packets |-> <<>>] /\ arrived = <<>> /\ wire = <<>>
        /\ sent = <<>> /\ faults = 0
    BY DEF Init, Now
  <2>2. Now \in States
    BY <2>1 DEF States, Decoders, Outside
  <2>3. Finally = Now
    BY <2>1, <2>2, ScannedNothing DEF Finally, Soon
  <2>4. Count(Finally) \in Nat
    BY <2>2, <2>3, CountType
  <2>5. Len(sent) = 0
    BY <2>1
  <2> QED  BY <2>1, <2>4, <2>5 DEF Costs
<1>2. TypeOK /\ TypeOK' /\ Costs /\ [Next]_vars => Costs'
  BY CostsNext
<1>3. TypeOK /\ Costs => FaultCostsOnePacket
  <2> SUFFICES ASSUME TypeOK, Costs, Quiet PROVE Len(sent) - Cardinality(Known(received)) <= faults
    BY DEF FaultCostsOnePacket
  <2>1. Finally = Now
    BY NowType, ScannedNothing DEF Quiet, Finally, Soon
  <2>2. Count(Finally) = Cardinality(Known(received))
    BY <2>1 DEF Count, Now
  <2> QED  BY <2>2 DEF Costs
<1> QED  BY <1>1, <1>2, <1>3, TypeCorrect, PTL DEF Spec

LEMMA ExactNext == ASSUME TypeOK, Exact, [Next]_vars PROVE Exact'
<1>1. CASE send_packet \/ read_packets \/ Carry \/ Terminated \/ UNCHANGED vars
  <2>1. UNCHANGED faults
    BY <1>1, QuietSteps
  <2> QED  BY <1>1, <2>1, QuietSteps DEF Exact
<1>2. CASE Change \/ Insert \/ Drop
  <2>1. faults' = faults + 1 /\ faults \in Nat
    BY <1>2, NoisySteps, NowType
  <2>2. faults' # 0
    BY <2>1
  <2> QED  BY <2>2 DEF Exact
<1> QED  BY <1>1, <1>2 DEF Next

Beginning(x, y) == Len(x) <= Len(y) /\ \A i \in 1..Len(x) : x[i] = y[i]

\* What has been yielded stays as it is.
LEMMA ScannedExtends ==
  ASSUME NEW s \in States, NEW bytes \in Seq(Byte)
  PROVE  Beginning(s.packets, Scanned(s, bytes).packets)
<1> DEFINE S == {n \in Nat : \A z \in Seq(Byte) : Len(z) = n => Beginning(s.packets, Scanned(s, z).packets)}
<1>1. 0 \in S
  <2> SUFFICES ASSUME NEW z \in Seq(Byte), Len(z) = 0
               PROVE  Beginning(s.packets, Scanned(s, z).packets)
    OBVIOUS
  <2>1. z = <<>> /\ s.packets \in Seq(Seq(Byte))
    BY DEF States
  <2>2. Scanned(s, z) = s
    BY <2>1, ScannedNothing
  <2> QED  BY <2>1, <2>2 DEF Beginning
<1>2. ASSUME NEW n \in Nat, n \in S PROVE n + 1 \in S
  <2> SUFFICES ASSUME NEW z \in Seq(Byte), Len(z) = n + 1
               PROVE  Beginning(s.packets, Scanned(s, z).packets)
    OBVIOUS
  <2>1. z # <<>>
    OBVIOUS
  <2>2. PICK w \in Seq(Byte), b \in Byte : z = Append(w, b)
    BY <2>1, SequenceEmptyOrAppend
  <2>3. Len(w) = n
    BY <2>2
  <2> DEFINE t == Scanned(s, w)
  <2>4. Beginning(s.packets, t.packets)
    BY <1>2, <2>3
  <2>5. t \in States
    BY ScannedType
  <2>6. Scanned(s, z) = Step(t, b)
    BY <2>2, ScannedAppend
  <2> HIDE DEF t
  <2> DEFINE raw == SubSeq(t.decoder.current, 1, Len(t.decoder.current) - CrcSize)
             x == s.packets
             y == t.packets
             v == Step(t, b).packets
  <2>7. x \in Seq(Seq(Byte)) /\ y \in Seq(Seq(Byte)) /\ t.decoder.current \in Seq(Byte)
    BY <2>5 DEF States, Decoders
  <2>8. CASE v = y
    BY <2>4, <2>6, <2>8
  <2>9. CASE v # y
    <3>1. Genuine(t.decoder.current) /\ v = Append(y, raw)
      BY <2>9 DEF Step
    <3>2. raw \in Seq(Byte)
      BY <2>7, <3>1, GenuineType
    <3> HIDE DEF raw, v, x, y
    <3>3. Len(v) = Len(y) + 1 /\ \A i \in 1..Len(y) : v[i] = y[i]
      BY <2>7, <3>1, <3>2, AppendProperties
    <3>4. Len(x) <= Len(y) /\ \A i \in 1..Len(x) : x[i] = y[i]
      BY <2>4 DEF Beginning, x, y
    <3>n. Len(x) \in Nat /\ Len(y) \in Nat
      BY <2>7
    <3>a. 1..Len(x) \subseteq 1..Len(y) /\ Len(x) <= Len(y) + 1
      BY <3>4, <3>n
    <3>5. Beginning(x, v)
      <4>1. Len(x) <= Len(v)
        BY <3>3, <3>a
      <4>2. \A i \in 1..Len(x) : x[i] = v[i]
        BY <3>3, <3>4, <3>a
      <4> QED  BY <4>1, <4>2 DEF Beginning
    <3> QED  BY <2>6, <3>5 DEF x, v
  <2> QED  BY <2>8, <2>9
<1> HIDE DEF S
<1>3. Nat \subseteq S
  BY <1>1, <1>2, SetInduction
<1> QED  BY <1>3, LenProperties DEF S

LEMMA ExactInvariant == Spec => []Exact
<1>1. Init => Exact
  <2> SUFFICES ASSUME Init PROVE Exact
    OBVIOUS
  <2>1. Now = [decoder |-> Outside, packets |-> <<>>] /\ arrived = <<>> /\ wire = <<>> /\ sent = <<>>
    BY DEF Init, Now
  <2>2. Now \in States
    BY <2>1 DEF States, Decoders, Outside
  <2>3. Finally = Now
    BY <2>1, <2>2, ScannedNothing DEF Finally, Soon
  <2> QED  BY <2>1, <2>3 DEF Exact
<1>2. TypeOK /\ Exact /\ [Next]_vars => Exact'
  BY ExactNext
<1> QED  BY <1>1, <1>2, TypeCorrect, PTL DEF Spec

\* Over a line without noise what send_packet() was given is what read_packets() has
\* yielded (framer.py:33-112): escapes and CRC come off again, whatever the bytes are
\* and wherever the reads cut the stream.
THEOREM RoundTrip == Spec => [](faults = 0 /\ Quiet => received = sent)
<1>1. TypeOK /\ Exact => (faults = 0 /\ Quiet => received = sent)
  <2> SUFFICES ASSUME TypeOK, Exact, faults = 0, Quiet PROVE received = sent
    OBVIOUS
  <2>1. Finally = Now
    BY NowType, ScannedNothing DEF Quiet, Finally, Soon
  <2> QED  BY <2>1 DEF Exact, Now
<1> QED  BY <1>1, ExactInvariant, TypeCorrect, PTL

\* On the way there, too, nothing is yielded that was not sent, or in another order.
\* With noise this is left to the CRC, and no CRC keeps it for every packet.
THEOREM IntactLine == Spec => [](faults = 0 => NothingForged)
<1>1. TypeOK /\ Exact => (faults = 0 => NothingForged)
  <2> SUFFICES ASSUME TypeOK, Exact, faults = 0 PROVE NothingForged
    OBVIOUS
  <2>t. /\ Now \in States /\ Soon \in States /\ Finally \in States
        /\ wire \in Seq(Byte) /\ arrived \in Seq(Byte)
    BY NowType
  <2>1. Beginning(Now.packets, Soon.packets) /\ Beginning(Soon.packets, Finally.packets)
    BY <2>t, ScannedExtends DEF Soon, Finally
  <2>2. Now.packets = received /\ Finally.packets = sent
    BY DEF Exact, Now
  <2> DEFINE x == Soon.packets
  <2>3. received \in Seq(Seq(Byte)) /\ x \in Seq(Seq(Byte)) /\ sent \in Seq(Seq(Byte))
    BY <2>t, <2>2 DEF States
  <2> HIDE DEF x
  <2>4. Beginning(received, x) /\ Beginning(x, sent)
    BY <2>1, <2>2 DEF x
  <2>5. Len(received) <= Len(sent) /\ \A i \in 1..Len(received) : received[i] = sent[i]
    BY <2>3, <2>4 DEF Beginning
  <2>6. Known(received) \subseteq 1..Len(received) /\ 1..Len(received) \subseteq 1..Len(sent)
    BY <2>3, <2>5 DEF Known
  <2> DEFINE origin == [i \in Known(received) |-> i]
  <2>7. origin \in [Known(received) -> 1..Len(sent)]
    BY <2>6
  <2>8. \A i \in Known(received) : received[i] = sent[origin[i]]
    BY <2>5, <2>6
  <2>9. \A i, j \in Known(received) : i < j => origin[i] < origin[j]
    OBVIOUS
  <2> HIDE DEF origin
  <2> QED  BY <2>7, <2>8, <2>9 DEF NothingForged
<1> QED  BY <1>1, ExactInvariant, TypeCorrect, PTL

\* A packet in which one byte has changed, wherever, fails the check of its CRC,
\* however long it is and whichever of the three CRCs the link uses
\* (framer.py:114-137, tools.py:1-32).
THEOREM OneByteDetected ==
  ASSUME NEW data \in Seq(Byte), Genuine(data),
         NEW i \in 1..Len(data), NEW b \in Byte, b # data[i]
  PROVE  ~Genuine([data EXCEPT ![i] = b])
<1> DEFINE new == [data EXCEPT ![i] = b]
           len == Len(data) - CrcSize
           raw == SubSeq(data, 1, len)
           changed == SubSeq(new, 1, len)
<1>1. Len(data) > CrcSize /\ CrcSize \in Nat /\ Len(data) \in Nat /\ raw \o CrcBytes(raw) = data
  <2>1. Len(data) > CrcSize /\ raw \o CrcBytes(raw) = data
    BY DEF Genuine
  <2>2. CrcSize \in Nat /\ Len(data) \in Nat
    BY FramerAssumption
  <2> HIDE DEF raw
  <2> QED  BY <2>1, <2>2
<1>2. new \in Seq(Byte) /\ Len(new) = Len(data) /\ new[i] = b
      /\ \A j \in 1..Len(data) : j # i => new[j] = data[j]
  BY ExceptSeq
<1>3. len \in Nat /\ len + CrcSize = Len(data) /\ 1..len \subseteq 1..Len(data)
  BY <1>1
<1> HIDE DEF new, len
<1>4. /\ raw \in Seq(Byte) /\ Len(raw) = len /\ \A j \in 1..len : raw[j] = data[j]
      /\ changed \in Seq(Byte) /\ Len(changed) = len /\ \A j \in 1..len : changed[j] = new[j]
  <2>1. \A j \in 1..len : data[j] \in Byte /\ new[j] \in Byte
    BY <1>2, <1>3
  <2>2. raw \in Seq(Byte) /\ Len(raw) = len /\ \A j \in 1..len : raw[j] = data[j]
    BY <1>3, <2>1
  <2>3. changed \in Seq(Byte) /\ Len(changed) = len /\ \A j \in 1..len : changed[j] = new[j]
    BY <1>2, <1>3, <2>1
  <2> QED  BY <2>2, <2>3
<1>5. /\ CrcBytes(raw) \in Seq(Byte) /\ Len(CrcBytes(raw)) = CrcSize
      /\ CrcBytes(changed) \in Seq(Byte) /\ Len(CrcBytes(changed)) = CrcSize
  BY CrcBytesType
<1> HIDE DEF raw, changed
<1>6. SUFFICES ASSUME changed \o CrcBytes(changed) = new PROVE FALSE
  <2>1. Genuine(new) => changed \o CrcBytes(changed) = new
    BY <1>2 DEF Genuine, changed, len
  <2> QED  BY <1>6, <2>1 DEF new
<1>7. CASE i \in 1..len
  <2>1. DifferAt(raw, changed, i)
    BY <1>2, <1>3, <1>4, <1>7 DEF DifferAt
  <2>2. CrcBytes(raw) # CrcBytes(changed)
    BY <1>4, <2>1, CrcDiffers, CrcBytesDiffer
  <2>3. ASSUME NEW k \in 1..CrcSize PROVE CrcBytes(raw)[k] = CrcBytes(changed)[k]
    <3>1. len + k \in 1..Len(data) /\ len + k # i /\ len + k > len /\ (len + k) - len = k
      BY <1>1, <1>3, <1>7
    <3>4. len + k \in 1..(len + CrcSize) /\ ~(len + k <= len)
      BY <1>1, <1>3
    <3>2. data[len + k] = CrcBytes(raw)[k]
      <4>1. (raw \o CrcBytes(raw))[len + k] = CrcBytes(raw)[k]
        BY <1>4, <1>5, <3>1, <3>4, ConcatProperties
      <4> QED  BY <1>1, <4>1 DEF raw
    <3>3. new[len + k] = CrcBytes(changed)[k]
      <4>1. (changed \o CrcBytes(changed))[len + k] = CrcBytes(changed)[k]
        BY <1>4, <1>5, <3>1, <3>4, ConcatProperties
      <4> QED  BY <1>6, <4>1
    <3> QED  BY <1>2, <3>1, <3>2, <3>3
  <2>4. CrcBytes(raw) = CrcBytes(changed)
    BY <1>1, <1>5, <2>3
  <2> QED  BY <2>2, <2>4
<1>8. CASE i \notin 1..len
  <2>1. \A j \in 1..len : raw[j] = changed[j]
    BY <1>2, <1>3, <1>4, <1>8
  <2>2. raw = changed
    BY <1>3, <1>4, <2>1
  <2>3. new = data
    BY <1>1, <1>6, <2>2 DEF raw
  <2> QED  BY <1>2, <2>3
<1> QED  BY <1>7, <1>8

\* So a frame one of whose bytes has become another one on the way, its START, its END
\* and its escapes untouched, is lost: it is not read as some other packet.
THEOREM ChangedFrameIsLost ==
  ASSUME NEW s \in States, NEW p \in Packets,
         NEW i \in 1..Len(Raw(p)), NEW b \in Byte, b # Raw(p)[i]
  PROVE  Scanned(s, Framed([Raw(p) EXCEPT ![i] = b])).packets = s.packets
<1> DEFINE data == Raw(p)
           new == [data EXCEPT ![i] = b]
<1>1. data \in Seq(Byte) /\ Genuine(data)
  BY RawType
<1> HIDE DEF data
<1>2. ~Genuine(new)
  BY <1>1, OneByteDetected DEF data
<1>3. new \in Seq(Byte) /\ Len(new) = Len(data) /\ Len(data) # 0
  BY <1>1, ExceptSeq DEF data
<1>4. new # <<>>
  BY <1>3
<1> HIDE DEF new
<1> QED  BY <1>2, <1>3, <1>4, FramedRead DEF new, data
=============================================================================
