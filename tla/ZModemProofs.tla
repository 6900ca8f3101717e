---------------------------- MODULE ZModemProofs ----------------------------
(***************************************************************************)
(* Theorems on ZModem, for every choice of its constants.                  *)
(***************************************************************************)
EXTENDS ZModem, SequenceTheorems, TLAPS

-----------------------------------------------------------------------------
(***************************************************************************)
(* Frames and the line.                                                    *)
(***************************************************************************)
Lines == [Sides -> Seq(Frames)]

\* The frames that the two programs write are frames.
LEMMA FrameTypes ==
  /\ \A k \in Plain \cup Spoiled : Frame(k) \in Frames
  /\ \A o \in BOOLEAN : FileHeader(o) \in Frames
  /\ \A f \in Files : Info(f) \in Frames
  /\ \A k \in {"ZRPOS", "ZDATA"}, n \in Nat : Position(k, n) \in Frames
  /\ \A u \in Unit : Chunk(u) \in Frames
BY DEF Frame, FileHeader, Info, Position, Chunk, Frames

\* The kind of a frame says which fields it has.
LEMMA FrameFields ==
  ASSUME NEW x \in Frames
  PROVE  /\ x.kind = "ZFILE" => x.over \in BOOLEAN /\ x = FileHeader(x.over)
         /\ x.kind = "info" => x.file \in Files /\ x = Info(x.file)
         /\ x.kind \in {"ZRPOS", "ZDATA"} => x.pos \in Nat /\ x = Position(x.kind, x.pos)
         /\ x.kind = "chunk" => x.unit \in Unit /\ x = Chunk(x.unit)
         /\ x.kind \in Plain \cup Spoiled \cup {"ZFILE", "info", "ZRPOS", "ZDATA", "chunk"}
BY DEF Frames, FileHeader, Info, Position, Chunk, Plain, Spoiled

\* What reading and writing does to the two ends of the line.
LEMMA PassEffect ==
  ASSUME wire \in Lines, NEW p \in Sides, NEW n \in {0, 1}, NEW F \in Seq(Frames), Pass(p, n, F)
  PROVE  /\ wire' \in Lines
         /\ wire'[p] = SubSeq(wire[p], n + 1, Len(wire[p]))
         /\ wire'[Peer(p)] = IF Stopped(Peer(p)) THEN <<>> ELSE wire[Peer(p)] \o F
<1>1. Peer(p) \in Sides /\ Peer(p) # p /\ Sides = {p, Peer(p)}
  BY DEF Sides, Peer
<1>2. wire[p] \in Seq(Frames) /\ wire[Peer(p)] \in Seq(Frames)
  BY <1>1 DEF Lines
<1>3. SubSeq(wire[p], n + 1, Len(wire[p])) \in Seq(Frames)
  BY <1>2, SubSeqProperties
<1>4. Heard(Peer(p), F) \in Seq(Frames)
  BY <1>2, ConcatProperties DEF Heard
<1>5. wire' = [wire EXCEPT ![p] = SubSeq(@, n + 1, Len(@)), ![Peer(p)] = Heard(Peer(p), F)]
  BY DEF Pass
<1> QED  BY <1>1, <1>3, <1>4, <1>5 DEF Lines, Heard

\* What the end of a program does to the line.
LEMMA QuitEffect ==
  ASSUME wire \in Lines, NEW p \in Sides, NEW F \in Seq(Frames), Quit(p, F)
  PROVE  /\ wire' \in Lines /\ wire'[p] = <<>>
         /\ wire'[Peer(p)] = IF Stopped(Peer(p)) THEN <<>> ELSE wire[Peer(p)] \o F
<1>1. Peer(p) \in Sides /\ Peer(p) # p /\ Sides = {p, Peer(p)}
  BY DEF Sides, Peer
<1>2. wire[Peer(p)] \in Seq(Frames) /\ <<>> \in Seq(Frames)
  BY <1>1 DEF Lines
<1>4. Heard(Peer(p), F) \in Seq(Frames)
  BY <1>2, ConcatProperties DEF Heard
<1>5. wire' = [wire EXCEPT ![p] = <<>>, ![Peer(p)] = Heard(Peer(p), F)]
  BY DEF Quit
<1> QED  BY <1>1, <1>2, <1>4, <1>5 DEF Lines, Heard

\* What the line does to a frame that waits to be read.
LEMMA SpoilEffect ==
  ASSUME wire \in Lines, NEW p \in Sides, Spoil(p)
  PROVE  /\ wire' \in Lines /\ \A q \in Sides \ {p} : wire'[q] = wire[q]
         /\ wire[p] # <<>> /\ Len(wire'[p]) = Len(wire[p])
         /\ wire'[p][1].kind \in Spoiled
         /\ \A i \in 2..Len(wire[p]) : wire'[p][i] = wire[p][i]
<1>1. PICK k \in Damaged(Coming(p)) : wire' = [wire EXCEPT ![p] = <<Frame(k)>> \o Tail(@)]
  BY DEF Spoil
<1>2. wire[p] \in Seq(Frames)
  BY DEF Lines
<1>3. k \in Spoiled
  BY DEF Damaged, Spoiled
<1>4. wire[p] # <<>>
  BY ZMishapsAssumption DEF Coming, Spoil
<1>5. Len(wire[p]) \in Nat \ {0} /\ Tail(wire[p]) \in Seq(Frames)
      /\ Len(Tail(wire[p])) = Len(wire[p]) - 1
      /\ \A i \in 1..Len(Tail(wire[p])) : Tail(wire[p])[i] = wire[p][i + 1]
  BY <1>2, <1>4
<1>6. <<Frame(k)>> \in Seq(Frames) /\ Frame(k).kind = k
  BY <1>3, FrameTypes DEF Frame
<1> DEFINE t == Tail(wire[p])
           w == <<Frame(k)>> \o t
<1>7. w \in Seq(Frames) /\ Len(w) = Len(wire[p]) /\ w[1] = Frame(k)
      /\ \A i \in 2..Len(wire[p]) : w[i] = t[i - 1]
  BY <1>5, <1>6
<1>8. \A i \in 2..Len(wire[p]) : w[i] = wire[p][i]
  <2> TAKE i \in 2..Len(wire[p])
  <2>1. i - 1 \in 1..Len(t) /\ i - 1 + 1 = i
    BY <1>5
  <2> QED  BY <1>5, <1>7, <2>1
<1>9. wire' = [wire EXCEPT ![p] = w]
  BY <1>1
<1> HIDE DEF w
<1> QED  BY <1>3, <1>4, <1>6, <1>7, <1>8, <1>9 DEF Lines

\* Single frames, as sequences.
LEMMA Writes ==
  /\ <<>> \in Seq(Frames)
  /\ \A k \in Plain : <<Frame(k)>> \in Seq(Frames)
  /\ \A k, l \in Plain : <<Frame(k), Frame(l)>> \in Seq(Frames)
  /\ \A o \in BOOLEAN, f \in Files : <<FileHeader(o), Info(f)>> \in Seq(Frames)
  /\ \A k \in {"ZRPOS", "ZDATA"}, n \in Nat : <<Position(k, n)>> \in Seq(Frames)
BY FrameTypes

-----------------------------------------------------------------------------
(***************************************************************************)
(* Types.                                                                  *)
(***************************************************************************)
LEMMA InitTypes == Init => TypeOK
BY ZFilesAssumption, ZBoundsAssumption
   DEF Init, TypeOK, StoppedSender, StoppedReceiver, Senders, Receivers, Results, Sides

\* What is at the head of the line.
LEMMA HeadTypes ==
  ASSUME wire \in Lines, NEW p \in Sides, Coming(p) # "nothing"
  PROVE  /\ wire[p] \in Seq(Frames) /\ wire[p] # <<>> /\ Head(wire[p]) \in Frames
         /\ Len(wire[p]) \in Nat \ {0} /\ Head(wire[p]) = wire[p][1]
         /\ Coming(p) = Head(wire[p]).kind
BY DEF Lines, Coming

\* A silence costs at most one fault; none, where the other side waits as well.
LEMMA TimeoutTypes ==
  ASSUME NEW p \in Sides, TimesOut(p), faults \in 0..MaxFaults
  PROVE  faults' \in 0..MaxFaults /\ wire[p] = <<>> /\ (faults' = 0 => Waiting(Peer(p)))
         /\ faults' \in {faults, faults + 1}
BY ZBoundsAssumption DEF TimesOut

LEMMA StoppedSenderTypes ==
  ASSUME NEW r \in Results
  PROVE  /\ StoppedSender(r) \in Senders /\ StoppedSender(r).pc = "ended"
         /\ StoppedSender(r).result = r /\ StoppedSender(r).queue = <<>>
BY DEF StoppedSender, Senders

\* What the sender writes of a file, one frame at a time.
LEMMA StreamedTypes ==
  ASSUME NEW f \in Files, NEW n \in Nat
  PROVE  Streamed(f, n) \in Seq(Frames)
<1>1. Content[f] \in Seq(Unit) /\ Len(Content[f]) \in Nat
  BY ZFilesAssumption
<1>2. CASE n < Len(Content[f])
  <2>1. Content[f][n + 1] \in Unit
    BY <1>1, <1>2, ElementOfSeq
  <2> QED  BY <1>2, <2>1, FrameTypes DEF Streamed
<1>3. CASE ~(n < Len(Content[f]))
  BY <1>3, FrameTypes DEF Streamed, Plain
<1> QED  BY <1>2, <1>3

LEMMA SenderStepTypes ==
  ASSUME TypeOK, SenderStep PROVE TypeOK'
<1>1. /\ snd \in Senders /\ wire \in Lines /\ reported \subseteq Files /\ faults \in 0..MaxFaults
      /\ "S" \in Sides /\ Peer("S") = "R" /\ {0, 1} \subseteq Nat
      /\ snd.pc \in {"rpos", "stream", "eof"} => snd.queue # <<>>
  BY DEF TypeOK, Lines, Sides, Peer
<1>2. /\ snd.queue \in Seq(Files) /\ snd.over \in BOOLEAN /\ snd.pos \in Nat
      /\ snd.queue # <<>> => Tail(snd.queue) \in Seq(Files) /\ Head(snd.queue) \in Files
  BY <1>1 DEF Senders
<1>3. SUFFICES snd' \in Senders /\ wire' \in Lines /\ reported' \subseteq Files
               /\ faults' \in 0..MaxFaults
               /\ (snd'.pc \in {"rpos", "stream", "eof"} => snd'.queue # <<>>)
  BY DEF TypeOK, SenderStep, SenderOnly, Lines
<1>4. \A r \in Results : StoppedSender(r) \in Senders /\ StoppedSender(r).pc = "ended"
  BY StoppedSenderTypes
<1>5. \A n \in {0, 1}, F \in Seq(Frames) : Pass("S", n, F) => wire' \in Lines
  BY <1>1, PassEffect
<1>6. \A F \in Seq(Frames) : Quit("S", F) => wire' \in Lines
  BY <1>1, QuitEffect
<1>7. TimesOut("S") => faults' \in 0..MaxFaults
  BY <1>1, TimeoutTypes
<1>8. CASE Greeted
  BY <1>1, <1>5, <1>8, Writes DEF Greeted, SReads, Senders
<1>9. CASE SkipFile
  <2>1. [snd EXCEPT !.queue = Tail(@)] \in Senders
    BY <1>1, <1>2, <1>9 DEF SkipFile, Cannot, Senders
  <2> QED  BY <1>1, <1>2, <1>9, <2>1 DEF SkipFile, Cannot, Senders
<1>10. CASE Offer
  <2>1. <<FileHeader(snd.over), Info(Head(snd.queue))>> \in Seq(Frames)
    BY <1>2, <1>10, Writes DEF Offer
  <2> QED  BY <1>1, <1>2, <1>5, <1>10, <2>1 DEF Offer, Senders
<1>11. CASE Positioned
  <2>1. Head(wire["S"]).pos \in Nat
    BY <1>1, <1>11, HeadTypes, FrameFields DEF Positioned, SReads
  <2>2. <<Position("ZDATA", Head(wire["S"]).pos)>> \in Seq(Frames)
    BY <2>1, Writes
  <2> QED  BY <1>1, <1>5, <1>11, <2>1, <2>2 DEF Positioned, SReads, Senders
<1>12. CASE Stream
  <2> DEFINE f == Head(snd.queue)
  <2>1. f \in Files /\ Content[f] \in Seq(Unit) /\ Len(Content[f]) \in Nat
    BY <1>1, <1>2, <1>12, ZFilesAssumption DEF Stream
  <2> HIDE DEF f
  <2>2. Streamed(f, snd.pos) \in Seq(Frames)
    BY <1>2, <2>1, StreamedTypes
  <2>3. /\ snd' = IF snd.pos < Len(Content[f]) THEN [snd EXCEPT !.pos = @ + 1]
                                                ELSE [snd EXCEPT !.pc = "eof"]
        /\ Pass("S", 0, Streamed(f, snd.pos)) /\ UNCHANGED <<reported, faults>>
        /\ snd.pc = "stream"
    BY <1>12 DEF Stream, f
  <2>4. snd' \in Senders /\ snd'.queue = snd.queue
    BY <1>1, <1>2, <2>3 DEF Senders
  <2> QED  BY <1>1, <1>5, <2>2, <2>3, <2>4
<1>13. CASE Completed
  <2>1. snd.queue # <<>>
    BY <1>1, <1>13 DEF Completed, SReads
  <2>2. [snd EXCEPT !.pc = "next", !.queue = Tail(@)] \in Senders
    BY <1>1, <1>2, <2>1 DEF Senders
  <2> QED  BY <1>1, <1>2, <1>5, <1>13, <2>1, <2>2, Writes DEF Completed, SReads, Senders
<1>14. CASE AllOffered
  BY <1>1, <1>5, <1>14, Writes DEF AllOffered, Senders, Plain
<1>15. CASE SignOff
  BY <1>1, <1>4, <1>6, <1>7, <1>15, Writes DEF SignOff, SReads, SEnds, Results, Plain
<1>16. CASE GiveUp
  BY <1>1, <1>4, <1>6, <1>7, <1>16, Writes DEF GiveUp, SEnds, Results
<1>17. CASE SIgnores
  BY <1>1, <1>5, <1>17, Writes DEF SIgnores
<1>18. CASE SCancelled
  BY <1>1, <1>4, <1>6, <1>18, Writes DEF SCancelled, SEnds, Results, Plain
<1>19. CASE SRaises
  BY <1>1, <1>4, <1>6, <1>19, Writes DEF SRaises, SEnds, Results
<1> QED  BY <1>8, <1>9, <1>10, <1>11, <1>12, <1>13, <1>14, <1>15, <1>16, <1>17, <1>18, <1>19
            DEF SenderStep

LEMMA StoppedReceiverTypes ==
  ASSUME NEW r \in Results
  PROVE  /\ StoppedReceiver(r) \in Receivers /\ StoppedReceiver(r).pc = "ended"
         /\ StoppedReceiver(r).result = r /\ StoppedReceiver(r).file = None
BY DEF StoppedReceiver, Receivers

\* What the receiver keeps of a file that it opens, and makes of one that it closes.
LEMMA KeptTypes ==
  ASSUME disk \in [Files -> Seq(Unit) \cup {Absent}], NEW f \in Files
  PROVE  Kept(f) \in Seq(Unit) /\ Len(Kept(f)) \in Nat
BY DEF Kept

LEMMA SizedTypes ==
  ASSUME NEW c \in Seq(Unit), NEW n \in Nat
  PROVE  /\ Sized(c, n) \in Seq(Unit) /\ Len(Sized(c, n)) = n
         /\ \A i \in 1..n : Sized(c, n)[i] = IF i <= Len(c) THEN c[i] ELSE Zero
<1>1. \A i \in 1..n : (IF i <= Len(c) THEN c[i] ELSE Zero) \in Unit
  BY ZFilesAssumption
<1> QED  BY <1>1 DEF Sized

LEMMA ReceiverStepTypes ==
  ASSUME TypeOK, ReceiverStep PROVE TypeOK'
<1>1. /\ rcv \in Receivers /\ wire \in Lines /\ counted \subseteq Files /\ faults \in 0..MaxFaults
      /\ "R" \in Sides /\ Peer("R") = "S" /\ {0, 1} \subseteq Nat
      /\ disk \in [Files -> Seq(Unit) \cup {Absent}]
      /\ rcv.pc \in {"file", "data"} => rcv.file # None /\ disk[rcv.file] # Absent
  BY DEF TypeOK, Lines, Sides, Peer
<1>2. rcv.file \in Files \cup {None} /\ rcv.over \in BOOLEAN /\ rcv.torn \in BOOLEAN
      /\ (rcv.pc \in {"file", "data"} => rcv.file \in Files /\ disk[rcv.file] \in Seq(Unit))
  BY <1>1 DEF Receivers
<1> DEFINE Goal ==
             /\ rcv' \in Receivers /\ wire' \in Lines /\ counted' \subseteq Files
             /\ disk' \in [Files -> Seq(Unit) \cup {Absent}] /\ faults' \in 0..MaxFaults
             /\ (rcv'.pc \in {"file", "data"} => rcv'.file # None /\ disk'[rcv'.file] # Absent)
<1>3. SUFFICES Goal
  BY DEF TypeOK, ReceiverStep, ReceiverOnly, Lines
<1>4. \A r \in Results : StoppedReceiver(r) \in Receivers /\ StoppedReceiver(r).pc = "ended"
  BY StoppedReceiverTypes
<1>5. \A n \in {0, 1}, F \in Seq(Frames) : Pass("R", n, F) => wire' \in Lines
  BY <1>1, PassEffect
<1>6. \A F \in Seq(Frames) : Quit("R", F) => wire' \in Lines
  BY <1>1, QuitEffect
<1>7. TimesOut("R") => faults' \in 0..MaxFaults
  BY <1>1, TimeoutTypes
<1>8. \A r \in Results, F \in Seq(Frames) :
         REnds(r, F) => Goal \/ ~(faults' \in 0..MaxFaults)
  BY <1>1, <1>4, <1>6 DEF REnds, SameFiles
<1>9. \A pc \in {"hello", "loop", "info", "over"} : Goes(pc) => rcv' \in Receivers /\ rcv'.pc = pc
  BY <1>1 DEF Goes, Receivers
<1>10. Goes("file") /\ rcv.pc = "data" => rcv' \in Receivers /\ rcv'.file = rcv.file
  BY <1>1 DEF Goes, Receivers
<1>11. CASE Invite
  BY <1>1, <1>5, <1>7, <1>11, Writes DEF Invite, RReads, SameFiles, Plain
<1>12. CASE FileOffered
  <2>1. Head(wire["R"]).over \in BOOLEAN
    BY <1>1, <1>12, HeadTypes, FrameFields DEF FileOffered, RReads
  <2>2. rcv' \in Receivers /\ rcv'.pc = "info"
    BY <1>1, <1>12, <2>1 DEF FileOffered, Receivers
  <2> QED  BY <1>1, <1>5, <1>12, <2>2, Writes DEF FileOffered, RReads, SameFiles
<1>13. CASE NoOffer
  BY <1>1, <1>5, <1>9, <1>13, Writes DEF NoOffer, RReads, SameFiles, Plain
<1>14. CASE FinReceived
  BY <1>1, <1>5, <1>9, <1>14, Writes DEF FinReceived, RReads, SameFiles, Plain
<1>15. CASE RIgnores
  BY <1>1, <1>5, <1>15, Writes DEF RIgnores, SameFiles
<1>16. CASE Tears
  <2>1. rcv' \in Receivers /\ rcv'.file = rcv.file /\ rcv'.pc = rcv.pc
    BY <1>1, <1>16 DEF Tears, Receivers
  <2> QED  BY <1>1, <1>5, <1>16, <2>1, Writes DEF Tears, SameFiles
<1>17. CASE InfoCorrupt
  BY <1>1, <1>5, <1>9, <1>17, Writes DEF InfoCorrupt, Subpacket, SameFiles, Plain
<1>18. CASE Refuse
  BY <1>1, <1>5, <1>9, <1>18, Writes DEF Refuse, Subpacket, SameFiles, Plain
<1>19. CASE OpenFile
  <2> DEFINE f == Head(wire["R"]).file
  <2>1. f \in Files
    BY <1>1, <1>19, HeadTypes, FrameFields DEF OpenFile, Subpacket
  <2>2. /\ rcv' = [rcv EXCEPT !.pc = "file", !.file = f]
        /\ disk' = [disk EXCEPT ![f] = Kept(f)]
        /\ counted' = counted \ {f}
        /\ Pass("R", 1, <<Position("ZRPOS", Len(Kept(f)))>>) /\ faults' = faults
    BY <1>19 DEF OpenFile, Subpacket
  <2> HIDE DEF f
  <2>3. Kept(f) \in Seq(Unit) /\ Len(Kept(f)) \in Nat /\ Kept(f) # Absent
    BY <1>1, <2>1, KeptTypes, ZFilesAssumption
  <2>4. wire' \in Lines
    BY <1>5, <2>2, <2>3, Writes
  <2>5. rcv' \in Receivers /\ rcv'.file = f /\ f # None
    BY <1>1, <2>1, <2>2, ZFilesAssumption DEF Receivers
  <2>6. disk' \in [Files -> Seq(Unit) \cup {Absent}] /\ disk'[f] # Absent
    BY <1>1, <2>1, <2>2, <2>3
  <2> QED  BY <1>1, <2>2, <2>4, <2>5, <2>6
<1>20. CASE DataComes
  <2>1. rcv' \in Receivers /\ rcv'.file = rcv.file /\ rcv.pc = "file"
    BY <1>1, <1>20 DEF DataComes, RReads, Receivers
  <2> QED  BY <1>1, <1>5, <1>20, <2>1, Writes DEF DataComes, RReads, SameFiles
<1>21. CASE WriteChunk
  <2>1. Head(wire["R"]).unit \in Unit
    BY <1>1, <1>21, HeadTypes, FrameFields DEF WriteChunk, Subpacket
  <2>2. Append(disk[rcv.file], Head(wire["R"]).unit) \in Seq(Unit)
    BY <1>2, <1>21, <2>1 DEF WriteChunk, Subpacket
  <2>3. disk' \in [Files -> Seq(Unit) \cup {Absent}] /\ disk'[rcv.file] # Absent
    BY <1>1, <1>2, <1>21, <2>2, ZFilesAssumption DEF WriteChunk, Subpacket
  <2> QED  BY <1>1, <1>5, <1>21, <2>3, Writes DEF WriteChunk, Subpacket
<1>22. CASE DataEnds
  BY <1>1, <1>5, <1>10, <1>22, Writes DEF DataEnds, Subpacket, SameFiles
<1>23. CASE DataStalls
  BY <1>1, <1>7, <1>10, <1>23 DEF DataStalls, SameFiles
<1>24. CASE CloseFile
  <2>1. rcv.file \in Files /\ disk[rcv.file] \in Seq(Unit) /\ Len(Content[rcv.file]) \in Nat
    BY <1>2, <1>24, ZFilesAssumption DEF CloseFile, RReads
  <2>2. Sized(disk[rcv.file], Len(Content[rcv.file])) \in Seq(Unit)
    BY <2>1, SizedTypes
  <2>3. disk' \in [Files -> Seq(Unit) \cup {Absent}]
    BY <1>1, <1>24, <2>2 DEF CloseFile
  <2>4. rcv' \in Receivers /\ rcv'.pc = "loop" /\ counted' \subseteq Files
    BY <1>1, <1>24, <2>1 DEF CloseFile, Receivers
  <2>5. wire' \in Lines /\ faults' \in 0..MaxFaults
    BY <1>1, <1>5, <1>7, <1>24, Writes DEF CloseFile, RReads, Plain
  <2> QED  BY <2>3, <2>4, <2>5
<1>25. CASE RDone
  BY <1>1, <1>7, <1>8, <1>25, Writes DEF RDone, OverAndOut, RReads, Results
<1>26. CASE RCancelled
  <2>1. <<Frame("CAN")>> \in Seq(Frames)
    BY Writes DEF Plain
  <2> QED  BY <1>1, <1>8, <1>26, <2>1 DEF RCancelled, Results
<1>27. CASE RRaises
  BY <1>1, <1>7, <1>8, <1>27, Writes DEF RRaises, RReads, Results
<1> HIDE DEF Goal
<1> QED  BY <1>11, <1>12, <1>13, <1>14, <1>15, <1>16, <1>17, <1>18, <1>19, <1>20, <1>21, <1>22,
            <1>23, <1>24, <1>25, <1>26, <1>27 DEF ReceiverStep

LEMMA LaunchTypes ==
  ASSUME TypeOK, NEW p \in Sides, Launch(p) PROVE TypeOK'
<1>1. wire \in Lines /\ {0, 1} \subseteq Nat /\ Sides = {"S", "R"}
  BY DEF TypeOK, Lines, Sides
<1>2. wire' \in Lines
  <2>1. <<Frame("ZRQINIT")>> \in Seq(Frames) /\ <<Frame("ZRINIT")>> \in Seq(Frames)
    BY Writes DEF Plain
  <2> QED  BY <1>1, <2>1, PassEffect DEF Launch
<1>3. CASE p = "S"
  <2>1. snd' \in Senders /\ snd'.pc = "rinit" /\ rcv' = rcv
    BY <1>3, ZFilesAssumption DEF Launch, Senders, Results
  <2> QED  BY <1>2, <2>1, ZBoundsAssumption DEF TypeOK, Launch, Lines
<1>4. CASE p = "R"
  <2>1. rcv' \in Receivers /\ rcv'.pc = "hello" /\ snd' = snd
    BY <1>4 DEF Launch, StoppedReceiver, Receivers, Results
  <2> QED  BY <1>2, <2>1, ZBoundsAssumption DEF TypeOK, Launch, Lines
<1> QED  BY <1>1, <1>3, <1>4

LEMMA InterruptTypes ==
  ASSUME TypeOK, NEW p \in Sides, Interrupt(p) PROVE TypeOK'
<1>1. wire' \in Lines
  <2>1. <<Frame("CAN")>> \in Seq(Frames) /\ wire \in Lines
    BY Writes DEF Plain, TypeOK, Lines
  <2> QED  BY <2>1, QuitEffect DEF Interrupt
<1>2. /\ StoppedSender("cancelled") \in Senders /\ StoppedSender("cancelled").pc = "ended"
      /\ StoppedReceiver("cancelled") \in Receivers /\ StoppedReceiver("cancelled").pc = "ended"
  BY StoppedSenderTypes, StoppedReceiverTypes DEF Results
<1> QED  BY <1>1, <1>2, ZBoundsAssumption DEF TypeOK, Interrupt, Lines

LEMMA SpoilTypes ==
  ASSUME TypeOK, NEW p \in Sides, Spoil(p) PROVE TypeOK'
<1>1. wire' \in Lines
  <2>1. wire \in Lines
    BY DEF TypeOK, Lines
  <2> QED  BY <2>1, SpoilEffect
<1> QED  BY <1>1, ZBoundsAssumption DEF TypeOK, Spoil, Lines

LEMMA NextTypes == TypeOK /\ [Next]_vars => TypeOK'
<1> SUFFICES ASSUME TypeOK, [Next]_vars PROVE TypeOK'
  OBVIOUS
<1>1. CASE UNCHANGED vars
  BY <1>1 DEF vars, TypeOK
<1> QED  BY <1>1, SenderStepTypes, ReceiverStepTypes, LaunchTypes, InterruptTypes, SpoilTypes
            DEF Next, Terminated

\* The receiver writes to a file that it has opened and that exists, and the sender streams
\* a file of its list, whatever is interrupted, restarted, damaged or late.
THEOREM TypeCorrect == Spec => []TypeOK
BY InitTypes, NextTypes, PTL DEF Spec

-----------------------------------------------------------------------------
(***************************************************************************)
(* One sender and one receiver, each started once.  What is damaged or     *)
(* late does not matter here: a damaged frame is one frame less that means *)
(* something, and the frames of either direction keep their order.         *)
(***************************************************************************)

\* What is written to a program that does not run is not left for its successor.
Drained == \A p \in Sides : Stopped(p) => wire[p] = <<>>

\* No frame of one of the kinds K; none behind a frame of kind k.
Lacks(w, K) == \A i \in 1..Len(w) : w[i].kind \notin K
Behind(w, k, K) ==
  \A i, j \in 1..Len(w) : i < j /\ w[i].kind = k => w[j].kind \notin K

\* A program that was never started.
Fresh(p) == IF p = "S" THEN snd = StoppedSender("none") ELSE rcv = StoppedReceiver("none")
Started ==
  /\ \A p \in Sides : Fresh(p) \/ launches >= 1
  /\ Fresh("S") \/ Fresh("R") \/ launches >= 2
\* Until the other side is started, the programs on one side hear nothing and get nowhere.
Alone ==
  /\ Fresh("S") => wire["R"] = <<>> /\ rcv.pc \in {"hello", "loop", "ended"}
  /\ Fresh("R") => wire["S"] = <<>> /\ snd.pc \in {"rinit", "ended"}
  /\ Fresh("S") \/ Fresh("R") => counted = {} /\ reported = {}

Offered == Head(snd.queue)
Offering == snd.pc \in {"rpos", "stream", "eof"}
Writing == rcv.pc \in {"file", "data"}

\* The offer on its way is the only one.  No data is behind it, it is not answered, and
\* what it offers is neither counted by the sender nor open.
OneOffer ==
  /\ Behind(wire["R"], "info", {"info", "chunk"})
  /\ \/ Lacks(wire["R"], {"info"})
     \/ snd.pc \in {"rpos", "ended"} /\ ~Writing /\ Lacks(wire["S"], {"ZRPOS"})
  /\ \A i \in 1..Len(wire["R"]) : wire["R"][i].kind = "info" =>
        /\ wire["R"][i].file \notin reported
        /\ snd.pc = "rpos" => wire["R"][i].file = Offered

\* The answer on its way is the only one, and the file was open when it was sent; a ZRINIT
\* that is read after it says that the file is closed.
Answered == Offered \in counted
OneAnswer ==
  /\ Lacks(wire["S"], {"ZRPOS"}) \/ snd.pc = "rpos"
  /\ Behind(wire["S"], "ZRPOS", {"ZRPOS"})
  /\ \/ Lacks(wire["S"], {"ZRPOS"}) \/ Answered
     \/ (Writing \/ rcv.pc = "ended") /\ Behind(wire["S"], "ZRPOS", {"ZRINIT"})
StreamAnswered ==
  snd.pc \in {"stream", "eof"} =>
    \/ Answered
    \/ (Writing \/ rcv.pc = "ended") /\ Lacks(wire["S"], {"ZRINIT"})

\* The open file is the one on offer, and so is all data on its way.
Units(c) == {c[i] : i \in 1..Len(c)}
Own(f) == Units(Content[f]) \cup {Zero}
WritesOffered ==
  Writing =>
    /\ rcv.file \notin counted
    /\ (Offering /\ Offered = rcv.file) \/ snd.pc = "ended"
    /\ \A i \in 1..Len(wire["R"]) : wire["R"][i].kind = "chunk" =>
          wire["R"][i].unit \in Own(rcv.file)

OwnUnits == \A f \in Files : disk[f] # Absent => Units(disk[f]) \subseteq Own(f)

Conversation ==
  /\ OneOffer /\ OneAnswer /\ StreamAnswered /\ WritesOffered /\ OwnUnits
  /\ reported \subseteq counted
Pair == launches <= 2 => Started /\ Alone /\ Conversation

\* What reading and writing does to the order on the line.
LEMMA Passed ==
  ASSUME wire \in Lines, NEW p \in Sides, NEW n \in {0, 1}, NEW F \in Seq(Frames), Pass(p, n, F),
         n = 1 => wire[p] # <<>>
  PROVE  /\ Len(wire'[p]) \in Nat /\ Len(wire'[p]) = Len(wire[p]) - n
         /\ \A i \in 1..Len(wire'[p]) : i + n \in 1..Len(wire[p]) /\ wire'[p][i] = wire[p][i + n]
         /\ \/ Stopped(Peer(p)) /\ wire'[Peer(p)] = <<>>
            \/ ~Stopped(Peer(p)) /\ wire'[Peer(p)] = wire[Peer(p)] \o F
<1>1. /\ wire'[p] = SubSeq(wire[p], n + 1, Len(wire[p])) /\ wire[p] \in Seq(Frames)
      /\ wire'[Peer(p)] = IF Stopped(Peer(p)) THEN <<>> ELSE wire[Peer(p)] \o F
  BY PassEffect DEF Lines
<1>2. n + 1 \in 1..Len(wire[p]) + 1 /\ Len(wire[p]) \in Nat
  BY <1>1
<1>3. /\ Len(SubSeq(wire[p], n + 1, Len(wire[p]))) = Len(wire[p]) - n
      /\ \A i \in 1..Len(wire[p]) - n : SubSeq(wire[p], n + 1, Len(wire[p]))[i] = wire[p][n + i]
  BY <1>1, <1>2
<1>4. Len(wire'[p]) \in Nat /\ Len(wire'[p]) = Len(wire[p]) - n
  BY <1>1, <1>2, <1>3
<1>5. ASSUME NEW i \in 1..Len(wire'[p])
      PROVE  i + n \in 1..Len(wire[p]) /\ wire'[p][i] = wire[p][i + n]
  <2>1. i \in 1..Len(wire[p]) - n /\ i + n = n + i /\ i + n \in 1..Len(wire[p])
    BY <1>2, <1>4
  <2> QED  BY <1>1, <1>3, <2>1
<1> QED  BY <1>1, <1>4, <1>5

LEMMA ReadKeeps ==
  ASSUME NEW w \in Seq(Frames), NEW v \in Seq(Frames), NEW n \in {0, 1}, NEW k, NEW K,
         Len(v) = Len(w) - n, \A i \in 1..Len(v) : i + n \in 1..Len(w) /\ v[i] = w[i + n]
  PROVE  /\ Lacks(w, K) => Lacks(v, K)
         /\ Behind(w, k, K) => Behind(v, k, K)
         /\ n = 1 /\ Behind(w, k, K) /\ w[1].kind = k /\ w # <<>> => Lacks(v, K)
<1>1. Len(w) \in Nat /\ Len(v) \in Nat
  OBVIOUS
<1>2. Lacks(w, K) => Lacks(v, K)
  BY DEF Lacks
<1>3. ASSUME Behind(w, k, K) PROVE Behind(v, k, K)
  <2> SUFFICES ASSUME NEW i \in 1..Len(v), NEW j \in 1..Len(v), i < j, v[i].kind = k
               PROVE  v[j].kind \notin K
    BY DEF Behind
  <2>1. i + n \in 1..Len(w) /\ j + n \in 1..Len(w) /\ i + n < j + n
    BY <1>1
  <2> QED  BY <1>3, <2>1 DEF Behind
<1>4. ASSUME n = 1, Behind(w, k, K), w[1].kind = k, w # <<>> PROVE Lacks(v, K)
  <2> SUFFICES ASSUME NEW j \in 1..Len(v) PROVE v[j].kind \notin K
    BY DEF Lacks
  <2>1. 1 \in 1..Len(w) /\ j + 1 \in 1..Len(w) /\ 1 < j + 1 /\ v[j] = w[j + 1]
    BY <1>1, <1>4
  <2> QED  BY <1>4, <2>1 DEF Behind
<1> QED  BY <1>2, <1>3, <1>4

LEMMA WriteKeeps ==
  ASSUME NEW w \in Seq(Frames), NEW F \in Seq(Frames), NEW k, NEW K
  PROVE  /\ Lacks(w, K) /\ Lacks(F, K) => Lacks(w \o F, K)
         /\ Behind(w, k, K) /\ Lacks(F, K) => Behind(w \o F, k, K)
         /\ Lacks(w, {k}) /\ Behind(F, k, K) => Behind(w \o F, k, K)
<1> DEFINE v == w \o F
<1>1. /\ Len(w) \in Nat /\ Len(F) \in Nat /\ Len(v) = Len(w) + Len(F)
      /\ \A i \in 1..Len(w) : v[i] = w[i]
      /\ \A i \in Len(w) + 1..Len(v) : i - Len(w) \in 1..Len(F) /\ v[i] = F[i - Len(w)]
  OBVIOUS
<1> HIDE DEF v
<1>2. ASSUME NEW i \in 1..Len(v)
      PROVE  i \in 1..Len(w) \/ i \in Len(w) + 1..Len(v)
  BY <1>1
<1>3. Lacks(w, K) /\ Lacks(F, K) => Lacks(v, K)
  BY <1>1, <1>2 DEF Lacks
<1>4. ASSUME Behind(w, k, K), Lacks(F, K) PROVE Behind(v, k, K)
  <2> SUFFICES ASSUME NEW i \in 1..Len(v), NEW j \in 1..Len(v), i < j, v[i].kind = k
               PROVE  v[j].kind \notin K
    BY DEF Behind
  <2>1. CASE j \in 1..Len(w)
    <3>1. i \in 1..Len(w)
      BY <1>1, <2>1
    <3> QED  BY <1>1, <1>4, <2>1, <3>1 DEF Behind
  <2>2. CASE j \in Len(w) + 1..Len(v)
    BY <1>1, <1>4, <2>2 DEF Lacks
  <2> QED  BY <1>2, <2>1, <2>2
<1>5. ASSUME Lacks(w, {k}), Behind(F, k, K) PROVE Behind(v, k, K)
  <2> SUFFICES ASSUME NEW i \in 1..Len(v), NEW j \in 1..Len(v), i < j, v[i].kind = k
               PROVE  v[j].kind \notin K
    BY DEF Behind
  <2>1. i \in Len(w) + 1..Len(v)
    BY <1>1, <1>2, <1>5 DEF Lacks
  <2>2. j \in Len(w) + 1..Len(v) /\ i - Len(w) < j - Len(w)
    BY <1>1, <2>1
  <2> QED  BY <1>1, <1>5, <2>1, <2>2 DEF Behind
<1> QED  BY <1>3, <1>4, <1>5 DEF v

\* A program that reads or writes runs, and goes on running.
LEMMA PassDrained ==
  ASSUME TypeOK, NEW p \in Sides, NEW n \in {0, 1}, NEW F \in Seq(Frames), Pass(p, n, F),
         ~Stopped(p)', Stopped(Peer(p))' => Stopped(Peer(p))
  PROVE  Drained'
<1>1. Sides = {p, Peer(p)} /\ wire \in Lines
  BY DEF TypeOK, Lines, Sides, Peer
<1>2. wire'[Peer(p)] = IF Stopped(Peer(p)) THEN <<>> ELSE wire[Peer(p)] \o F
  BY <1>1, PassEffect
<1>3. \A q \in Sides : Stopped(q)' => q = Peer(p)
  BY <1>1
<1> QED  BY <1>1, <1>2, <1>3 DEF Drained

LEMMA QuitDrained ==
  ASSUME TypeOK, NEW p \in Sides, NEW F \in Seq(Frames), Quit(p, F),
         Stopped(Peer(p))' => Stopped(Peer(p))
  PROVE  Drained'
<1>1. Sides = {p, Peer(p)} /\ wire \in Lines
  BY DEF TypeOK, Lines, Sides, Peer
<1>2. wire'[p] = <<>> /\ wire'[Peer(p)] = IF Stopped(Peer(p)) THEN <<>> ELSE wire[Peer(p)] \o F
  BY <1>1, QuitEffect
<1> QED  BY <1>1, <1>2 DEF Drained

\* A running program runs on, or ends with Quit().
LEMMA SenderMoves ==
  ASSUME TypeOK, SenderStep
  PROVE  /\ snd.pc # "ended" /\ rcv' = rcv
         /\ \/ snd'.pc # "ended" /\ wire' = wire
            \/ snd'.pc # "ended" /\ \E n \in {0, 1}, F \in Seq(Frames) : Pass("S", n, F)
            \/ \E r \in Results \ {"none"}, F \in Seq(Frames) : SEnds(r, F)
<1>1. /\ snd \in Senders /\ wire \in Lines /\ "S" \in Sides /\ {0, 1} \subseteq Nat
      /\ snd.pc \in {"rpos", "stream", "eof"} => snd.queue # <<>>
  BY DEF TypeOK, Lines, Sides
<1>2. rcv' = rcv
  BY DEF SenderStep, SenderOnly
<1>3. snd.queue \in Seq(Files) /\ snd.over \in BOOLEAN /\ snd.pos \in Nat
  BY <1>1 DEF Senders
<1> DEFINE Reads == snd'.pc # "ended" /\ \E n \in {0, 1}, F \in Seq(Frames) : Pass("S", n, F)
           Ends == \E r \in Results \ {"none"}, F \in Seq(Frames) : SEnds(r, F)
<1>8. CASE Greeted
  BY <1>1, <1>2, <1>8, Writes DEF Greeted, SReads, Senders
<1>9. CASE SkipFile
  BY <1>1, <1>2, <1>9 DEF SkipFile, Senders
<1>10. CASE Offer
  <2>1. <<FileHeader(snd.over), Info(Head(snd.queue))>> \in Seq(Frames)
    BY <1>3, <1>10, Writes DEF Offer
  <2> QED  BY <1>1, <1>2, <1>10, <2>1 DEF Offer, Senders
<1>11. CASE Positioned
  <2>1. Head(wire["S"]).pos \in Nat
    BY <1>1, <1>11, HeadTypes, FrameFields DEF Positioned, SReads
  <2>2. <<Position("ZDATA", Head(wire["S"]).pos)>> \in Seq(Frames)
    BY <2>1, Writes
  <2> QED  BY <1>1, <1>2, <1>11, <2>2 DEF Positioned, SReads, Senders
<1>12. CASE Stream
  <2> DEFINE f == Head(snd.queue)
  <2>1. f \in Files /\ Content[f] \in Seq(Unit) /\ Len(Content[f]) \in Nat
    BY <1>1, <1>3, <1>12, ZFilesAssumption DEF Stream
  <2>2. Streamed(f, snd.pos) \in Seq(Frames)
    BY <1>3, <2>1, StreamedTypes
  <2>3. snd'.pc # "ended"
    BY <1>1, <1>12 DEF Stream, Senders
  <2> QED  BY <1>2, <1>12, <2>2, <2>3 DEF Stream
<1>13. CASE Completed
  BY <1>1, <1>2, <1>13, Writes DEF Completed, SReads, Senders
<1>14. CASE AllOffered
  BY <1>1, <1>2, <1>14, Writes DEF AllOffered, Senders, Plain
<1>15. CASE SignOff
  BY <1>2, <1>15, Writes DEF SignOff, SReads, SEnds, Results, Plain
<1>16. CASE GiveUp
  BY <1>2, <1>16, Writes DEF GiveUp, Results
<1>17. CASE SIgnores
  BY <1>1, <1>2, <1>17, Writes DEF SIgnores, SWaits
<1>18. CASE SCancelled
  BY <1>2, <1>18, Writes DEF SCancelled, SWaits, Results, Plain
<1>19. CASE SRaises
  BY <1>2, <1>19, Writes DEF SRaises, SWaits, Results
<1> HIDE DEF Reads, Ends
<1> QED  BY <1>8, <1>9, <1>10, <1>11, <1>12, <1>13, <1>14, <1>15, <1>16, <1>17, <1>18, <1>19
            DEF SenderStep

LEMMA ReceiverMoves ==
  ASSUME TypeOK, ReceiverStep
  PROVE  /\ rcv.pc # "ended" /\ snd' = snd
         /\ \/ rcv'.pc # "ended" /\ wire' = wire
            \/ rcv'.pc # "ended" /\ \E n \in {0, 1}, F \in Seq(Frames) : Pass("R", n, F)
            \/ \E r \in Results \ {"none"}, F \in Seq(Frames) : REnds(r, F)
<1>1. rcv \in Receivers /\ wire \in Lines /\ "R" \in Sides /\ {0, 1} \subseteq Nat
      /\ disk \in [Files -> Seq(Unit) \cup {Absent}]
  BY DEF TypeOK, Lines, Sides
<1>2. snd' = snd
  BY DEF ReceiverStep, ReceiverOnly
<1>9. \A pc \in {"hello", "loop", "info", "over", "file"} : Goes(pc) => rcv'.pc = pc
  BY <1>1 DEF Goes, Receivers
<1>11. CASE Invite
  BY <1>2, <1>11, Writes DEF Invite, RReads, Plain
<1>12. CASE FileOffered
  <2>1. rcv'.pc = "info"
    BY <1>1, <1>12 DEF FileOffered, Receivers
  <2> QED  BY <1>2, <1>12, <2>1, Writes DEF FileOffered, RReads
<1>13. CASE NoOffer
  BY <1>2, <1>9, <1>13, Writes DEF NoOffer, RReads, Plain
<1>14. CASE FinReceived
  BY <1>2, <1>9, <1>14, Writes DEF FinReceived, RReads, Plain
<1>15. CASE RIgnores
  BY <1>2, <1>15, Writes DEF RIgnores
<1>16. CASE Tears
  <2>1. rcv'.pc = rcv.pc
    BY <1>1, <1>16 DEF Tears, Receivers
  <2> QED  BY <1>2, <1>16, <2>1, Writes DEF Tears
<1>17. CASE InfoCorrupt
  BY <1>2, <1>9, <1>17, Writes DEF InfoCorrupt, Subpacket, Plain
<1>18. CASE Refuse
  BY <1>2, <1>9, <1>18, Writes DEF Refuse, Subpacket, Plain
<1>19. CASE OpenFile
  <2> DEFINE f == Head(wire["R"]).file
  <2>1. f \in Files
    BY <1>1, <1>19, HeadTypes, FrameFields DEF OpenFile, Subpacket
  <2>2. Pass("R", 1, <<Position("ZRPOS", Len(Kept(f)))>>) /\ rcv'.pc = "file" /\ rcv.pc = "info"
    BY <1>1, <1>19 DEF OpenFile, Subpacket, Receivers
  <2> HIDE DEF f
  <2>3. Len(Kept(f)) \in Nat
    BY <1>1, <2>1, KeptTypes
  <2> QED  BY <1>2, <2>2, <2>3, Writes
<1>20. CASE DataComes
  <2>1. rcv'.pc = "data"
    BY <1>1, <1>20 DEF DataComes, Receivers
  <2> QED  BY <1>2, <1>20, <2>1, Writes DEF DataComes, RReads
<1>21. CASE WriteChunk
  BY <1>2, <1>21, Writes DEF WriteChunk, Subpacket
<1>22. CASE DataEnds
  BY <1>2, <1>9, <1>22, Writes DEF DataEnds, Subpacket
<1>23. CASE DataStalls
  BY <1>2, <1>9, <1>23 DEF DataStalls
<1>24. CASE CloseFile
  <2>1. rcv'.pc = "loop"
    BY <1>1, <1>24 DEF CloseFile, Receivers
  <2> QED  BY <1>2, <1>24, <2>1, Writes DEF CloseFile, RReads, Plain
<1>25. CASE RDone
  BY <1>2, <1>25, Writes DEF RDone, OverAndOut, RReads, Results
<1>26. CASE RCancelled
  BY <1>2, <1>26, Writes DEF RCancelled, Results, Plain
<1>27. CASE RRaises
  BY <1>2, <1>27, Writes DEF RRaises, RReads, Results
<1> QED  BY <1>11, <1>12, <1>13, <1>14, <1>15, <1>16, <1>17, <1>18, <1>19, <1>20, <1>21, <1>22,
            <1>23, <1>24, <1>25, <1>26, <1>27 DEF ReceiverStep

LEMMA NextDrained == TypeOK /\ Drained /\ [Next]_vars => Drained'
<1> SUFFICES ASSUME TypeOK, Drained, [Next]_vars PROVE Drained'
  OBVIOUS
<1>1. /\ Sides = {"S", "R"} /\ Peer("S") = "R" /\ Peer("R") = "S" /\ wire \in Lines
      /\ (Stopped("S") <=> snd.pc = "ended") /\ (Stopped("S")' <=> snd'.pc = "ended")
      /\ (Stopped("R") <=> rcv.pc = "ended") /\ (Stopped("R")' <=> rcv'.pc = "ended")
  BY DEF TypeOK, Lines, Sides, Peer, Stopped
<1>2. CASE UNCHANGED vars
  BY <1>2 DEF vars, Drained, Stopped
<1>3. CASE SenderStep
  <2>1. snd.pc # "ended" /\ rcv' = rcv
    BY <1>3, SenderMoves
  <2>2. CASE snd'.pc # "ended" /\ wire' = wire
    BY <1>1, <2>1, <2>2 DEF Drained
  <2>3. CASE snd'.pc # "ended" /\ \E n \in {0, 1}, F \in Seq(Frames) : Pass("S", n, F)
    BY <1>1, <2>1, <2>3, PassDrained
  <2>4. CASE \E r \in Results \ {"none"}, F \in Seq(Frames) : SEnds(r, F)
    BY <1>1, <2>1, <2>4, QuitDrained DEF SEnds
  <2> QED  BY <1>3, <2>2, <2>3, <2>4, SenderMoves
<1>4. CASE ReceiverStep
  <2>1. rcv.pc # "ended" /\ snd' = snd
    BY <1>4, ReceiverMoves
  <2>2. CASE rcv'.pc # "ended" /\ wire' = wire
    BY <1>1, <2>1, <2>2 DEF Drained
  <2>3. CASE rcv'.pc # "ended" /\ \E n \in {0, 1}, F \in Seq(Frames) : Pass("R", n, F)
    BY <1>1, <2>1, <2>3, PassDrained
  <2>4. CASE \E r \in Results \ {"none"}, F \in Seq(Frames) : REnds(r, F)
    BY <1>1, <2>1, <2>4, QuitDrained DEF REnds
  <2> QED  BY <1>4, <2>2, <2>3, <2>4, ReceiverMoves
<1>5. ASSUME NEW p \in Sides, Launch(p) PROVE Drained'
  <2>1. <<Frame("ZRQINIT")>> \in Seq(Frames) /\ <<Frame("ZRINIT")>> \in Seq(Frames)
        /\ 0 \in {0, 1}
    BY Writes DEF Plain
  <2>2. CASE p = "S"
    <3>1. snd'.pc = "rinit" /\ rcv' = rcv /\ Pass("S", 0, <<Frame("ZRQINIT")>>)
      BY <1>5, <2>2 DEF Launch
    <3> QED  BY <1>1, <2>1, <3>1, PassDrained
  <2>3. CASE p = "R"
    <3>1. rcv'.pc = "hello" /\ snd' = snd /\ Pass("R", 0, <<Frame("ZRINIT")>>)
      BY <1>5, <2>3 DEF Launch, StoppedReceiver
    <3> QED  BY <1>1, <2>1, <3>1, PassDrained
  <2> QED  BY <1>1, <2>2, <2>3
<1>6. ASSUME NEW p \in Sides, Interrupt(p) PROVE Drained'
  <2>1. <<Frame("CAN")>> \in Seq(Frames)
    BY Writes DEF Plain
  <2>2. Quit(p, <<Frame("CAN")>>) /\ (Stopped(Peer(p))' => Stopped(Peer(p)))
    BY <1>1, <1>6 DEF Interrupt
  <2> QED  BY <2>1, <2>2, QuitDrained
<1>7. ASSUME NEW p \in Sides, Spoil(p) PROVE Drained'
  <2>1. wire[p] # <<>> /\ \A q \in Sides \ {p} : wire'[q] = wire[q]
    BY <1>1, <1>7, SpoilEffect
  <2>2. snd' = snd /\ rcv' = rcv
    BY <1>7 DEF Spoil
  <2> QED  BY <1>1, <2>1, <2>2 DEF Drained
<1> QED  BY <1>2, <1>3, <1>4, <1>5, <1>6, <1>7 DEF Next, Terminated

\* A program that nobody answers greets and gives up.
LEMMA SenderAlone ==
  ASSUME TypeOK, SenderStep, snd.pc = "rinit", wire["S"] = <<>> PROVE GiveUp
<1>1. Coming("S") = "nothing"
  BY DEF Coming
<1> QED  BY <1>1 DEF SenderStep, Greeted, SReads, SkipFile, Offer, Positioned, Stream, Completed,
                      AllOffered, SignOff, SIgnores, SCancelled, SRaises, SWaits

LEMMA ReceiverAlone ==
  ASSUME TypeOK, ReceiverStep, rcv.pc \in {"hello", "loop"}, wire["R"] = <<>> PROVE Invite
<1>1. Coming("R") = "nothing"
  BY DEF Coming
<1> QED  BY <1>1 DEF ReceiverStep, FileOffered, RReads, NoOffer, FinReceived, RIgnores, Tears,
            InfoCorrupt, Subpacket, Refuse, OpenFile, DataComes, WriteChunk, DataEnds, DataStalls,
            CloseFile, RDone, OverAndOut, RCancelled, RRaises, NoHeaders, Subpackets

LEMMA NextAlone ==
  ASSUME TypeOK, Drained, Started, Alone, [Next]_vars, launches' <= 2
  PROVE  Started' /\ Alone'
<1>1. /\ Sides = {"S", "R"} /\ Peer("S") = "R" /\ Peer("R") = "S" /\ wire \in Lines
      /\ launches \in Nat /\ {0, 1} \subseteq Nat
      /\ (Fresh("S") <=> snd = StoppedSender("none"))
      /\ (Fresh("S")' <=> snd' = StoppedSender("none"))
      /\ (Fresh("R") <=> rcv = StoppedReceiver("none"))
      /\ (Fresh("R")' <=> rcv' = StoppedReceiver("none"))
      /\ StoppedSender("none").pc = "ended" /\ StoppedReceiver("none").pc = "ended"
  BY ZBoundsAssumption DEF TypeOK, Lines, Sides, Peer, Fresh, StoppedSender, StoppedReceiver
<1>2. CASE UNCHANGED vars
  BY <1>2 DEF vars, Started, Alone, Fresh
<1>3. CASE SenderStep
  <2>1. /\ snd.pc # "ended" /\ rcv' = rcv /\ counted' = counted /\ launches' = launches
    BY <1>3, SenderMoves DEF SenderStep, SenderOnly
  <2>2. ~Fresh("S") /\ ~Fresh("S")'
    <3>1. ASSUME NEW r \in Results \ {"none"}, NEW F \in Seq(Frames), SEnds(r, F)
          PROVE  snd' # StoppedSender("none")
      BY <3>1 DEF SEnds, StoppedSender
    <3> QED  BY <1>1, <1>3, <2>1, <3>1, SenderMoves
  <2>3. Started'
    BY <1>1, <2>1, <2>2 DEF Started
  <2>4. ASSUME Fresh("R")
        PROVE  wire'["S"] = <<>> /\ snd'.pc = "ended" /\ reported' = reported
    <3>1. wire["S"] = <<>> /\ snd.pc = "rinit"
      BY <2>1, <2>4 DEF Alone
    <3>2. GiveUp
      BY <1>3, <3>1, SenderAlone
    <3>3. Quit("S", <<>>) /\ snd' = StoppedSender("failed") /\ reported' = reported
      BY <3>2 DEF GiveUp, SEnds
    <3> QED  BY <1>1, <3>3, QuitEffect, Writes, StoppedSenderTypes DEF Results
  <2> QED  BY <1>1, <2>1, <2>2, <2>3, <2>4 DEF Alone
<1>4. CASE ReceiverStep
  <2>1. /\ rcv.pc # "ended" /\ snd' = snd /\ reported' = reported /\ launches' = launches
    BY <1>4, ReceiverMoves DEF ReceiverStep, ReceiverOnly
  <2>2. ~Fresh("R") /\ ~Fresh("R")'
    <3>1. ASSUME NEW r \in Results \ {"none"}, NEW F \in Seq(Frames), REnds(r, F)
          PROVE  rcv' # StoppedReceiver("none")
      BY <3>1 DEF REnds, StoppedReceiver
    <3> QED  BY <1>1, <1>4, <2>1, <3>1, ReceiverMoves
  <2>3. Started'
    BY <1>1, <2>1, <2>2 DEF Started
  <2>4. ASSUME Fresh("S")
        PROVE  wire'["R"] = <<>> /\ rcv' = rcv /\ counted' = counted
    <3>1. wire["R"] = <<>> /\ rcv.pc \in {"hello", "loop"}
      BY <2>1, <2>4 DEF Alone
    <3>2. Invite
      BY <1>4, <3>1, ReceiverAlone
    <3>3. rcv' = rcv /\ counted' = counted
      BY <3>2 DEF Invite, SameFiles
    <3>4. <<Frame("ZRINIT")>> \in Seq(Frames) /\ Coming("R") = "nothing"
      BY <3>1, Writes DEF Plain, Coming
    <3>5. Pass("R", 0, <<Frame("ZRINIT")>>)
      BY <3>2, <3>4 DEF Invite, RReads
    <3>6. Len(wire'["R"]) = 0 /\ wire'["R"] \in Seq(Frames)
      <4>4. "R" \in Sides /\ 0 \in {0, 1}
        BY <1>1
      <4>1. Len(wire'["R"]) = Len(wire["R"]) - 0 /\ wire' \in Lines
        <5>3. wire \in Lines /\ <<Frame("ZRINIT")>> \in Seq(Frames) /\ (0 = 1 => wire["R"] # <<>>)
          BY <1>1, <3>4
        <5>1. Len(wire'["R"]) = Len(wire["R"]) - 0
          BY <5>3, <3>5, <4>4, Passed
        <5>2. wire' \in Lines
          BY <1>1, <3>4, <3>5, <4>4, PassEffect
        <5> QED  BY <5>1, <5>2
      <4>2. wire["R"] = <<>> /\ Len(<<>>) = 0
        BY <3>1
      <4>3. wire'["R"] \in Seq(Frames)
        BY <1>1, <4>1 DEF Lines
      <4> QED  BY <4>1, <4>2, <4>3
    <3> QED  BY <3>3, <3>6
  <2> QED  BY <1>1, <2>1, <2>2, <2>3, <2>4 DEF Alone
<1>5. ASSUME NEW p \in Sides, Launch(p) PROVE Started' /\ Alone'
  <2>1. /\ <<Frame("ZRQINIT")>> \in Seq(Frames) /\ <<Frame("ZRINIT")>> \in Seq(Frames)
        /\ 0 \in {0, 1} /\ launches' = launches + 1 /\ Stopped(p)
        /\ counted' = counted /\ reported' = reported
    BY <1>5, Writes DEF Plain, Launch
  <2>2. wire[p] = <<>>
    BY <1>5, <2>1 DEF Drained
  <2>3. \A F \in Seq(Frames) : Pass(p, 0, F) => wire'[p] = <<>>
    <3> SUFFICES ASSUME NEW F \in Seq(Frames), Pass(p, 0, F) PROVE wire'[p] = <<>>
      OBVIOUS
    <3>1. Len(wire'[p]) = Len(wire[p]) - 0 /\ wire'[p] \in Seq(Frames)
      BY <1>1, <1>5, <2>1, Passed, PassEffect DEF Lines
    <3> QED  BY <2>2, <3>1
  <2>4. ASSUME Fresh(Peer(p)) PROVE \A F \in Seq(Frames) : Pass(p, 0, F) => wire'[Peer(p)] = <<>>
    <3>1. Stopped(Peer(p))
      BY <1>1, <1>5, <2>4 DEF Stopped
    <3> QED  BY <1>1, <1>5, <2>1, <3>1, PassEffect
  <2>5. CASE p = "S"
    <3>1. /\ snd'.pc = "rinit" /\ rcv' = rcv /\ Pass("S", 0, <<Frame("ZRQINIT")>>)
          /\ ~Fresh("S")'
      BY <1>1, <1>5, <2>5 DEF Launch
    <3>2. Fresh("S") \/ Fresh("R")
      BY <1>1, <2>1 DEF Started
    <3>3. Started'
      BY <1>1, <2>1, <3>1 DEF Started
    <3> QED  BY <1>1, <2>1, <2>3, <2>5, <3>1, <3>2, <3>3 DEF Alone
  <2>6. CASE p = "R"
    <3>1. /\ rcv'.pc = "hello" /\ snd' = snd /\ Pass("R", 0, <<Frame("ZRINIT")>>)
          /\ ~Fresh("R")'
      BY <1>1, <1>5, <2>6 DEF Launch, StoppedReceiver
    <3>2. Fresh("S") \/ Fresh("R")
      BY <1>1, <2>1 DEF Started
    <3>3. Started'
      BY <1>1, <2>1, <3>1 DEF Started
    <3> QED  BY <1>1, <2>1, <2>3, <2>6, <3>1, <3>2, <3>3 DEF Alone
  <2> QED  BY <1>1, <2>5, <2>6
<1>6. ASSUME NEW p \in Sides, Interrupt(p) PROVE Started' /\ Alone'
  <2>1. /\ <<Frame("CAN")>> \in Seq(Frames) /\ ~Stopped(p) /\ Quit(p, <<Frame("CAN")>>)
        /\ launches' = launches /\ counted' = counted /\ reported' = reported
    BY <1>6, Writes DEF Plain, Interrupt
  <2>2. wire'[p] = <<>> /\ (Stopped(Peer(p)) => wire'[Peer(p)] = <<>>)
    BY <1>1, <1>6, <2>1, QuitEffect
  <2>3. CASE p = "S"
    <3>1. /\ snd'.pc = "ended" /\ snd'.result = "cancelled" /\ rcv' = rcv
      BY <1>6, <2>3 DEF Interrupt, StoppedSender
    <3>2. ~Fresh("S") /\ ~Fresh("S")'
      BY <1>1, <2>1, <2>3, <3>1 DEF Stopped, StoppedSender
    <3> QED  BY <1>1, <2>1, <2>2, <2>3, <3>1, <3>2 DEF Started, Alone, Stopped
  <2>4. CASE p = "R"
    <3>1. /\ rcv'.pc = "ended" /\ rcv'.result = "cancelled" /\ snd' = snd
      BY <1>6, <2>4 DEF Interrupt, StoppedReceiver
    <3>2. ~Fresh("R") /\ ~Fresh("R")'
      BY <1>1, <2>1, <2>4, <3>1 DEF Stopped, StoppedReceiver
    <3> QED  BY <1>1, <2>1, <2>2, <2>4, <3>1, <3>2 DEF Started, Alone, Stopped
  <2> QED  BY <1>1, <2>3, <2>4
<1>7. ASSUME NEW p \in Sides, Spoil(p) PROVE Started' /\ Alone'
  <2>1. wire[p] # <<>> /\ \A q \in Sides \ {p} : wire'[q] = wire[q]
    BY <1>1, <1>7, SpoilEffect
  <2>2. /\ snd' = snd /\ rcv' = rcv /\ launches' = launches
        /\ counted' = counted /\ reported' = reported
    BY <1>7 DEF Spoil
  <2> QED  BY <1>1, <2>1, <2>2 DEF Started, Alone
<1> QED  BY <1>2, <1>3, <1>4, <1>5, <1>6, <1>7 DEF Next, Terminated

LEMMA EmptyLine ==
  /\ \A K : Lacks(<<>>, K)
  /\ \A k, K : Behind(<<>>, k, K)
BY DEF Lacks, Behind

LEMMA LineKeeps ==
  ASSUME wire \in Lines, NEW p \in Sides, NEW n \in {0, 1}, NEW F \in Seq(Frames), Pass(p, n, F),
         n = 1 => wire[p] # <<>>, NEW k, NEW K
  PROVE  /\ Lacks(wire[p], K) => Lacks(wire'[p], K)
         /\ Behind(wire[p], k, K) => Behind(wire'[p], k, K)
         /\ n = 1 /\ Behind(wire[p], k, K) /\ wire[p][1].kind = k => Lacks(wire'[p], K)
         /\ Lacks(wire[Peer(p)], K) /\ Lacks(F, K) => Lacks(wire'[Peer(p)], K)
         /\ Behind(wire[Peer(p)], k, K) /\ Lacks(F, K) => Behind(wire'[Peer(p)], k, K)
         /\ Lacks(wire[Peer(p)], {k}) /\ Behind(F, k, K) => Behind(wire'[Peer(p)], k, K)
<1>1. Peer(p) \in Sides /\ wire[p] \in Seq(Frames) /\ wire[Peer(p)] \in Seq(Frames)
      /\ wire'[p] \in Seq(Frames)
  <2>1. wire' \in Lines
    BY PassEffect
  <2> QED  BY <2>1 DEF Lines, Sides, Peer
<1> DEFINE w == wire[p]
           v == wire'[p]
           x == wire[Peer(p)]
<1>2. Len(v) = Len(w) - n /\ \A i \in 1..Len(v) : i + n \in 1..Len(w) /\ v[i] = w[i + n]
  BY Passed
<1>3. w \in Seq(Frames) /\ v \in Seq(Frames) /\ x \in Seq(Frames) /\ (n = 1 => w # <<>>)
  BY <1>1
<1>4. wire'[Peer(p)] = <<>> \/ wire'[Peer(p)] = x \o F
  BY Passed
<1>7. Lacks(<<>>, K) /\ Behind(<<>>, k, K)
  BY EmptyLine
<1> HIDE DEF w, v, x
<1>5. /\ Lacks(w, K) => Lacks(v, K)
      /\ Behind(w, k, K) => Behind(v, k, K)
      /\ n = 1 /\ Behind(w, k, K) /\ w[1].kind = k /\ w # <<>> => Lacks(v, K)
  BY <1>2, <1>3, ReadKeeps
<1>6. /\ Lacks(x, K) /\ Lacks(F, K) => Lacks(x \o F, K)
      /\ Behind(x, k, K) /\ Lacks(F, K) => Behind(x \o F, k, K)
      /\ Lacks(x, {k}) /\ Behind(F, k, K) => Behind(x \o F, k, K)
  BY <1>3, WriteKeeps
<1> QED  BY <1>3, <1>4, <1>5, <1>6, <1>7 DEF w, v, x

\* The frames of a line to which others are added.
LEMMA Elements ==
  ASSUME NEW x \in Seq(Frames), NEW F \in Seq(Frames)
  PROVE  \A i \in 1..Len(x \o F) :
           \/ \E j \in 1..Len(x) : (x \o F)[i] = x[j]
           \/ \E j \in 1..Len(F) : (x \o F)[i] = F[j]
<1> DEFINE v == x \o F
<1>1. /\ Len(x) \in Nat /\ Len(F) \in Nat /\ Len(v) = Len(x) + Len(F)
      /\ \A i \in 1..Len(x) : v[i] = x[i]
      /\ \A i \in Len(x) + 1..Len(v) : i - Len(x) \in 1..Len(F) /\ v[i] = F[i - Len(x)]
  OBVIOUS
<1> HIDE DEF v
<1>2. \A i \in 1..Len(v) : i \in 1..Len(x) \/ i \in Len(x) + 1..Len(v)
  BY <1>1
<1>3. \A i \in 1..Len(v) : (\E j \in 1..Len(x) : v[i] = x[j]) \/ (\E j \in 1..Len(F) : v[i] = F[j])
  BY <1>1, <1>2
<1> QED  BY <1>3 DEF v

\* Every frame on the line was there or has just been written.
LEMMA LineHolds ==
  ASSUME wire \in Lines, NEW p \in Sides, NEW n \in {0, 1}, NEW F \in Seq(Frames), Pass(p, n, F),
         n = 1 => wire[p] # <<>>
  PROVE  /\ \A i \in 1..Len(wire'[p]) : \E j \in 1..Len(wire[p]) : wire'[p][i] = wire[p][j]
         /\ \A i \in 1..Len(wire'[Peer(p)]) :
              \/ \E j \in 1..Len(wire[Peer(p)]) : wire'[Peer(p)][i] = wire[Peer(p)][j]
              \/ \E j \in 1..Len(F) : wire'[Peer(p)][i] = F[j]
<1>1. Peer(p) \in Sides /\ wire[Peer(p)] \in Seq(Frames)
  BY DEF Lines, Sides, Peer
<1> DEFINE x == wire[Peer(p)]
<1>2. \A i \in 1..Len(wire'[p]) : i + n \in 1..Len(wire[p]) /\ wire'[p][i] = wire[p][i + n]
  BY Passed
<1>3. wire'[Peer(p)] = <<>> \/ wire'[Peer(p)] = x \o F
  BY Passed
<1>4. x \in Seq(Frames)
  BY <1>1
<1> HIDE DEF x
<1>5. \A i \in 1..Len(x \o F) :
        \/ \E j \in 1..Len(x) : (x \o F)[i] = x[j]
        \/ \E j \in 1..Len(F) : (x \o F)[i] = F[j]
  BY <1>4, Elements
<1>6. \A i \in 1..Len(wire'[p]) : \E j \in 1..Len(wire[p]) : wire'[p][i] = wire[p][j]
  BY <1>2, Zenon
<1>7. \A i \in 1..Len(wire'[Peer(p)]) :
        \/ \E j \in 1..Len(x) : wire'[Peer(p)][i] = x[j]
        \/ \E j \in 1..Len(F) : wire'[Peer(p)][i] = F[j]
  <2>1. CASE wire'[Peer(p)] = <<>>
    <3>1. 1..Len(wire'[Peer(p)]) = {}
      BY <2>1
    <3> QED  BY <3>1
  <2>2. CASE wire'[Peer(p)] = x \o F
    BY <1>5, <2>2, Zenon
  <2> QED  BY <1>3, <2>1, <2>2
<1> QED  BY <1>6, <1>7 DEF x

\* The parts of the line that the conversation speaks about, when the receiver reads and
\* writes ...
LEMMA ReceiverLine ==
  ASSUME wire \in Lines, NEW n \in {0, 1}, NEW F \in Seq(Frames), Pass("R", n, F),
         n = 1 => wire["R"] # <<>>
  PROVE  /\ Behind(wire["R"], "info", {"info", "chunk"})
              => Behind(wire'["R"], "info", {"info", "chunk"})
         /\ Lacks(wire["R"], {"info"}) => Lacks(wire'["R"], {"info"})
         /\ \A i \in 1..Len(wire'["R"]) : \E j \in 1..Len(wire["R"]) : wire'["R"][i] = wire["R"][j]
         /\ Lacks(F, {"ZRPOS"}) =>
              /\ Lacks(wire["S"], {"ZRPOS"}) => Lacks(wire'["S"], {"ZRPOS"})
              /\ Behind(wire["S"], "ZRPOS", {"ZRPOS"}) => Behind(wire'["S"], "ZRPOS", {"ZRPOS"})
         /\ Lacks(F, {"ZRINIT"}) =>
              /\ Lacks(wire["S"], {"ZRINIT"}) => Lacks(wire'["S"], {"ZRINIT"})
              /\ Behind(wire["S"], "ZRPOS", {"ZRINIT"}) => Behind(wire'["S"], "ZRPOS", {"ZRINIT"})
<1>1. "R" \in Sides /\ Peer("R") = "S"
  BY DEF Sides, Peer
<1>2. \A k, K :
         /\ Lacks(wire["R"], K) => Lacks(wire'["R"], K)
         /\ Behind(wire["R"], k, K) => Behind(wire'["R"], k, K)
         /\ Lacks(wire["S"], K) /\ Lacks(F, K) => Lacks(wire'["S"], K)
         /\ Behind(wire["S"], k, K) /\ Lacks(F, K) => Behind(wire'["S"], k, K)
  <2> TAKE k, K
  <2> QED  BY <1>1, LineKeeps
<1>3. \A i \in 1..Len(wire'["R"]) : \E j \in 1..Len(wire["R"]) : wire'["R"][i] = wire["R"][j]
  BY <1>1, LineHolds
<1> QED  BY <1>2, <1>3, Zenon

\* ... and when the sender does.
LEMMA SenderLine ==
  ASSUME wire \in Lines, NEW n \in {0, 1}, NEW F \in Seq(Frames), Pass("S", n, F),
         n = 1 => wire["S"] # <<>>
  PROVE  /\ Lacks(wire["S"], {"ZRPOS"}) => Lacks(wire'["S"], {"ZRPOS"})
         /\ Lacks(wire["S"], {"ZRINIT"}) => Lacks(wire'["S"], {"ZRINIT"})
         /\ Behind(wire["S"], "ZRPOS", {"ZRPOS"}) => Behind(wire'["S"], "ZRPOS", {"ZRPOS"})
         /\ Behind(wire["S"], "ZRPOS", {"ZRINIT"}) => Behind(wire'["S"], "ZRPOS", {"ZRINIT"})
         /\ Lacks(wire["R"], {"info"}) /\ Lacks(F, {"info"}) => Lacks(wire'["R"], {"info"})
         /\ Behind(wire["R"], "info", {"info", "chunk"}) /\ Lacks(F, {"info", "chunk"})
              => Behind(wire'["R"], "info", {"info", "chunk"})
         /\ Lacks(wire["R"], {"info"}) /\ Behind(F, "info", {"info", "chunk"})
              => Behind(wire'["R"], "info", {"info", "chunk"})
         /\ \A i \in 1..Len(wire'["R"]) :
              \/ \E j \in 1..Len(wire["R"]) : wire'["R"][i] = wire["R"][j]
              \/ \E j \in 1..Len(F) : wire'["R"][i] = F[j]
<1>1. "S" \in Sides /\ Peer("S") = "R"
  BY DEF Sides, Peer
<1>2. \A k, K :
         /\ Lacks(wire["S"], K) => Lacks(wire'["S"], K)
         /\ Behind(wire["S"], k, K) => Behind(wire'["S"], k, K)
         /\ Lacks(wire["R"], K) /\ Lacks(F, K) => Lacks(wire'["R"], K)
         /\ Behind(wire["R"], k, K) /\ Lacks(F, K) => Behind(wire'["R"], k, K)
         /\ Lacks(wire["R"], {k}) /\ Behind(F, k, K) => Behind(wire'["R"], k, K)
  <2> TAKE k, K
  <2> QED  BY <1>1, LineKeeps
<1>3. \A i \in 1..Len(wire'["R"]) :
              \/ \E j \in 1..Len(wire["R"]) : wire'["R"][i] = wire["R"][j]
              \/ \E j \in 1..Len(F) : wire'["R"][i] = F[j]
  BY <1>1, LineHolds
<1> QED  BY <1>2, <1>3, Zenon

\* The receiver between two files answers whatever it reads.
LEMMA QuietReceiver ==
  ASSUME wire \in Lines, Conversation, NEW n \in {0, 1}, NEW F \in Seq(Frames), Pass("R", n, F),
         n = 1 => wire["R"] # <<>>, Lacks(F, {"ZRPOS"}),
         rcv.pc \notin {"file", "data", "ended"}, rcv'.pc \notin {"file", "data"},
         snd' = snd, reported' = reported, counted' = counted, disk' = disk
  PROVE  Conversation'
<1> DEFINE wR == wire["R"]
           wS == wire["S"]
<1>1. /\ Behind(wR, "info", {"info", "chunk"}) => Behind(wR', "info", {"info", "chunk"})
      /\ Lacks(wR, {"info"}) => Lacks(wR', {"info"})
      /\ \A i \in 1..Len(wR') : \E j \in 1..Len(wR) : wR'[i] = wR[j]
      /\ Lacks(wS, {"ZRPOS"}) => Lacks(wS', {"ZRPOS"})
      /\ Behind(wS, "ZRPOS", {"ZRPOS"}) => Behind(wS', "ZRPOS", {"ZRPOS"})
  BY ReceiverLine
<1>2. /\ ~Writing /\ ~Writing' /\ Answered' = Answered /\ Offered' = Offered
  BY DEF Writing, Answered, Offered
<1>3. OneOffer'
  BY <1>1, <1>2 DEF Conversation, OneOffer
<1>4. OneAnswer'
  BY <1>1, <1>2 DEF Conversation, OneAnswer
<1>5. StreamAnswered'
  BY <1>2 DEF Conversation, StreamAnswered
<1>6. WritesOffered' /\ OwnUnits'
  BY <1>2 DEF Conversation, WritesOffered, OwnUnits
<1> QED  BY <1>3, <1>4, <1>5, <1>6 DEF Conversation

\* The receiver does not answer while the file stays open.
LEMMA WritingReceiver ==
  ASSUME wire \in Lines, Conversation, NEW n \in {0, 1},
         Pass("R", n, <<>>) \/ wire' = wire, n = 1 => wire["R"] # <<>>,
         Writing, rcv'.pc \in {"file", "data"}, rcv'.file = rcv.file,
         snd' = snd, reported' = reported, counted' = counted, OwnUnits'
  PROVE  Conversation'
<1> DEFINE wR == wire["R"]
           wS == wire["S"]
<1>1. /\ Behind(wR, "info", {"info", "chunk"}) => Behind(wR', "info", {"info", "chunk"})
      /\ Lacks(wR, {"info"}) => Lacks(wR', {"info"})
      /\ \A i \in 1..Len(wR') : \E j \in 1..Len(wR) : wR'[i] = wR[j]
      /\ Lacks(wS, {"ZRPOS"}) => Lacks(wS', {"ZRPOS"})
      /\ Behind(wS, "ZRPOS", {"ZRPOS"}) => Behind(wS', "ZRPOS", {"ZRPOS"})
      /\ Lacks(wS, {"ZRINIT"}) => Lacks(wS', {"ZRINIT"})
      /\ Behind(wS, "ZRPOS", {"ZRINIT"}) => Behind(wS', "ZRPOS", {"ZRINIT"})
  <2>1. CASE Pass("R", n, <<>>)
    <3>1. <<>> \in Seq(Frames) /\ Lacks(<<>>, {"ZRPOS"}) /\ Lacks(<<>>, {"ZRINIT"})
      BY EmptyLine
    <3> QED  BY <2>1, <3>1, ReceiverLine
  <2>2. CASE wire' = wire
    BY <2>2
  <2> QED  BY <2>1, <2>2
<1>2. /\ Writing' /\ Answered' = Answered /\ Offered' = Offered /\ Offering' = Offering
  BY DEF Writing, Answered, Offered, Offering
<1>3. OneOffer'
  BY <1>1, <1>2 DEF Conversation, OneOffer
<1>4. OneAnswer'
  BY <1>1, <1>2 DEF Conversation, OneAnswer
<1>5. StreamAnswered'
  BY <1>1, <1>2 DEF Conversation, StreamAnswered
<1>6. WritesOffered'
  <2>1. \A i \in 1..Len(wR') : wR'[i].kind = "chunk" => wR'[i].unit \in Own(rcv.file)
    BY <1>1 DEF Conversation, WritesOffered
  <2> QED  BY <1>2, <2>1 DEF Conversation, WritesOffered
<1> QED  BY <1>3, <1>4, <1>5, <1>6 DEF Conversation

\* The end of the receiver.
LEMMA EndingReceiver ==
  ASSUME wire \in Lines, Conversation, NEW F \in Seq(Frames), Quit("R", F),
         Lacks(F, {"ZRPOS"}), Lacks(F, {"ZRINIT"}), rcv.pc # "ended", rcv'.pc = "ended",
         snd' = snd, reported' = reported, counted' = counted, disk' = disk
  PROVE  Conversation'
<1> DEFINE wR == wire["R"]
           wS == wire["S"]
<1>0. "R" \in Sides /\ Peer("R") = "S" /\ wS \in Seq(Frames)
  BY DEF Sides, Peer, Lines
<1>1. wR' = <<>> /\ (wS' = <<>> \/ wS' = wS \o F)
  BY <1>0, QuitEffect
<1>2. /\ Lacks(wS, {"ZRPOS"}) => Lacks(wS', {"ZRPOS"})
      /\ Behind(wS, "ZRPOS", {"ZRPOS"}) => Behind(wS', "ZRPOS", {"ZRPOS"})
      /\ Lacks(wS, {"ZRINIT"}) => Lacks(wS', {"ZRINIT"})
      /\ Behind(wS, "ZRPOS", {"ZRINIT"}) => Behind(wS', "ZRPOS", {"ZRINIT"})
  <2>1. CASE wS' = <<>>
    BY <2>1, EmptyLine
  <2>2. CASE wS' = wS \o F
    <3> HIDE DEF wS
    <3>1. \A k, K : /\ Lacks(wS, K) /\ Lacks(F, K) => Lacks(wS \o F, K)
                    /\ Behind(wS, k, K) /\ Lacks(F, K) => Behind(wS \o F, k, K)
      BY <1>0, WriteKeeps
    <3> QED  BY <2>2, <3>1
  <2> QED  BY <1>1, <2>1, <2>2
<1>3. /\ ~Writing' /\ Answered' = Answered /\ Offered' = Offered
  BY DEF Writing, Answered, Offered
<1>4. OneOffer'
  <2>1. Lacks(wR', {"info"}) /\ Behind(wR', "info", {"info", "chunk"}) /\ 1..Len(wR') = {}
    BY <1>1, EmptyLine
  <2> QED  BY <2>1 DEF OneOffer
<1>5. OneAnswer'
  BY <1>2, <1>3 DEF Conversation, OneAnswer
<1>6. StreamAnswered'
  BY <1>2, <1>3 DEF Conversation, StreamAnswered
<1>7. WritesOffered' /\ OwnUnits'
  BY <1>3 DEF Conversation, WritesOffered, OwnUnits
<1> QED  BY <1>4, <1>5, <1>6, <1>7 DEF Conversation

\* The end of the sender.
LEMMA EndingSender ==
  ASSUME wire \in Lines, Conversation, NEW F \in Seq(Frames), Quit("S", F),
         Lacks(F, {"info"}), Lacks(F, {"info", "chunk"}), snd.pc # "ended", snd'.pc = "ended",
         rcv' = rcv, reported' = reported, counted' = counted, disk' = disk
  PROVE  Conversation'
<1> DEFINE wR == wire["R"]
           wS == wire["S"]
<1>0. "S" \in Sides /\ Peer("S") = "R" /\ wR \in Seq(Frames)
  BY DEF Sides, Peer, Lines
<1>1. wS' = <<>> /\ (wR' = <<>> \/ wR' = wR \o F)
  BY <1>0, QuitEffect
<1>2. /\ Lacks(wR, {"info"}) => Lacks(wR', {"info"})
      /\ Behind(wR, "info", {"info", "chunk"}) => Behind(wR', "info", {"info", "chunk"})
      /\ \A i \in 1..Len(wR') : wR'[i].kind \in {"info", "chunk"} =>
            \E j \in 1..Len(wR) : wR'[i] = wR[j]
  <2>1. CASE wR' = <<>>
    <3>1. 1..Len(wR') = {}
      BY <2>1
    <3> QED  BY <2>1, <3>1, EmptyLine
  <2>2. CASE wR' = wR \o F
    <3> HIDE DEF wR
    <3>1. \A k, K : /\ Lacks(wR, K) /\ Lacks(F, K) => Lacks(wR \o F, K)
                    /\ Behind(wR, k, K) /\ Lacks(F, K) => Behind(wR \o F, k, K)
      BY <1>0, WriteKeeps
    <3>2. \A i \in 1..Len(wR \o F) : (wR \o F)[i].kind \in {"info", "chunk"} =>
            \E j \in 1..Len(wR) : (wR \o F)[i] = wR[j]
      <4>1. \A i \in 1..Len(wR \o F) :
              \/ \E j \in 1..Len(wR) : (wR \o F)[i] = wR[j]
              \/ \E j \in 1..Len(F) : (wR \o F)[i] = F[j]
        BY <1>0, Elements
      <4> QED  BY <4>1 DEF Lacks
    <3> QED  BY <2>2, <3>1, <3>2
  <2> QED  BY <1>1, <2>1, <2>2
<1>3. /\ Writing' = Writing
  BY DEF Writing
<1>4. Lacks(wS', {"ZRPOS"}) /\ Behind(wS', "ZRPOS", {"ZRPOS"})
  BY <1>1, EmptyLine
<1>5. OneOffer'
  <2>1. Lacks(wR', {"info"}) \/ ~Writing'
    BY <1>2, <1>3 DEF Conversation, OneOffer
  <2>2. \A i \in 1..Len(wR') : wR'[i].kind = "info" => wR'[i].file \notin reported
    BY <1>2 DEF Conversation, OneOffer
  <2> QED  BY <1>2, <1>4, <2>1, <2>2 DEF Conversation, OneOffer
<1>6. OneAnswer'
  BY <1>4 DEF OneAnswer
<1>7. StreamAnswered'
  BY DEF StreamAnswered
<1>8. WritesOffered'
  <2>1. ASSUME Writing
        PROVE  \A i \in 1..Len(wR') : wR'[i].kind = "chunk" => wR'[i].unit \in Own(rcv.file)
    BY <1>2, <2>1 DEF Conversation, WritesOffered
  <2> QED  BY <1>3, <2>1 DEF Conversation, WritesOffered
<1> QED  BY <1>5, <1>6, <1>7, <1>8 DEF Conversation, OwnUnits

\* The sender between two files, or one that ignores what it reads.
LEMMA QuietSender ==
  ASSUME wire \in Lines, Conversation, NEW n \in {0, 1}, NEW F \in Seq(Frames),
         Pass("S", n, F) \/ wire' = wire, n = 1 => wire["S"] # <<>>,
         Lacks(F, {"info"}), Lacks(F, {"info", "chunk"}),
         \/ snd' = snd
         \/ {snd.pc, snd'.pc} \cap {"rpos", "stream", "eof", "ended"} = {},
         rcv' = rcv, reported' = reported, counted' = counted, disk' = disk
  PROVE  Conversation'
<1> DEFINE wR == wire["R"]
           wS == wire["S"]
<1>1. /\ Behind(wR, "info", {"info", "chunk"}) => Behind(wR', "info", {"info", "chunk"})
      /\ Lacks(wR, {"info"}) => Lacks(wR', {"info"})
      /\ \A i \in 1..Len(wR') : wR'[i].kind \in {"info", "chunk"} =>
            \E j \in 1..Len(wR) : wR'[i] = wR[j]
      /\ Lacks(wS, {"ZRPOS"}) => Lacks(wS', {"ZRPOS"})
      /\ Behind(wS, "ZRPOS", {"ZRPOS"}) => Behind(wS', "ZRPOS", {"ZRPOS"})
      /\ Lacks(wS, {"ZRINIT"}) => Lacks(wS', {"ZRINIT"})
      /\ Behind(wS, "ZRPOS", {"ZRINIT"}) => Behind(wS', "ZRPOS", {"ZRINIT"})
  <2>1. CASE Pass("S", n, F)
    <3>1. \A i \in 1..Len(wR') : (\E j \in 1..Len(wR) : wR'[i] = wR[j])
                                    \/ (\E j \in 1..Len(F) : wR'[i] = F[j])
      BY <2>1, SenderLine
    <3>2. \A i \in 1..Len(wR') : wR'[i].kind \in {"info", "chunk"} =>
            \E j \in 1..Len(wR) : wR'[i] = wR[j]
      BY <3>1 DEF Lacks
    <3> QED  BY <2>1, <3>2, SenderLine
  <2>2. CASE wire' = wire
    BY <2>2
  <2> QED  BY <2>1, <2>2
<1>2. Writing' = Writing
  BY DEF Writing
<1>3. CASE snd' = snd
  <2>1. /\ Answered' = Answered /\ Offered' = Offered /\ Offering' = Offering
    BY <1>3 DEF Answered, Offered, Offering
  <2>2. OneOffer'
    BY <1>1, <1>2, <1>3, <2>1 DEF Conversation, OneOffer
  <2>3. OneAnswer'
    BY <1>1, <1>2, <1>3, <2>1 DEF Conversation, OneAnswer
  <2>4. StreamAnswered'
    BY <1>1, <1>2, <1>3, <2>1 DEF Conversation, StreamAnswered
  <2>5. WritesOffered'
    BY <1>1, <1>2, <1>3, <2>1 DEF Conversation, WritesOffered
  <2> QED  BY <2>2, <2>3, <2>4, <2>5 DEF Conversation, OwnUnits
<1>4. CASE {snd.pc, snd'.pc} \cap {"rpos", "stream", "eof", "ended"} = {}
  <2>1. /\ Lacks(wR, {"info"}) /\ Lacks(wS, {"ZRPOS"}) /\ ~Writing
    BY <1>4 DEF Conversation, OneOffer, OneAnswer, WritesOffered, Offering
  <2>2. OneOffer'
    BY <1>1, <2>1 DEF Conversation, OneOffer, Lacks
  <2>3. OneAnswer'
    BY <1>1, <2>1 DEF Conversation, OneAnswer
  <2>4. StreamAnswered'
    BY <1>4 DEF StreamAnswered
  <2>5. WritesOffered'
    BY <1>2, <2>1 DEF WritesOffered
  <2> QED  BY <2>2, <2>3, <2>4, <2>5 DEF Conversation, OwnUnits
<1> QED  BY <1>3, <1>4

LEMMA OfferConversation ==
  ASSUME TypeOK, Conversation, Offer, SenderOnly PROVE Conversation'
<1> DEFINE wR == wire["R"]
           wS == wire["S"]
           q == Head(snd.queue)
           F == <<FileHeader(snd.over), Info(q)>>
<1>1. /\ wire \in Lines /\ snd \in Senders /\ snd.pc = "next" /\ snd.queue # <<>>
      /\ snd' = [snd EXCEPT !.pc = "rpos"] /\ Pass("S", 0, F) /\ reported' = reported \ {q}
      /\ rcv' = rcv /\ disk' = disk /\ counted' = counted
  BY DEF TypeOK, Lines, Offer, SenderOnly
<1>2. /\ snd'.pc = "rpos" /\ snd'.queue = snd.queue /\ q \in Files /\ snd.over \in BOOLEAN
      /\ Offered' = q
  BY <1>1 DEF Senders, Offered
<1>3. F \in Seq(Frames)
  BY <1>2, Writes
<1>4. /\ Len(F) = 2 /\ F[1].kind = "ZFILE" /\ F[2].kind = "info" /\ F[2].file = q
  BY DEF FileHeader, Info
<1> HIDE DEF q, F
<1>5. Behind(F, "info", {"info", "chunk"}) /\ 0 \in {0, 1}
  BY <1>4 DEF Behind
<1>6. /\ Lacks(wR, {"info"}) /\ Lacks(wS, {"ZRPOS"}) /\ ~Writing /\ ~Writing'
  BY <1>1 DEF Conversation, OneOffer, OneAnswer, WritesOffered, Offering, Writing
<1>7. /\ Lacks(wS', {"ZRPOS"}) /\ Behind(wS', "ZRPOS", {"ZRPOS"})
      /\ Behind(wR', "info", {"info", "chunk"})
  <2>1. 0 = 1 => wS # <<>>
    OBVIOUS
  <2>2. Behind(wS, "ZRPOS", {"ZRPOS"})
    BY DEF Conversation, OneAnswer
  <2> QED  BY <1>1, <1>3, <1>5, <1>6, <2>1, <2>2, SenderLine
<1>8. \A i \in 1..Len(wR') : wR'[i].kind = "info" => wR'[i].file = q
  <2>1. \A i \in 1..Len(wR') : (\E j \in 1..Len(wR) : wR'[i] = wR[j])
                                    \/ (\E j \in 1..Len(F) : wR'[i] = F[j])
    <3>1. 0 = 1 => wS # <<>>
      OBVIOUS
    <3> QED  BY <1>1, <1>3, <1>5, <3>1, SenderLine
  <2> QED  BY <1>4, <1>6, <2>1 DEF Lacks
<1>9. OneOffer'
  BY <1>1, <1>2, <1>6, <1>7, <1>8 DEF OneOffer
<1>10. OneAnswer'
  BY <1>2, <1>7 DEF OneAnswer
<1>11. StreamAnswered'
  BY <1>2 DEF StreamAnswered
<1>12. WritesOffered'
  BY <1>6 DEF WritesOffered
<1> QED  BY <1>1, <1>9, <1>10, <1>11, <1>12 DEF Conversation, OwnUnits

LEMMA PositionedConversation ==
  ASSUME TypeOK, Conversation, Positioned, SenderOnly PROVE Conversation'
<1> DEFINE wR == wire["R"]
           wS == wire["S"]
           n == Head(wS).pos
           F == <<Position("ZDATA", n)>>
<1>1. /\ wire \in Lines /\ snd \in Senders /\ snd.pc = "rpos" /\ Coming("S") = "ZRPOS"
      /\ snd' = [snd EXCEPT !.pc = "stream", !.pos = n] /\ Pass("S", 1, F)
      /\ reported' = reported /\ rcv' = rcv /\ disk' = disk /\ counted' = counted
  BY DEF TypeOK, Lines, Positioned, SReads, SenderOnly
<1>2. /\ snd'.pc = "stream" /\ snd'.queue = snd.queue
      /\ Offered' = Offered /\ Answered' = Answered /\ Writing' = Writing
  BY <1>1 DEF Senders, Offered, Answered, Writing
<1>3. wS \in Seq(Frames) /\ wS # <<>> /\ wS[1].kind = "ZRPOS" /\ n \in Nat /\ 1 \in {0, 1}
      /\ Len(wS) \in Nat \ {0}
  BY <1>1, HeadTypes, FrameFields DEF Sides
<1>4. F \in Seq(Frames) /\ Len(F) = 1 /\ F[1].kind = "ZDATA"
  BY <1>3, Writes DEF Position
<1> HIDE DEF n, F
<1>5. Lacks(F, {"info"}) /\ Lacks(F, {"info", "chunk"})
  BY <1>4 DEF Lacks
<1>6. ~Lacks(wS, {"ZRPOS"})
  BY <1>3 DEF Lacks
<1>7. Lacks(wR, {"info"})
  BY <1>6 DEF Conversation, OneOffer
<1>8. /\ Behind(wS, "ZRPOS", {"ZRPOS"})
      /\ Answered \/ ((Writing \/ rcv.pc = "ended") /\ Behind(wS, "ZRPOS", {"ZRINIT"}))
  BY <1>6 DEF Conversation, OneAnswer
<1>9. /\ Lacks(wS', {"ZRPOS"})
      /\ Behind(wS, "ZRPOS", {"ZRINIT"}) => Lacks(wS', {"ZRINIT"})
  <2>1. "S" \in Sides
    BY DEF Sides
  <2>2. \A K : Behind(wS, "ZRPOS", K) => Lacks(wS', K)
    <3> TAKE K
    <3> QED  BY <1>1, <1>3, <1>4, <2>1, LineKeeps
  <2> QED  BY <1>8, <2>2
<1>10. /\ Lacks(wR', {"info"}) /\ Behind(wR', "info", {"info", "chunk"})
       /\ \A i \in 1..Len(wR') : wR'[i].kind = "chunk" => \E j \in 1..Len(wR) : wR'[i] = wR[j]
  <2>1. \A i \in 1..Len(wR') : (\E j \in 1..Len(wR) : wR'[i] = wR[j])
                                    \/ (\E j \in 1..Len(F) : wR'[i] = F[j])
    BY <1>1, <1>3, <1>4, SenderLine
  <2>2. Lacks(wR', {"info"})
    BY <1>1, <1>3, <1>4, <1>5, <1>7, SenderLine
  <2>3. Behind(wR', "info", {"info", "chunk"})
    BY <2>2 DEF Lacks, Behind
  <2> QED  BY <1>4, <2>1, <2>2, <2>3
<1>11. OneOffer'
  BY <1>10 DEF OneOffer, Lacks
<1>12. OneAnswer'
  BY <1>9 DEF OneAnswer, Lacks, Behind
<1>13. StreamAnswered'
  BY <1>1, <1>2, <1>8, <1>9 DEF StreamAnswered
<1>14. WritesOffered'
  BY <1>1, <1>2, <1>10 DEF Conversation, WritesOffered, Offering
<1> QED  BY <1>1, <1>11, <1>12, <1>13, <1>14 DEF Conversation, OwnUnits

LEMMA StreamConversation ==
  ASSUME TypeOK, Conversation, Stream, SenderOnly PROVE Conversation'
<1> DEFINE wR == wire["R"]
           wS == wire["S"]
           q == Head(snd.queue)
           F == Streamed(q, snd.pos)
<1>1. /\ wire \in Lines /\ snd \in Senders /\ snd.pc = "stream" /\ snd.queue # <<>>
      /\ snd' = IF snd.pos < Len(Content[q]) THEN [snd EXCEPT !.pos = @ + 1]
                                             ELSE [snd EXCEPT !.pc = "eof"]
      /\ Pass("S", 0, F) /\ reported' = reported
      /\ rcv' = rcv /\ disk' = disk /\ counted' = counted
  BY DEF TypeOK, Lines, Stream, SenderOnly
<1>2. /\ snd'.pc \in {"stream", "eof"} /\ snd'.queue = snd.queue /\ q \in Files
      /\ Offered' = Offered /\ Answered' = Answered /\ Writing' = Writing /\ q = Offered
      /\ snd.pos \in Nat
  BY <1>1 DEF Senders, Offered, Answered, Writing
<1>3. F \in Seq(Frames) /\ 0 \in {0, 1}
  BY <1>2, StreamedTypes
<1>4. \A j \in 1..Len(F) : /\ F[j].kind \in {"chunk", "end", "ZEOF"}
                           /\ F[j].kind = "chunk" => F[j].unit \in Own(q)
  <2>1. Content[q] \in Seq(Unit) /\ Len(Content[q]) \in Nat
    BY <1>2, ZFilesAssumption
  <2>2. CASE snd.pos < Len(Content[q])
    <3>1. snd.pos + 1 \in 1..Len(Content[q])
      BY <1>2, <2>1, <2>2
    <3>2. Content[q][snd.pos + 1] \in Own(q)
      BY <3>1 DEF Own, Units
    <3>3. F = <<Chunk(Content[q][snd.pos + 1])>>
      BY <2>2 DEF Streamed
    <3> QED  BY <3>2, <3>3 DEF Chunk
  <2>3. CASE ~(snd.pos < Len(Content[q]))
    <3>1. F = <<Frame("end"), Frame("ZEOF")>>
      BY <2>3 DEF Streamed
    <3> QED  BY <3>1 DEF Frame
  <2> QED  BY <2>2, <2>3
<1> HIDE DEF q, F
<1>5. Lacks(F, {"info"})
  BY <1>4 DEF Lacks
<1>7. Lacks(wR, {"info"}) /\ Lacks(wS, {"ZRPOS"})
  BY <1>1 DEF Conversation, OneOffer, OneAnswer
<1>8. (Answered \/ ((Writing \/ rcv.pc = "ended") /\ Lacks(wS, {"ZRINIT"})))
  BY <1>1 DEF Conversation, StreamAnswered
<1>0. 0 = 1 => wS # <<>>
  OBVIOUS
<1>9. /\ Lacks(wS', {"ZRPOS"})
      /\ Lacks(wS, {"ZRINIT"}) => Lacks(wS', {"ZRINIT"})
  BY <1>0, <1>1, <1>3, <1>7, SenderLine
<1>10. /\ Lacks(wR', {"info"})
       /\ \A i \in 1..Len(wR') : (\E j \in 1..Len(wR) : wR'[i] = wR[j])
                                    \/ (\E j \in 1..Len(F) : wR'[i] = F[j])
  BY <1>0, <1>1, <1>3, <1>5, <1>7, SenderLine
<1>11. OneOffer'
  BY <1>10 DEF OneOffer, Lacks, Behind
<1>12. OneAnswer'
  BY <1>9 DEF OneAnswer, Lacks, Behind
<1>13. StreamAnswered'
  BY <1>1, <1>2, <1>8, <1>9 DEF StreamAnswered
<1>14. WritesOffered'
  <2> SUFFICES ASSUME Writing' PROVE
         /\ rcv'.file \notin counted'
         /\ (Offering' /\ Offered' = rcv'.file)
         /\ \A i \in 1..Len(wR') : wR'[i].kind = "chunk" => wR'[i].unit \in Own(rcv'.file)
    BY DEF WritesOffered
  <2>1. /\ rcv.file \notin counted /\ Offered = rcv.file
        /\ \A i \in 1..Len(wR) : wR[i].kind = "chunk" => wR[i].unit \in Own(rcv.file)
    BY <1>1, <1>2 DEF Conversation, WritesOffered
  <2>2. \A i \in 1..Len(wR') : wR'[i].kind = "chunk" => wR'[i].unit \in Own(rcv.file)
    BY <1>2, <1>4, <1>10, <2>1
  <2> QED  BY <1>1, <1>2, <2>1, <2>2 DEF Offering
<1> QED  BY <1>1, <1>11, <1>12, <1>13, <1>14 DEF Conversation, OwnUnits

LEMMA CompletedConversation ==
  ASSUME TypeOK, Conversation, Completed, SenderOnly PROVE Conversation'
<1> DEFINE wR == wire["R"]
           wS == wire["S"]
<1>1. /\ wire \in Lines /\ snd \in Senders /\ snd.pc = "eof" /\ Coming("S") = "ZRINIT"
      /\ snd' = [snd EXCEPT !.pc = "next", !.queue = Tail(@)] /\ Pass("S", 1, <<>>)
      /\ reported' = reported \cup {Offered}
      /\ rcv' = rcv /\ disk' = disk /\ counted' = counted
  BY DEF TypeOK, Lines, Completed, SReads, SenderOnly, Offered
<1>2. snd'.pc = "next"
  BY <1>1 DEF Senders
<1>3. wS \in Seq(Frames) /\ wS # <<>> /\ wS[1].kind = "ZRINIT" /\ 1 \in {0, 1}
      /\ Len(wS) \in Nat \ {0}
  BY <1>1, HeadTypes DEF Sides
<1>4. ~Lacks(wS, {"ZRINIT"})
  BY <1>3 DEF Lacks
<1>5. Offered \in counted
  BY <1>1, <1>4 DEF Conversation, StreamAnswered, Answered
<1>6. ~Writing /\ ~Writing'
  BY <1>1, <1>5 DEF Conversation, WritesOffered, Writing
<1>7. Lacks(wR, {"info"}) /\ Lacks(wS, {"ZRPOS"})
  BY <1>1 DEF Conversation, OneOffer, OneAnswer
<1>8. Lacks(wR', {"info"}) /\ Lacks(wS', {"ZRPOS"})
  <2>1. <<>> \in Seq(Frames) /\ Lacks(<<>>, {"info"})
    BY EmptyLine
  <2> QED  BY <1>1, <1>3, <1>7, <2>1, SenderLine
<1>9. OneOffer'
  BY <1>8 DEF OneOffer, Lacks, Behind
<1>10. OneAnswer'
  BY <1>8 DEF OneAnswer, Lacks, Behind
<1>11. StreamAnswered'
  BY <1>2 DEF StreamAnswered
<1>12. WritesOffered'
  BY <1>6 DEF WritesOffered
<1>13. reported' \subseteq counted'
  BY <1>1, <1>5 DEF Conversation
<1> QED  BY <1>1, <1>9, <1>10, <1>11, <1>12, <1>13 DEF Conversation, OwnUnits

\* Data that is appended, filled up or cut remains the file's own.
LEMMA OwnAppend ==
  ASSUME NEW f \in Files, NEW c \in Seq(Unit), Units(c) \subseteq Own(f), NEW u \in Own(f)
  PROVE  Units(Append(c, u)) \subseteq Own(f)
<1>1. /\ Len(Append(c, u)) = Len(c) + 1 /\ Len(c) \in Nat
      /\ \A i \in 1..Len(c) : Append(c, u)[i] = c[i]
      /\ Append(c, u)[Len(c) + 1] = u
  OBVIOUS
<1>2. \A i \in 1..Len(c) + 1 : i \in 1..Len(c) \/ i = Len(c) + 1
  BY <1>1
<1> QED  BY <1>1, <1>2 DEF Units

LEMMA OwnSized ==
  ASSUME NEW f \in Files, NEW c \in Seq(Unit), Units(c) \subseteq Own(f), NEW n \in Nat
  PROVE  Units(Sized(c, n)) \subseteq Own(f)
<1>1. Len(c) \in Nat /\ Zero \in Own(f)
  BY DEF Own
<1>2. Len(Sized(c, n)) = n /\ \A i \in 1..n : Sized(c, n)[i] = IF i <= Len(c) THEN c[i] ELSE Zero
  BY SizedTypes
<1>3. \A i \in 1..n : i <= Len(c) => i \in 1..Len(c)
  BY <1>1
<1> QED  BY <1>1, <1>2, <1>3 DEF Units

LEMMA OpenConversation ==
  ASSUME TypeOK, Conversation, OpenFile, ReceiverOnly PROVE Conversation'
<1> DEFINE wR == wire["R"]
           wS == wire["S"]
           f == Head(wR).file
           F == <<Position("ZRPOS", Len(Kept(f)))>>
<1>1. /\ wire \in Lines /\ rcv \in Receivers /\ rcv.pc = "info" /\ Coming("R") = "info"
      /\ rcv' = [rcv EXCEPT !.pc = "file", !.file = f] /\ Pass("R", 1, F)
      /\ disk' = [disk EXCEPT ![f] = Kept(f)] /\ counted' = counted \ {f}
      /\ reported' = reported /\ snd' = snd /\ disk \in [Files -> Seq(Unit) \cup {Absent}]
  BY DEF TypeOK, Lines, OpenFile, Subpacket, ReceiverOnly
<1>2. wR \in Seq(Frames) /\ wR # <<>> /\ wR[1].kind = "info" /\ f \in Files /\ 1 \in {0, 1}
      /\ Len(wR) \in Nat \ {0} /\ f = wR[1].file
  BY <1>1, HeadTypes, FrameFields DEF Sides
<1>3. rcv'.pc = "file" /\ rcv'.file = f /\ Writing' /\ Offered' = Offered /\ Offering' = Offering
  BY <1>1 DEF Receivers, Writing, Offered, Offering
<1>4. Kept(f) \in Seq(Unit) /\ Len(Kept(f)) \in Nat /\ Kept(f) # Absent
  BY <1>1, <1>2, KeptTypes, ZFilesAssumption
<1>5. OwnUnits'
  <2>1. Units(Kept(f)) \subseteq Own(f)
    <3>1. CASE Kept(f) = <<>>
      BY <3>1 DEF Units
    <3>2. CASE disk[f] # Absent /\ Kept(f) = disk[f]
      BY <1>2, <3>2 DEF Conversation, OwnUnits
    <3> QED  BY <3>1, <3>2 DEF Kept
  <2> HIDE DEF f
  <2> QED  BY <1>1, <1>2, <2>1 DEF Conversation, OwnUnits
<1>6. F \in Seq(Frames) /\ Len(F) = 1 /\ F[1].kind = "ZRPOS"
  BY <1>4, Writes DEF Position
<1> HIDE DEF f, F
<1>7. Lacks(F, {"ZRINIT"}) /\ Behind(F, "ZRPOS", {"ZRPOS"}) /\ Behind(F, "ZRPOS", {"ZRINIT"})
  BY <1>6 DEF Lacks, Behind
<1>8. ~Lacks(wR, {"info"})
  BY <1>2 DEF Lacks
<1>9. /\ snd.pc \in {"rpos", "ended"} /\ Lacks(wS, {"ZRPOS"})
      /\ Behind(wR, "info", {"info", "chunk"})
      /\ f \notin reported /\ (snd.pc = "rpos" => f = Offered)
  BY <1>2, <1>8 DEF Conversation, OneOffer
<1>10. /\ Lacks(wR', {"info", "chunk"})
       /\ Behind(wS', "ZRPOS", {"ZRPOS"}) /\ Behind(wS', "ZRPOS", {"ZRINIT"})
  <2>1. "R" \in Sides /\ Peer("R") = "S"
    BY DEF Sides, Peer
  <2>2. \A k, K :
          /\ Behind(wR, k, K) /\ wR[1].kind = k => Lacks(wR', K)
          /\ Lacks(wS, {k}) /\ Behind(F, k, K) => Behind(wS', k, K)
    <3> TAKE k, K
    <3> QED  BY <1>1, <1>2, <1>6, <2>1, LineKeeps
  <2> QED  BY <1>2, <1>7, <1>9, <2>2
<1>11. OneOffer'
  BY <1>10 DEF OneOffer, Lacks, Behind
<1>12. OneAnswer'
  <2>1. CASE snd.pc = "rpos"
    BY <1>1, <1>3, <1>10, <2>1 DEF OneAnswer
  <2>2. CASE snd.pc = "ended"
    <3>1. wS' = <<>>
      <4>1. Stopped("S") /\ "R" \in Sides /\ Peer("R") = "S"
        BY <2>2 DEF Stopped, Sides, Peer
      <4> QED  BY <1>1, <1>2, <1>6, <4>1, PassEffect
    <3> QED  BY <3>1, EmptyLine DEF OneAnswer
  <2> QED  BY <1>9, <2>1, <2>2
<1>13. StreamAnswered'
  BY <1>1, <1>9 DEF StreamAnswered
<1>14. WritesOffered'
  <2>1. \A i \in 1..Len(wR') : wR'[i].kind # "chunk"
    BY <1>10 DEF Lacks
  <2>2. (Offering /\ Offered = f) \/ snd.pc = "ended"
    BY <1>9 DEF Offering
  <2> QED  BY <1>1, <1>3, <2>1, <2>2 DEF WritesOffered
<1>15. reported' \subseteq counted'
  BY <1>1, <1>9 DEF Conversation
<1> QED  BY <1>5, <1>11, <1>12, <1>13, <1>14, <1>15 DEF Conversation

LEMMA CloseConversation ==
  ASSUME TypeOK, Conversation, CloseFile, ReceiverOnly PROVE Conversation'
<1> DEFINE wR == wire["R"]
           wS == wire["S"]
           f == rcv.file
           F == <<Frame("ZRINIT")>>
<1>1. /\ wire \in Lines /\ rcv \in Receivers /\ rcv.pc = "file"
      /\ disk' = [disk EXCEPT ![f] = Sized(@, Len(Content[f]))]
      /\ counted' = counted \cup {f}
      /\ rcv' = [rcv EXCEPT !.pc = "loop", !.file = None]
      /\ reported' = reported /\ snd' = snd /\ disk \in [Files -> Seq(Unit) \cup {Absent}]
      /\ f # None /\ disk[f] # Absent
  BY DEF TypeOK, Lines, CloseFile, RReads, ReceiverOnly
<1>2. f \in Files /\ disk[f] \in Seq(Unit) /\ Len(Content[f]) \in Nat
  BY <1>1, ZFilesAssumption DEF Receivers
<1>3. PICK n \in {0, 1} : Pass("R", n, F) /\ (n = 1 => wR # <<>>)
  BY DEF CloseFile, RReads, Coming
<1>4. F \in Seq(Frames) /\ Len(F) = 1 /\ F[1].kind = "ZRINIT"
  BY Writes DEF Plain, Frame
<1> HIDE DEF f, F
<1>5. Lacks(F, {"ZRPOS"})
  BY <1>4 DEF Lacks
<1>6. /\ Behind(wR, "info", {"info", "chunk"}) => Behind(wR', "info", {"info", "chunk"})
      /\ Lacks(wR, {"info"}) => Lacks(wR', {"info"})
      /\ Lacks(wS, {"ZRPOS"}) => Lacks(wS', {"ZRPOS"})
      /\ Behind(wS, "ZRPOS", {"ZRPOS"}) => Behind(wS', "ZRPOS", {"ZRPOS"})
  BY <1>1, <1>3, <1>4, <1>5, ReceiverLine
<1>7. /\ Writing /\ ~Writing' /\ Offered' = Offered
  BY <1>1 DEF Writing, Receivers, Offered
<1>8. Lacks(wR, {"info"})
  BY <1>7 DEF Conversation, OneOffer
<1>9. snd.pc \in {"rpos", "stream", "eof"} => Answered'
  <2>1. snd.pc \in {"rpos", "stream", "eof"} => Offered = f
    BY <1>7 DEF Conversation, WritesOffered, Offering, f
  <2> QED  BY <1>1, <1>7, <2>1 DEF Answered
<1>10. OneOffer'
  BY <1>6, <1>8 DEF OneOffer, Lacks, Behind
<1>11. OneAnswer'
  BY <1>1, <1>6, <1>9 DEF Conversation, OneAnswer
<1>12. StreamAnswered'
  BY <1>1, <1>9 DEF StreamAnswered
<1>13. WritesOffered'
  BY <1>7 DEF WritesOffered
<1>14. OwnUnits'
  <2>1. Units(Sized(disk[f], Len(Content[f]))) \subseteq Own(f)
    BY <1>1, <1>2, OwnSized DEF Conversation, OwnUnits
  <2> QED  BY <1>1, <1>2, <2>1 DEF Conversation, OwnUnits
<1>15. reported' \subseteq counted'
  BY <1>1 DEF Conversation
<1> QED  BY <1>10, <1>11, <1>12, <1>13, <1>14, <1>15 DEF Conversation

\* A program that is started has heard nothing yet.
LEMMA LaunchConversation ==
  ASSUME TypeOK, Drained, Started, Alone, Conversation, NEW p \in Sides, Launch(p), launches' <= 2
  PROVE  Conversation'
<1>1. /\ wire \in Lines /\ launches \in Nat /\ launches' = launches + 1 /\ Stopped(p)
      /\ disk' = disk /\ counted' = counted /\ reported' = reported
      /\ Sides = {"S", "R"} /\ Peer("S") = "R" /\ Peer("R") = "S" /\ 0 \in {0, 1}
  BY ZBoundsAssumption DEF TypeOK, Lines, Launch, Sides, Peer
<1>2. wire[p] = <<>>
  BY <1>1 DEF Drained
<1>3. Fresh("S") \/ Fresh("R")
  BY <1>1 DEF Started
<1>4. counted = {} /\ reported = {}
  BY <1>3 DEF Alone
<1>5. <<Frame("ZRQINIT")>> \in Seq(Frames) /\ <<Frame("ZRINIT")>> \in Seq(Frames)
  BY Writes DEF Plain
<1>6. \A x \in {"ZRQINIT", "ZRINIT"} : /\ Lacks(<<Frame(x)>>, {"info"})
                                       /\ Lacks(<<Frame(x)>>, {"info", "chunk"})
                                       /\ Lacks(<<Frame(x)>>, {"ZRPOS"})
  BY DEF Lacks, Frame
<1>7. CASE p = "S"
  <2>1. /\ snd'.pc = "rinit" /\ rcv' = rcv /\ Pass("S", 0, <<Frame("ZRQINIT")>>)
    BY <1>7 DEF Launch
  <2>2. Lacks(wire["R"], {"info"}) /\ ~Writing
    <3>1. CASE Fresh("S")
      <4>1. wire["R"] = <<>> /\ rcv.pc \in {"hello", "loop", "ended"}
        BY <3>1 DEF Alone
      <4> QED  BY <4>1, EmptyLine DEF Writing
    <3>2. CASE Fresh("R")
      <4>1. rcv.pc = "ended" /\ Stopped("R")
        BY <3>2 DEF Fresh, StoppedReceiver, Stopped
      <4>2. wire["R"] = <<>>
        BY <1>1, <4>1 DEF Drained
      <4> QED  BY <4>1, <4>2, EmptyLine DEF Writing
    <3> QED  BY <1>3, <3>1, <3>2
  <2>3. Lacks(wire["S"], {"ZRPOS"}) /\ (0 = 1 => wire["S"] # <<>>)
    BY <1>2, <1>7, EmptyLine
  <2>4. Lacks(wire'["S"], {"ZRPOS"}) /\ Lacks(wire'["R"], {"info"})
    BY <1>1, <1>5, <1>6, <2>1, <2>2, <2>3, SenderLine
  <2>5. OneOffer' /\ OneAnswer'
    BY <2>4 DEF OneOffer, OneAnswer, Lacks, Behind
  <2>6. StreamAnswered' /\ WritesOffered'
    BY <2>1, <2>2 DEF StreamAnswered, WritesOffered, Writing
  <2> QED  BY <1>1, <1>4, <2>5, <2>6 DEF Conversation, OwnUnits
<1>8. CASE p = "R"
  <2>1. /\ rcv'.pc = "hello" /\ snd' = snd /\ Pass("R", 0, <<Frame("ZRINIT")>>)
    BY <1>8 DEF Launch, StoppedReceiver
  <2>2. Lacks(wire["S"], {"ZRPOS"}) /\ snd.pc \in {"rinit", "ended"}
    <3>1. CASE Fresh("R")
      <4>1. wire["S"] = <<>> /\ snd.pc \in {"rinit", "ended"}
        BY <3>1 DEF Alone
      <4> QED  BY <4>1, EmptyLine
    <3>2. CASE Fresh("S")
      <4>1. snd.pc = "ended" /\ Stopped("S")
        BY <3>2 DEF Fresh, StoppedSender, Stopped
      <4>2. wire["S"] = <<>>
        BY <1>1, <4>1 DEF Drained
      <4> QED  BY <4>1, <4>2, EmptyLine
    <3> QED  BY <1>3, <3>1, <3>2
  <2>3. Lacks(wire["R"], {"info"}) /\ (0 = 1 => wire["R"] # <<>>)
    BY <1>2, <1>8, EmptyLine
  <2>4. Lacks(wire'["S"], {"ZRPOS"}) /\ Lacks(wire'["R"], {"info"})
    BY <1>1, <1>5, <1>6, <2>1, <2>2, <2>3, ReceiverLine
  <2>5. OneOffer' /\ OneAnswer'
    BY <2>4 DEF OneOffer, OneAnswer, Lacks, Behind
  <2>6. StreamAnswered' /\ WritesOffered'
    BY <2>1, <2>2 DEF StreamAnswered, WritesOffered, Writing
  <2> QED  BY <1>1, <1>4, <2>5, <2>6 DEF Conversation, OwnUnits
<1> QED  BY <1>1, <1>7, <1>8

\* A damaged frame is none of those that the conversation speaks about.
LEMMA SpoilConversation ==
  ASSUME TypeOK, Conversation, NEW p \in Sides, Spoil(p) PROVE Conversation'
<1>1. /\ wire \in Lines /\ snd' = snd /\ rcv' = rcv /\ disk' = disk
      /\ counted' = counted /\ reported' = reported /\ "S" \in Sides /\ "R" \in Sides
  BY DEF TypeOK, Lines, Spoil, Sides
<1>2. /\ Writing' = Writing /\ Answered' = Answered /\ Offered' = Offered /\ Offering' = Offering
  BY <1>1 DEF Writing, Answered, Offered, Offering
<1>3. \A q \in Sides : /\ Len(wire'[q]) = Len(wire[q])
                       /\ \A i \in 1..Len(wire[q]) :
                             wire'[q][i] = wire[q][i] \/ wire'[q][i].kind \in Spoiled
  <2> TAKE q \in Sides
  <2>1. CASE q = p
    <3>1. /\ Len(wire'[p]) = Len(wire[p]) /\ wire'[p][1].kind \in Spoiled
          /\ \A i \in 2..Len(wire[p]) : wire'[p][i] = wire[p][i]
      BY <1>1, SpoilEffect
    <3>2. Len(wire[p]) \in Nat
      BY <1>1 DEF Lines
    <3>3. \A i \in 1..Len(wire[p]) : i = 1 \/ i \in 2..Len(wire[p])
      BY <3>2
    <3> QED  BY <2>1, <3>1, <3>3
  <2>2. CASE q # p
    BY <1>1, <2>2, SpoilEffect
  <2> QED  BY <2>1, <2>2
<1>4. Spoiled \cap {"info", "chunk", "ZRPOS", "ZRINIT"} = {}
  BY DEF Spoiled
<1>5. /\ Behind(wire["R"], "info", {"info", "chunk"})
           => Behind(wire'["R"], "info", {"info", "chunk"})
      /\ Lacks(wire["R"], {"info"}) => Lacks(wire'["R"], {"info"})
      /\ \A i \in 1..Len(wire'["R"]) : wire'["R"][i].kind \in {"info", "chunk"} =>
            wire'["R"][i] = wire["R"][i]
  <2>1. /\ Len(wire'["R"]) = Len(wire["R"])
        /\ \A i \in 1..Len(wire["R"]) :
             wire'["R"][i] = wire["R"][i] \/ wire'["R"][i].kind \notin {"info", "chunk"}
    BY <1>1, <1>3, <1>4
  <2> QED  BY <2>1 DEF Behind, Lacks
<1>6. /\ Behind(wire["S"], "ZRPOS", {"ZRPOS"}) => Behind(wire'["S"], "ZRPOS", {"ZRPOS"})
      /\ Behind(wire["S"], "ZRPOS", {"ZRINIT"}) => Behind(wire'["S"], "ZRPOS", {"ZRINIT"})
      /\ Lacks(wire["S"], {"ZRPOS"}) => Lacks(wire'["S"], {"ZRPOS"})
      /\ Lacks(wire["S"], {"ZRINIT"}) => Lacks(wire'["S"], {"ZRINIT"})
  <2>1. /\ Len(wire'["S"]) = Len(wire["S"])
        /\ \A i \in 1..Len(wire["S"]) :
             wire'["S"][i] = wire["S"][i] \/ wire'["S"][i].kind \notin {"ZRPOS", "ZRINIT"}
    BY <1>1, <1>3, <1>4
  <2> QED  BY <2>1 DEF Behind, Lacks
<1>7. Len(wire'["R"]) = Len(wire["R"])
  BY <1>1, <1>3
<1>8. OneOffer'
  BY <1>1, <1>2, <1>5, <1>6, <1>7 DEF Conversation, OneOffer
<1>9. OneAnswer'
  BY <1>1, <1>2, <1>6 DEF Conversation, OneAnswer
<1>10. StreamAnswered'
  BY <1>1, <1>2, <1>6 DEF Conversation, StreamAnswered
<1>11. WritesOffered'
  BY <1>1, <1>2, <1>5, <1>7 DEF Conversation, WritesOffered
<1> QED  BY <1>1, <1>8, <1>9, <1>10, <1>11 DEF Conversation, OwnUnits

LEMMA SenderConversation ==
  ASSUME TypeOK, Conversation, SenderStep PROVE Conversation'
<1>1. /\ wire \in Lines /\ snd \in Senders /\ 0 \in {0, 1} /\ 1 \in {0, 1}
      /\ rcv' = rcv /\ disk' = disk /\ counted' = counted /\ SenderOnly
  BY DEF TypeOK, Lines, SenderStep, SenderOnly
<1>2. /\ <<>> \in Seq(Frames) /\ Lacks(<<>>, {"info"}) /\ Lacks(<<>>, {"info", "chunk"})
      /\ \A k \in {"ZFIN", "OO", "CAN"} :
            /\ <<Frame(k)>> \in Seq(Frames)
            /\ Lacks(<<Frame(k)>>, {"info"}) /\ Lacks(<<Frame(k)>>, {"info", "chunk"})
  BY EmptyLine, Writes DEF Plain, Lacks, Frame
<1>3. Coming("S") # "nothing" => wire["S"] # <<>>
  BY DEF Coming
<1>4. \A r \in Results : StoppedSender(r).pc = "ended"
  BY DEF StoppedSender
<1>5. CASE Greeted
  BY <1>1, <1>2, <1>3, <1>5, QuietSender DEF Greeted, SReads, Senders
<1>6. CASE SkipFile
  <2>1. /\ wire' = wire /\ snd.pc = "next" /\ snd'.pc = "next" /\ reported' = reported
    BY <1>1, <1>6 DEF SkipFile, Senders
  <2>2. {snd.pc, snd'.pc} \cap {"rpos", "stream", "eof", "ended"} = {} /\ (0 = 1 => wire["S"] # <<>>)
    BY <2>1
  <2> QED  BY <1>1, <1>2, <2>1, <2>2, QuietSender
<1>7. CASE Offer
  BY <1>1, <1>7, OfferConversation
<1>8. CASE Positioned
  BY <1>1, <1>8, PositionedConversation
<1>9. CASE Stream
  BY <1>1, <1>9, StreamConversation
<1>10. CASE Completed
  BY <1>1, <1>10, CompletedConversation
<1>11. CASE AllOffered
  <2>1. /\ Pass("S", 0, <<Frame("ZFIN")>>) /\ snd.pc = "next" /\ snd'.pc = "fin"
        /\ reported' = reported
    BY <1>1, <1>11 DEF AllOffered, Senders
  <2>2. {snd.pc, snd'.pc} \cap {"rpos", "stream", "eof", "ended"} = {} /\ (0 = 1 => wire["S"] # <<>>)
    BY <2>1
  <2> QED  BY <1>1, <1>2, <2>1, <2>2, QuietSender
<1>12. CASE SignOff
  <2>1. snd.pc = "fin" /\ SEnds("ended", <<Frame("OO")>>)
    BY <1>12 DEF SignOff, SReads
  <2> QED  BY <1>1, <1>2, <1>4, <2>1, EndingSender DEF SEnds, Results
<1>13. CASE GiveUp
  <2>1. snd.pc # "ended" /\ SEnds("failed", <<>>)
    BY <1>13 DEF GiveUp
  <2> QED  BY <1>1, <1>2, <1>4, <2>1, EndingSender DEF SEnds, Results
<1>14. CASE SIgnores
  BY <1>1, <1>2, <1>14, QuietSender DEF SIgnores
<1>15. CASE SCancelled
  <2>1. snd.pc # "ended" /\ SEnds("cancelled", <<Frame("CAN")>>)
    BY <1>15 DEF SCancelled, SWaits
  <2> QED  BY <1>1, <1>2, <1>4, <2>1, EndingSender DEF SEnds, Results
<1>16. CASE SRaises
  <2>1. snd.pc # "ended" /\ SEnds("raised", <<>>)
    BY <1>16 DEF SRaises, SWaits
  <2> QED  BY <1>1, <1>2, <1>4, <2>1, EndingSender DEF SEnds, Results
<1> QED  BY <1>5, <1>6, <1>7, <1>8, <1>9, <1>10, <1>11, <1>12, <1>13, <1>14, <1>15, <1>16
            DEF SenderStep

LEMMA ReceiverConversation ==
  ASSUME TypeOK, Conversation, ReceiverStep PROVE Conversation'
<1>1. /\ wire \in Lines /\ rcv \in Receivers /\ 0 \in {0, 1} /\ 1 \in {0, 1}
      /\ snd' = snd /\ reported' = reported /\ ReceiverOnly
      /\ disk \in [Files -> Seq(Unit) \cup {Absent}]
      /\ rcv.pc \in {"file", "data"} => rcv.file \in Files /\ disk[rcv.file] \in Seq(Unit)
  BY DEF TypeOK, Lines, ReceiverStep, ReceiverOnly, Receivers
<1>2. /\ <<>> \in Seq(Frames) /\ Lacks(<<>>, {"ZRPOS"}) /\ Lacks(<<>>, {"ZRINIT"})
      /\ <<Frame("CAN")>> \in Seq(Frames)
      /\ Lacks(<<Frame("CAN")>>, {"ZRPOS"}) /\ Lacks(<<Frame("CAN")>>, {"ZRINIT"})
      /\ \A k \in {"ZRINIT", "ZFIN"} :
            <<Frame(k)>> \in Seq(Frames) /\ Lacks(<<Frame(k)>>, {"ZRPOS"})
      /\ \A k \in {"ZCOMPL", "ZNAK"} :
            /\ <<Frame(k), Frame("ZRINIT")>> \in Seq(Frames)
            /\ Lacks(<<Frame(k), Frame("ZRINIT")>>, {"ZRPOS"})
  BY EmptyLine, Writes DEF Plain, Lacks, Frame
<1>3. Coming("R") # "nothing" => wire["R"] # <<>>
  BY DEF Coming
<1>4. \A pc \in {"hello", "loop", "info", "over", "file"} :
         Goes(pc) => rcv'.pc = pc /\ rcv'.file = rcv.file
  BY <1>1 DEF Goes, Receivers
<1> DEFINE Quiet == rcv.pc \notin {"file", "data", "ended"} /\ rcv'.pc \notin {"file", "data"}
           Writes1 == Writing /\ rcv'.pc \in {"file", "data"} /\ rcv'.file = rcv.file
<1>5. ASSUME Quiet, SameFiles, NEW n \in {0, 1}, NEW F \in Seq(Frames), Pass("R", n, F),
             n = 1 => wire["R"] # <<>>, Lacks(F, {"ZRPOS"})
      PROVE  Conversation'
  BY <1>1, <1>5, QuietReceiver DEF SameFiles
<1>6. ASSUME Writes1, counted' = counted, OwnUnits', Pass("R", 1, <<>>), wire["R"] # <<>>
      PROVE  Conversation'
  BY <1>1, <1>6, WritingReceiver
<1>7. ASSUME Writes1, SameFiles, Pass("R", 1, <<>>), wire["R"] # <<>>
      PROVE  Conversation'
  <2>1. OwnUnits' /\ counted' = counted
    BY <1>7 DEF Conversation, OwnUnits, SameFiles
  <2> QED  BY <1>6, <1>7, <2>1
<1>8. ASSUME NEW r \in Results, NEW F \in {<<>>, <<Frame("CAN")>>}, REnds(r, F), rcv.pc # "ended"
      PROVE  Conversation'
  <2>1. rcv'.pc = "ended" /\ Quit("R", F) /\ disk' = disk /\ counted' = counted
    BY <1>8 DEF REnds, StoppedReceiver, SameFiles
  <2> QED  BY <1>1, <1>2, <1>8, <2>1, EndingReceiver
<1> HIDE DEF Quiet, Writes1
<1>11. CASE Invite
  <2>1. Quiet /\ SameFiles
    BY <1>11 DEF Invite, RReads, Quiet
  <2>2. \/ Pass("R", 1, <<Frame("ZRINIT")>>) /\ wire["R"] # <<>>
        \/ Pass("R", 0, <<Frame("ZRINIT")>>)
    BY <1>3, <1>11 DEF Invite, RReads
  <2>3. <<Frame("ZRINIT")>> \in Seq(Frames) /\ Lacks(<<Frame("ZRINIT")>>, {"ZRPOS"})
    BY <1>2
  <2>4. CASE Pass("R", 1, <<Frame("ZRINIT")>>) /\ wire["R"] # <<>>
    BY <1>1, <1>5, <2>1, <2>3, <2>4
  <2>5. CASE Pass("R", 0, <<Frame("ZRINIT")>>)
    <3>1. 0 = 1 => wire["R"] # <<>>
      OBVIOUS
    <3> QED  BY <1>1, <1>5, <2>1, <2>3, <2>5, <3>1
  <2> QED  BY <2>2, <2>4, <2>5
<1>12. CASE FileOffered
  <2>1. Quiet /\ SameFiles /\ Pass("R", 1, <<>>) /\ wire["R"] # <<>>
    BY <1>1, <1>3, <1>12 DEF FileOffered, RReads, Quiet, Receivers
  <2> QED  BY <1>1, <1>2, <1>5, <2>1
<1>13. CASE NoOffer
  <2>1. Quiet /\ SameFiles /\ Pass("R", 1, <<Frame("ZCOMPL"), Frame("ZRINIT")>>) /\ wire["R"] # <<>>
    BY <1>1, <1>3, <1>4, <1>13 DEF NoOffer, RReads, Quiet
  <2> QED  BY <1>1, <1>2, <1>5, <2>1
<1>14. CASE FinReceived
  <2>1. Quiet /\ SameFiles /\ Pass("R", 1, <<Frame("ZFIN")>>) /\ wire["R"] # <<>>
    BY <1>1, <1>3, <1>4, <1>14 DEF FinReceived, RReads, Quiet
  <2> QED  BY <1>1, <1>2, <1>5, <2>1
<1>15. CASE RIgnores
  <2>1. /\ SameFiles /\ Pass("R", 1, <<>>) /\ wire["R"] # <<>> /\ rcv' = rcv
        /\ rcv.pc \in {"hello", "loop", "over", "file"}
    BY <1>3, <1>15 DEF RIgnores, NoHeaders, Subpackets
  <2>2. CASE rcv.pc = "file"
    <3>1. Writes1
      BY <2>1, <2>2 DEF Writes1, Writing
    <3> QED  BY <1>7, <2>1, <3>1
  <2>3. CASE rcv.pc # "file"
    <3>1. Quiet
      BY <2>1, <2>3 DEF Quiet
    <3> QED  BY <1>1, <1>2, <1>5, <2>1, <3>1
  <2> QED  BY <2>2, <2>3
<1>16. CASE Tears
  <2>1. /\ SameFiles /\ Pass("R", 1, <<>>) /\ wire["R"] # <<>>
        /\ rcv'.pc = rcv.pc /\ rcv'.file = rcv.file /\ rcv.pc \in {"info", "data"}
    BY <1>1, <1>3, <1>16 DEF Tears, Receivers
  <2>2. CASE rcv.pc = "data"
    <3>1. Writes1
      BY <2>1, <2>2 DEF Writes1, Writing
    <3> QED  BY <1>7, <2>1, <3>1
  <2>3. CASE rcv.pc # "data"
    <3>1. Quiet
      BY <2>1, <2>3 DEF Quiet
    <3> QED  BY <1>1, <1>2, <1>5, <2>1, <3>1
  <2> QED  BY <2>2, <2>3
<1>17. CASE InfoCorrupt
  <2>1. Quiet /\ SameFiles /\ Pass("R", 1, <<Frame("ZNAK"), Frame("ZRINIT")>>) /\ wire["R"] # <<>>
    BY <1>1, <1>3, <1>4, <1>17 DEF InfoCorrupt, Subpacket, BadSubpacket, Quiet
  <2> QED  BY <1>1, <1>2, <1>5, <2>1
<1>18. CASE Refuse
  <2>1. Quiet /\ SameFiles /\ Pass("R", 1, <<Frame("ZRINIT")>>) /\ wire["R"] # <<>>
    BY <1>1, <1>3, <1>4, <1>18 DEF Refuse, Subpacket, Quiet
  <2> QED  BY <1>1, <1>2, <1>5, <2>1
<1>19. CASE OpenFile
  BY <1>1, <1>19, OpenConversation
<1>20. CASE DataComes
  <2>1. /\ SameFiles /\ Pass("R", 1, <<>>) /\ wire["R"] # <<>> /\ Writes1
    BY <1>1, <1>3, <1>20 DEF DataComes, RReads, Receivers, Writes1, Writing
  <2> QED  BY <1>7, <2>1
<1>21. CASE WriteChunk
  <2> DEFINE u == Head(wire["R"]).unit
  <2>1. /\ rcv.pc = "data" /\ rcv' = rcv /\ counted' = counted /\ Pass("R", 1, <<>>)
        /\ wire["R"] # <<>> /\ Coming("R") = "chunk"
        /\ disk' = [disk EXCEPT ![rcv.file] = Append(@, u)]
    BY <1>3, <1>21 DEF WriteChunk, Subpacket
  <2>2. Writing /\ Writes1
    BY <2>1 DEF Writing, Writes1
  <2>3. u \in Own(rcv.file)
    <3>1. /\ wire["R"] \in Seq(Frames) /\ Len(wire["R"]) \in Nat \ {0}
          /\ Head(wire["R"]) = wire["R"][1] /\ wire["R"][1].kind = "chunk"
      BY <1>1, <2>1, HeadTypes DEF Sides
    <3>2. 1 \in 1..Len(wire["R"])
      BY <3>1
    <3> QED  BY <2>2, <3>1, <3>2 DEF Conversation, WritesOffered
  <2> HIDE DEF u
  <2>4. rcv.file \in Files /\ disk[rcv.file] \in Seq(Unit) /\ disk[rcv.file] # Absent
    BY <1>1, <2>1, ZFilesAssumption
  <2>5. Units(Append(disk[rcv.file], u)) \subseteq Own(rcv.file)
    BY <2>3, <2>4, OwnAppend DEF Conversation, OwnUnits
  <2>6. OwnUnits'
    BY <1>1, <2>1, <2>4, <2>5 DEF Conversation, OwnUnits
  <2> QED  BY <1>6, <2>1, <2>2, <2>6
<1>22. CASE DataEnds
  <2>1. /\ SameFiles /\ Pass("R", 1, <<>>) /\ wire["R"] # <<>> /\ rcv.pc = "data" /\ Goes("file")
    BY <1>3, <1>22 DEF DataEnds, Subpacket, BadSubpacket
  <2>2. Writes1
    BY <1>4, <2>1 DEF Writes1, Writing
  <2> QED  BY <1>7, <2>1, <2>2
<1>23. CASE DataStalls
  <2>1. /\ SameFiles /\ wire' = wire /\ rcv.pc = "data" /\ Goes("file")
    BY <1>23 DEF DataStalls
  <2>2. Writing /\ rcv'.pc = "file" /\ rcv'.file = rcv.file
    BY <1>4, <2>1 DEF Writing
  <2>3. OwnUnits' /\ counted' = counted /\ (0 = 1 => wire["R"] # <<>>)
    BY <2>1 DEF Conversation, OwnUnits, SameFiles
  <2> QED  BY <1>1, <2>1, <2>2, <2>3, WritingReceiver
<1>24. CASE CloseFile
  BY <1>1, <1>24, CloseConversation
<1>25. CASE RDone
  <2>1. rcv.pc = "over" /\ REnds("ended", <<>>)
    BY <1>25 DEF RDone, OverAndOut, RReads
  <2> QED  BY <1>8, <2>1 DEF Results
<1>26. CASE RCancelled
  BY <1>8, <1>26 DEF RCancelled, Results
<1>27. CASE RRaises
  <2>1. rcv.pc # "ended" /\ REnds("raised", <<>>)
    BY <1>27 DEF RRaises, RReads
  <2> QED  BY <1>8, <2>1 DEF Results
<1> QED  BY <1>11, <1>12, <1>13, <1>14, <1>15, <1>16, <1>17, <1>18, <1>19, <1>20, <1>21, <1>22,
            <1>23, <1>24, <1>25, <1>26, <1>27 DEF ReceiverStep

LEMMA InterruptConversation ==
  ASSUME TypeOK, Conversation, NEW p \in Sides, Interrupt(p) PROVE Conversation'
<1>1. /\ wire \in Lines /\ Sides = {"S", "R"} /\ Quit(p, <<Frame("CAN")>>)
      /\ disk' = disk /\ counted' = counted /\ reported' = reported
  BY DEF TypeOK, Lines, Sides, Interrupt
<1>2. /\ <<Frame("CAN")>> \in Seq(Frames)
      /\ \A K \in {{"info"}, {"info", "chunk"}, {"ZRPOS"}, {"ZRINIT"}} :
            Lacks(<<Frame("CAN")>>, K)
  BY Writes DEF Plain, Lacks, Frame
<1>3. CASE p = "S"
  <2>1. snd.pc # "ended" /\ snd'.pc = "ended" /\ rcv' = rcv
    BY <1>3 DEF Interrupt, Stopped, StoppedSender
  <2> QED  BY <1>1, <1>2, <1>3, <2>1, EndingSender
<1>4. CASE p = "R"
  <2>1. rcv.pc # "ended" /\ rcv'.pc = "ended" /\ snd' = snd
    BY <1>4 DEF Interrupt, Stopped, StoppedReceiver
  <2> QED  BY <1>1, <1>2, <1>4, <2>1, EndingReceiver
<1> QED  BY <1>1, <1>3, <1>4

\* The receiver's directory holds data of the files only, to begin with.
OwnDirectories ==
  \A d \in Directories : \A f \in Files : d[f] # Absent => Units(d[f]) \subseteq Own(f)

LEMMA InitPair == ASSUME OwnDirectories PROVE Init => Drained /\ Pair
<1> SUFFICES ASSUME Init PROVE Drained /\ Started /\ Alone /\ Conversation
  BY DEF Pair
<1>1. /\ wire["S"] = <<>> /\ wire["R"] = <<>> /\ Sides = {"S", "R"} /\ disk \in Directories
      /\ snd = StoppedSender("none") /\ rcv = StoppedReceiver("none")
      /\ snd.pc = "ended" /\ rcv.pc = "ended" /\ reported = {} /\ counted = {}
  BY DEF Init, Sides, StoppedSender, StoppedReceiver
<1>2. Drained /\ Started /\ Alone
  BY <1>1 DEF Drained, Started, Alone, Fresh
<1>3. OneOffer /\ OneAnswer /\ StreamAnswered /\ WritesOffered
  BY <1>1 DEF OneOffer, OneAnswer, StreamAnswered, WritesOffered, Lacks, Behind, Writing
<1>4. OwnUnits /\ reported \subseteq counted
  BY <1>1 DEF OwnUnits, OwnDirectories
<1> QED  BY <1>2, <1>3, <1>4 DEF Conversation

LEMMA NextPair == TypeOK /\ Drained /\ Pair /\ [Next]_vars => Pair'
<1> SUFFICES ASSUME TypeOK, Drained, Pair, [Next]_vars, launches' <= 2
             PROVE  Started' /\ Alone' /\ Conversation'
  BY DEF Pair
<1>1. launches \in Nat /\ launches <= launches'
  <2>1. launches \in Nat
    BY ZBoundsAssumption DEF TypeOK
  <2>2. launches' \in {launches, launches + 1}
    BY DEF Next, SenderStep, SenderOnly, ReceiverStep, ReceiverOnly, Terminated, Launch, Interrupt,
           Spoil, vars
  <2> QED  BY <2>1, <2>2
<1>2. Started /\ Alone /\ Conversation
  <2>1. launches <= 2
    <3>1. launches' \in Int
      BY ZBoundsAssumption, NextTypes DEF TypeOK
    <3> QED  BY <1>1, <3>1
  <2> QED  BY <2>1 DEF Pair
<1>3. Started' /\ Alone'
  BY <1>2, NextAlone
<1>4. Conversation'
  <2>1. CASE UNCHANGED vars
    BY <1>2, <2>1 DEF vars, Conversation, OneOffer, OneAnswer, StreamAnswered, WritesOffered,
                      OwnUnits, Writing, Offered, Offering, Answered
  <2> QED  BY <1>2, <2>1, SenderConversation, ReceiverConversation, LaunchConversation,
              InterruptConversation, SpoilConversation DEF Next, Terminated
<1> QED  BY <1>3, <1>4

LEMMA PairInvariance == ASSUME OwnDirectories PROVE Spec => [](TypeOK /\ Drained /\ Pair)
<1>1. Init => TypeOK /\ Drained /\ Pair
  BY InitTypes, InitPair
<1>2. TypeOK /\ Drained /\ Pair /\ [Next]_vars => (TypeOK /\ Drained /\ Pair)'
  BY NextTypes, NextDrained, NextPair
<1> QED  BY <1>1, <1>2, PTL DEF Spec

-----------------------------------------------------------------------------
(***************************************************************************)
(* A line that damages nothing, and programs that are interrupted and      *)
(* started again.  A CAN that waits in front of a program ends it, so the  *)
(* frames behind the CAN do not matter; those before it are an ordered     *)
(* piece of what one program said to the other or to its predecessor.      *)
(***************************************************************************)

\* The frames that are read before the next CAN is.
IsCut(w, n) ==
  /\ n \in 0..Len(w) /\ \A i \in 1..n : w[i].kind # "CAN"
  /\ n < Len(w) => w[n + 1].kind = "CAN"
Cut(w) == CHOOSE n \in 0..Len(w) : IsCut(w, n)
Heeded(w) == SubSeq(w, 1, Cut(w))
Cuttable(w) == \E n \in 0..Len(w) : IsCut(w, n)
HasCut == \A p \in Sides : Cuttable(wire[p])

Answers == Heeded(wire["S"])
Stimuli == Heeded(wire["R"])
SDoomed == Cut(wire["S"]) < Len(wire["S"])
RDoomed == Cut(wire["R"]) < Len(wire["R"])

\* What is on its way, by kinds.
One(w, k) == Len(w) = 1 /\ w[1].kind = k
Two(w, k, l) == Len(w) = 2 /\ w[1].kind = k /\ w[2].kind = l

\* What a receiver between two files invites for, and what it answers that with.
Invitations == {"ZDATA", "chunk", "end", "ZEOF", "OO", "ZRQINIT"}
Inviting(b) == \A i \in 1..Len(b) : b[i].kind \in Invitations
Greeting(a) == \A i \in 1..Len(a) : a[i].kind \in {"ZRINIT", "ZCOMPL"}
Between == rcv.pc \in {"hello", "loop"}

\* The i-th frame after ZDATA, and a piece of them.
Part(f, i) ==
  IF i <= Len(Content[f]) THEN Chunk(Content[f][i])
  ELSE IF i = Len(Content[f]) + 1 THEN Frame("end") ELSE Frame("ZEOF")
Flow(b, f, n) ==
  /\ n + Len(b) <= Len(Content[f]) + 2
  /\ \A i \in 1..Len(b) : b[i] = Part(f, n + i)

\* The rest of the file is on its way to the receiver that has it open, or will be.
Coherent ==
  Writing =>
    LET n == Len(disk[rcv.file])
        b == Stimuli
    IN  /\ rcv.file \notin counted
        /\ rcv.pc = "data" => ~rcv.torn /\ Flow(b, rcv.file, n)
        /\ rcv.pc = "file" =>
             \/ b = <<>>
             \/ b # <<>> /\ b[1].kind = "ZDATA" /\ Flow(Tail(b), rcv.file, n)
             \/ One(b, "ZEOF") /\ n = Len(Content[rcv.file])

\* The sender is m frames behind ZDATA.
SentTo(m) ==
  \/ snd.pc = "stream" /\ snd.pos = m /\ m <= Len(Content[Offered])
  \/ snd.pc = "eof" /\ m = Len(Content[Offered]) + 2

\* Neither program is to be cancelled: what one does while it greets the other, while the
\* file on offer is sent, and at the end.
GreetingEach(a, b) ==
  \/ rcv.pc = "ended" /\ snd.pc \in {"ended", "rinit"} /\ a = <<>>
  \/ /\ Between /\ snd.pc = "ended" /\ (b = <<>> \/ One(b, "OO"))
  \/ /\ Between /\ snd.pc = "rinit" /\ a = <<>>
     /\ One(b, "ZRQINIT") \/ Two(b, "OO", "ZRQINIT")
  \/ /\ Between /\ snd.pc = "rinit" /\ b = <<>>
     /\ a = <<>> \/ One(a, "ZRINIT") \/ Two(a, "ZCOMPL", "ZRINIT")
  \/ Between /\ snd.pc = "next" /\ a = <<>> /\ b = <<>>
Proposing(a, b) ==
  /\ snd.pc = "rpos"
  /\ \/ /\ Between /\ a = <<>> /\ Two(b, "ZFILE", "info")
        /\ b[2].file = Offered /\ Offered \notin reported
     \/ /\ rcv.pc = "info" /\ ~rcv.torn /\ a = <<>> /\ One(b, "info")
        /\ b[1].file = Offered /\ Offered \notin reported
     \/ Between /\ Greeting(a) /\ b = <<>>
Sending(a, b) ==
  \/ /\ rcv.pc = "file" /\ rcv.file = Offered /\ snd.pc = "rpos" /\ b = <<>>
     /\ One(a, "ZRPOS") /\ a[1].pos = Len(disk[rcv.file])
  \/ /\ rcv.pc = "file" /\ rcv.file = Offered /\ a = <<>> /\ b # <<>> /\ b[1].kind = "ZDATA"
     /\ SentTo(Len(disk[rcv.file]) + (Len(b) - 1))
  \/ rcv.pc = "data" /\ rcv.file = Offered /\ a = <<>> /\ SentTo(Len(disk[rcv.file]) + Len(b))
  \/ rcv.pc = "file" /\ rcv.file = Offered /\ a = <<>> /\ One(b, "ZEOF") /\ snd.pc = "eof"
  \/ Between /\ snd.pc = "eof" /\ One(a, "ZRINIT") /\ b = <<>> /\ Answered
Parting(a, b) ==
  \/ Between /\ snd.pc = "fin" /\ a = <<>> /\ One(b, "ZFIN")
  \/ rcv.pc = "over" /\ snd.pc = "fin" /\ One(a, "ZFIN") /\ b = <<>>
  \/ rcv.pc = "over" /\ snd.pc = "ended" /\ One(b, "OO")
  \/ rcv.pc = "over" /\ snd.pc = "rinit" /\ a = <<>> /\ Two(b, "OO", "ZRQINIT")
InStep ==
  LET a == Answers
      b == Stimuli
  IN  GreetingEach(a, b) \/ Proposing(a, b) \/ Sending(a, b) \/ Parting(a, b)

\* The receiver is to be cancelled: it answers the last words of a sender that has ended,
\* and its successor may hear that.
ReceiverDoomed ==
  LET a == Answers
      b == Stimuli
  IN
  \/ /\ snd.pc \in {"ended", "rinit", "next", "rpos", "fin"}
     /\ Between /\ Inviting(b) /\ Greeting(a)
  \/ /\ snd.pc \in {"ended", "rinit"} /\ a = <<>>
     /\ \/ Between /\ One(b, "ZFIN")
        \/ Between /\ Two(b, "ZFILE", "info") /\ b[2].file \notin reported
        \/ rcv.pc = "info" /\ ~rcv.torn /\ One(b, "info") /\ b[1].file \notin reported
        \/ Writing
        \/ rcv.pc = "over" /\ Inviting(b)
  \/ /\ snd.pc = "rinit" /\ b = <<>>
     /\ \/ rcv.pc = "file" /\ One(a, "ZRPOS")
        \/ rcv.pc = "over" /\ One(a, "ZFIN")

\* The sender is to be cancelled: what it still reads are the last words of a receiver that
\* has ended, and the receiver's successor hears what the sender makes of them.
SenderDoomed ==
  LET a == Answers
      b == Stimuli
  IN
  \/ /\ rcv.pc \in {"hello", "ended"} /\ b = <<>>
     /\ \/ snd.pc \in {"rinit", "next", "rpos", "fin"} /\ Greeting(a)
        \/ snd.pc \in {"rinit", "rpos"} /\ One(a, "ZRPOS")
        \/ snd.pc \in {"rinit", "fin"} /\ One(a, "ZFIN")
        \/ snd.pc = "eof" /\ Greeting(a) /\ (a = <<>> \/ Answered)
  \/ /\ snd.pc \in {"stream", "eof"} /\ a = <<>>
     /\ rcv.pc \in {"hello", "loop", "ended"} /\ Inviting(b)
  \/ /\ snd.pc = "rpos" /\ Greeting(a)
     /\ \/ rcv.pc \in {"loop", "file"} /\ b = <<>>
        \/ /\ rcv.pc = "hello" /\ Two(b, "ZFILE", "info")
           /\ b[2].file = Offered /\ Offered \notin reported
        \/ /\ rcv.pc = "info" /\ ~rcv.torn /\ One(b, "info")
           /\ b[1].file = Offered /\ Offered \notin reported
  \/ /\ snd.pc = "fin" /\ Greeting(a)
     /\ \/ rcv.pc = "hello" /\ One(b, "ZFIN")
        \/ rcv.pc = "over" /\ b = <<>>

Fronts == \A f \in Files : disk[f] # Absent => IsFront(disk[f], f)
Phases ==
  \/ ~SDoomed /\ ~RDoomed /\ InStep
  \/ ~SDoomed /\ RDoomed /\ ReceiverDoomed
  \/ SDoomed /\ ~RDoomed /\ SenderDoomed
Copies == Coherent /\ Fronts /\ CountedIsWhole /\ reported \subseteq counted
Intact == HasCut /\ Phases /\ Copies
Clean == faults = 0 => Intact

\* There is one cut only.
LEMMA CutIs ==
  ASSUME NEW w \in Seq(Frames), NEW n \in 0..Len(w), IsCut(w, n)
  PROVE  Cut(w) = n /\ Cuttable(w)
<1>1. ASSUME NEW m \in 0..Len(w), IsCut(w, m)
      PROVE  m = n
  <2>1. CASE m < n
    <3>1. w[m + 1].kind = "CAN" /\ m + 1 \in 1..n
      BY <1>1, <2>1 DEF IsCut
    <3> QED  BY <3>1 DEF IsCut
  <2>2. CASE n < m
    <3>1. w[n + 1].kind = "CAN" /\ n + 1 \in 1..m
      BY <1>1, <2>2 DEF IsCut
    <3> QED  BY <1>1, <3>1 DEF IsCut
  <2> QED  BY <2>1, <2>2
<1>2. IsCut(w, Cut(w)) /\ Cut(w) \in 0..Len(w)
  BY DEF Cut
<1> QED  BY <1>1, <1>2 DEF Cuttable

LEMMA Heeds ==
  ASSUME NEW w \in Seq(Frames), Cuttable(w)
  PROVE  /\ Cut(w) \in 0..Len(w) /\ IsCut(w, Cut(w))
         /\ Heeded(w) \in Seq(Frames) /\ Len(Heeded(w)) = Cut(w)
         /\ \A i \in 1..Cut(w) : Heeded(w)[i] = w[i]
<1>1. Cut(w) \in 0..Len(w) /\ IsCut(w, Cut(w))
  BY DEF Cut, Cuttable
<1>2. Heeded(w) \in Seq(Frames) /\ Len(Heeded(w)) = Cut(w)
      /\ \A i \in 1..Cut(w) : Heeded(w)[i] = w[i]
  BY <1>1, SubSeqProperties DEF Heeded
<1> QED  BY <1>1, <1>2

\* Nothing waits, or something that is no CAN, or a CAN.
LEMMA HeedsHead ==
  ASSUME NEW w \in Seq(Frames), Cuttable(w)
  PROVE  /\ w = <<>> => Heeded(w) = <<>> /\ ~(Cut(w) < Len(w))
         /\ w # <<>> /\ Head(w).kind # "CAN" => Heeded(w) # <<>> /\ Heeded(w)[1] = Head(w)
         /\ w # <<>> /\ Head(w).kind = "CAN" => Heeded(w) = <<>> /\ Cut(w) < Len(w)
<1> DEFINE n == Cut(w)
           h == Heeded(w)
<1>1. n \in 0..Len(w) /\ IsCut(w, n) /\ h \in Seq(Frames) /\ Len(h) = n
      /\ \A i \in 1..n : h[i] = w[i]
  BY Heeds
<1> HIDE DEF n, h
<1>2. CASE w = <<>>
  <2>1. n = 0 /\ Len(w) = 0
    BY <1>1, <1>2
  <2> QED  BY <1>1, <1>2, <2>1 DEF n, h
<1>3. CASE w # <<>> /\ Head(w).kind # "CAN"
  <2>1. Len(w) > 0 /\ Head(w) = w[1]
    BY <1>3
  <2>2. n # 0
    BY <1>1, <1>3, <2>1 DEF IsCut
  <2> QED  BY <1>1, <1>3, <2>1, <2>2 DEF n, h
<1>4. CASE w # <<>> /\ Head(w).kind = "CAN"
  <2>1. Len(w) > 0 /\ Head(w) = w[1]
    BY <1>4
  <2>2. n = 0
    BY <1>1, <1>4, <2>1 DEF IsCut
  <2> QED  BY <1>1, <1>4, <2>1, <2>2 DEF n, h
<1> QED  BY <1>2, <1>3, <1>4

LEMMA HeedsNothing == Cuttable(<<>>) /\ Heeded(<<>>) = <<>> /\ ~(Cut(<<>>) < Len(<<>>))
<1>1. <<>> \in Seq(Frames) /\ Len(<<>>) = 0
  OBVIOUS
<1>2. 0 \in 0..Len(<<>>) /\ IsCut(<<>>, 0)
  BY <1>1 DEF IsCut
<1>3. Cuttable(<<>>)
  BY <1>2 DEF Cuttable
<1> QED  BY <1>1, <1>3, HeedsHead

\* A frame is read.
LEMMA HeedsRest ==
  ASSUME NEW w \in Seq(Frames), Cuttable(w), w # <<>>, Head(w).kind # "CAN",
         NEW v \in Seq(Frames), Len(v) = Len(w) - 1, \A i \in 1..Len(v) : v[i] = w[i + 1]
  PROVE  /\ Cuttable(v) /\ Heeded(v) = Tail(Heeded(w))
         /\ (Cut(v) < Len(v)) <=> (Cut(w) < Len(w))
<1> DEFINE n == Cut(w)
           h == Heeded(w)
<1>1. n \in 0..Len(w) /\ IsCut(w, n) /\ h \in Seq(Frames) /\ Len(h) = n
      /\ \A i \in 1..n : h[i] = w[i]
  BY Heeds
<1>2. h # <<>>
  BY HeedsHead
<1> HIDE DEF n, h
<1>3. n - 1 \in 0..(Len(w) - 1) /\ n \in 1..Len(w)
  BY <1>1, <1>2
<1>4. Len(w) \in Nat \ {0} /\ \A i \in 1..(Len(w) - 1) : v[i] = w[i + 1]
  BY <1>3
<1>5. IsCut(v, n - 1)
  <2>1. \A i \in 1..(n - 1) : v[i].kind # "CAN"
    <3> TAKE i \in 1..(n - 1)
    <3>1. i \in 1..(Len(w) - 1) /\ i + 1 \in 1..n
      BY <1>3
    <3> QED  BY <1>1, <1>4, <3>1 DEF IsCut
  <2>2. n - 1 < Len(v) => v[n - 1 + 1].kind = "CAN"
    <3> HAVE n - 1 < Len(v)
    <3>1. n < Len(w) /\ n - 1 + 1 = n /\ n \in 1..(Len(w) - 1)
      BY <1>3, <1>4
    <3> QED  BY <1>1, <1>4, <3>1 DEF IsCut
  <2> QED  BY <1>3, <1>4, <2>1, <2>2 DEF IsCut
<1>6. Cut(v) = n - 1 /\ Cuttable(v)
  BY <1>3, <1>4, <1>5, CutIs
<1>7. Heeded(v) \in Seq(Frames) /\ Len(Heeded(v)) = n - 1
      /\ \A i \in 1..(n - 1) : Heeded(v)[i] = v[i]
  BY <1>4, <1>6, Heeds
<1>8. Tail(h) \in Seq(Frames) /\ Len(Tail(h)) = n - 1
      /\ \A i \in 1..(n - 1) : Tail(h)[i] = h[i + 1]
  BY <1>1, <1>2
<1>9. \A i \in 1..(n - 1) : Heeded(v)[i] = Tail(h)[i]
  <2> TAKE i \in 1..(n - 1)
  <2>1. i \in 1..(Len(w) - 1) /\ i + 1 \in 1..n
    BY <1>3
  <2> QED  BY <1>1, <1>4, <1>7, <1>8, <2>1
<1>10. Heeded(v) = Tail(h)
  BY <1>3, <1>7, <1>8, <1>9, SeqEqual
<1> QED  BY <1>3, <1>4, <1>6, <1>10 DEF n, h

\* Frames other than CAN are written.
LEMMA HeedsMore ==
  ASSUME NEW w \in Seq(Frames), Cuttable(w), NEW F \in Seq(Frames), Lacks(F, {"CAN"})
  PROVE  /\ Cuttable(w \o F)
         /\ Heeded(w \o F) = IF Cut(w) < Len(w) THEN Heeded(w) ELSE Heeded(w) \o F
         /\ (Cut(w \o F) < Len(w \o F)) <=> (Cut(w) < Len(w))
<1> DEFINE n == Cut(w)
           h == Heeded(w)
           v == w \o F
<1>1. n \in 0..Len(w) /\ IsCut(w, n) /\ h \in Seq(Frames) /\ Len(h) = n
      /\ \A i \in 1..n : h[i] = w[i]
  BY Heeds
<1>2. v \in Seq(Frames) /\ Len(v) = Len(w) + Len(F)
      /\ (\A i \in 1..Len(w) : v[i] = w[i])
      /\ \A i \in 1..Len(F) : v[Len(w) + i] = F[i]
  BY ConcatProperties
<1> HIDE DEF n, h, v
<1>3. CASE n < Len(w)
  <2>1. IsCut(v, n) /\ n \in 0..Len(v)
    <3>1. n + 1 \in 1..Len(w) /\ n \in 0..Len(v)
      BY <1>1, <1>2, <1>3
    <3>2. \A i \in 1..n : v[i] = w[i] /\ w[i].kind # "CAN"
      BY <1>1, <1>2 DEF IsCut
    <3>3. v[n + 1].kind = "CAN"
      BY <1>1, <1>2, <1>3, <3>1 DEF IsCut
    <3> QED  BY <3>1, <3>2, <3>3 DEF IsCut
  <2>2. Cut(v) = n /\ Cuttable(v)
    BY <1>2, <2>1, CutIs
  <2>3. Heeded(v) \in Seq(Frames) /\ Len(Heeded(v)) = n
        /\ \A i \in 1..n : Heeded(v)[i] = v[i]
    BY <1>2, <2>2, Heeds
  <2>4. Heeded(v) = h
    BY <1>1, <1>2, <2>3, SeqEqual
  <2> QED  BY <1>1, <1>2, <1>3, <2>2, <2>4 DEF n, h, v
<1>4. CASE n = Len(w)
  <2>1. IsCut(v, Len(v)) /\ Len(v) \in 0..Len(v)
    <3>1. Len(v) \in Nat
      BY <1>2
    <3>2. ASSUME NEW i \in 1..Len(v)
          PROVE  v[i].kind # "CAN"
      <4>1. CASE i \in 1..Len(w)
        BY <1>1, <1>2, <1>4, <4>1 DEF IsCut
      <4>2. CASE i \notin 1..Len(w)
        <5>1. i - Len(w) \in 1..Len(F) /\ Len(w) + (i - Len(w)) = i
          BY <1>2, <4>2
        <5>2. v[i] = F[i - Len(w)]
          BY <1>2, <5>1
        <5> QED  BY <5>1, <5>2 DEF Lacks
      <4> QED  BY <4>1, <4>2
    <3> QED  BY <3>1, <3>2 DEF IsCut
  <2>2. Cut(v) = Len(v) /\ Cuttable(v)
    BY <1>2, <2>1, CutIs
  <2>3. Heeded(v) \in Seq(Frames) /\ Len(Heeded(v)) = Len(v)
        /\ \A i \in 1..Len(v) : Heeded(v)[i] = v[i]
    BY <1>2, <2>2, Heeds
  <2>4. Heeded(v) = v
    BY <1>2, <2>3, SeqEqual
  <2>5. h = w
    BY <1>1, <1>4, SeqEqual
  <2>6. Len(v) \in Nat
    BY <1>2
  <2> QED  BY <1>1, <1>4, <2>2, <2>4, <2>5, <2>6 DEF n, h, v
<1> QED  BY <1>1, <1>3, <1>4

\* A CAN is written.
LEMMA HeedsCancel ==
  ASSUME NEW w \in Seq(Frames), Cuttable(w), NEW v, v = w \o <<Frame("CAN")>>
  PROVE  Cuttable(v) /\ Heeded(v) = Heeded(w) /\ Cut(v) < Len(v)
<1> DEFINE n == Cut(w)
           h == Heeded(w)
<1>1. n \in 0..Len(w) /\ IsCut(w, n) /\ h \in Seq(Frames) /\ Len(h) = n
      /\ \A i \in 1..n : h[i] = w[i]
  BY Heeds
<1>2. Frame("CAN") \in Frames /\ Frame("CAN").kind = "CAN"
  BY FrameTypes DEF Frame, Plain
<1>3. v \in Seq(Frames) /\ Len(v) = Len(w) + 1
      /\ (\A i \in 1..Len(w) : v[i] = w[i]) /\ v[Len(w) + 1].kind = "CAN"
  BY <1>2
<1> HIDE DEF n, h
<1>4. IsCut(v, n) /\ n \in 0..Len(v)
  <2>1. n \in 0..Len(v)
    BY <1>1, <1>3
  <2>2. v[n + 1].kind = "CAN"
    <3>1. CASE n = Len(w)
      BY <1>3, <3>1
    <3>2. CASE n < Len(w)
      <4>1. n + 1 \in 1..Len(w)
        BY <1>1, <3>2
      <4> QED  BY <1>1, <1>3, <3>2, <4>1 DEF IsCut
    <3> QED  BY <1>1, <3>1, <3>2
  <2> QED  BY <1>1, <1>3, <2>1, <2>2 DEF IsCut
<1>5. Cut(v) = n /\ Cuttable(v)
  BY <1>3, <1>4, CutIs
<1>6. Heeded(v) \in Seq(Frames) /\ Len(Heeded(v)) = n
      /\ \A i \in 1..n : Heeded(v)[i] = v[i]
  BY <1>3, <1>5, Heeds
<1>7. Heeded(v) = h
  BY <1>1, <1>3, <1>6, SeqEqual
<1> QED  BY <1>1, <1>3, <1>5, <1>7 DEF n, h

LEMMA PassHeeds ==
  ASSUME wire \in Lines, HasCut, Drained, NEW p \in Sides, NEW n \in {0, 1},
         NEW F \in Seq(Frames), Lacks(F, {"CAN"}), Pass(p, n, F),
         n = 1 => Coming(p) \notin {"nothing", "CAN"}
  PROVE  LET q == Peer(p) IN
         /\ Cuttable(wire'[p]) /\ Cuttable(wire'[q])
         /\ n = 1 => /\ Heeded(wire[p]) # <<>> /\ Heeded(wire[p])[1] = Head(wire[p])
                     /\ Heeded(wire'[p]) = Tail(Heeded(wire[p]))
         /\ n = 0 => Heeded(wire'[p]) = Heeded(wire[p])
         /\ (Cut(wire'[p]) < Len(wire'[p])) <=> (Cut(wire[p]) < Len(wire[p]))
         /\ Heeded(wire'[q]) = IF Stopped(q) \/ Cut(wire[q]) < Len(wire[q]) THEN Heeded(wire[q])
                                                                       ELSE Heeded(wire[q]) \o F
         /\ (Cut(wire'[q]) < Len(wire'[q])) <=> (Cut(wire[q]) < Len(wire[q]))
<1> DEFINE q == Peer(p)
           w == wire[p]
           v == wire'[p]
           x == wire[q]
           y == wire'[q]
<1>1. q \in Sides /\ w \in Seq(Frames) /\ x \in Seq(Frames) /\ Cuttable(w) /\ Cuttable(x)
  BY DEF Sides, Peer, Lines, HasCut
<1>2. wire' \in Lines
  BY PassEffect
<1>3. v \in Seq(Frames) /\ y \in Seq(Frames)
  BY <1>1, <1>2 DEF Lines
<1>4. n = 1 => w # <<>> /\ Head(w).kind # "CAN"
  BY DEF Coming
<1>5. n = 1 => wire[p] # <<>>
  BY <1>4
<1>6. /\ Len(v) = Len(w) - n
      /\ \A i \in 1..Len(v) : v[i] = w[i + n]
      /\ \/ Stopped(q) /\ y = <<>>
         \/ ~Stopped(q) /\ y = x \o F
  BY <1>5, Passed
<1>7. Stopped(q) => x = <<>>
  BY <1>1 DEF Drained
<1> HIDE DEF q, w, v, x, y
<1>9. n = 1 => Cuttable(v) /\ Heeded(v) = Tail(Heeded(w))
               /\ ((Cut(v) < Len(v)) <=> (Cut(w) < Len(w)))
               /\ Heeded(w) # <<>> /\ Heeded(w)[1] = Head(w)
  <2> HAVE n = 1
  <2>1. Len(v) = Len(w) - 1 /\ (\A i \in 1..Len(v) : v[i] = w[i + 1])
        /\ w # <<>> /\ Head(w).kind # "CAN"
    BY <1>4, <1>6
  <2>2. Heeded(w) # <<>> /\ Heeded(w)[1] = Head(w)
    BY <1>1, <2>1, HeedsHead
  <2>3. Cuttable(v) /\ Heeded(v) = Tail(Heeded(w))
        /\ ((Cut(v) < Len(v)) <=> (Cut(w) < Len(w)))
    BY <1>1, <1>3, <2>1, HeedsRest
  <2> QED  BY <2>2, <2>3
<1>10. n = 0 => v = w
  BY <1>1, <1>3, <1>6, SeqEqual
<1>11. CASE Stopped(q)
  <2>1. x = y
    BY <1>6, <1>7, <1>11
  <2> QED  BY <1>1, <1>9, <1>10, <1>11, <2>1 DEF q, w, v, x, y
<1>12. CASE ~Stopped(q)
  <2>1. y = x \o F
    BY <1>6, <1>12
  <2>2. /\ Cuttable(y)
        /\ Heeded(y) = IF Cut(x) < Len(x) THEN Heeded(x) ELSE Heeded(x) \o F
        /\ (Cut(y) < Len(y)) <=> (Cut(x) < Len(x))
    BY <1>1, <2>1, HeedsMore
  <2> QED  BY <1>1, <1>9, <1>10, <1>12, <2>2 DEF q, w, v, x, y
<1> QED  BY <1>11, <1>12

LEMMA QuitHeeds ==
  ASSUME wire \in Lines, HasCut, Drained, NEW p \in Sides,
         NEW F \in Seq(Frames), Lacks(F, {"CAN"}), Quit(p, F)
  PROVE  LET q == Peer(p) IN
         /\ Cuttable(wire'[p]) /\ Cuttable(wire'[q])
         /\ Heeded(wire'[p]) = <<>> /\ ~(Cut(wire'[p]) < Len(wire'[p]))
         /\ Heeded(wire'[q]) = IF Stopped(q) \/ Cut(wire[q]) < Len(wire[q]) THEN Heeded(wire[q])
                                                                       ELSE Heeded(wire[q]) \o F
         /\ (Cut(wire'[q]) < Len(wire'[q])) <=> (Cut(wire[q]) < Len(wire[q]))
<1> DEFINE q == Peer(p)
           x == wire[q]
           y == wire'[q]
<1>1. q \in Sides /\ x \in Seq(Frames) /\ Cuttable(x)
  BY DEF Sides, Peer, Lines, HasCut
<1>2. wire'[p] = <<>> /\ y = IF Stopped(q) THEN <<>> ELSE x \o F
  BY QuitEffect
<1>3. Stopped(q) => x = <<>>
  BY <1>1 DEF Drained
<1>4. Cuttable(wire'[p]) /\ Heeded(wire'[p]) = <<>> /\ ~(Cut(wire'[p]) < Len(wire'[p]))
  BY <1>2, HeedsNothing
<1> HIDE DEF q, x, y
<1>11. CASE Stopped(q)
  <2>1. x = y
    BY <1>2, <1>3, <1>11
  <2> QED  BY <1>1, <1>4, <1>11, <2>1 DEF q, x, y
<1>12. CASE ~Stopped(q)
  <2>1. y = x \o F
    BY <1>2, <1>12
  <2>2. /\ Cuttable(y)
        /\ Heeded(y) = IF Cut(x) < Len(x) THEN Heeded(x) ELSE Heeded(x) \o F
        /\ (Cut(y) < Len(y)) <=> (Cut(x) < Len(x))
    BY <1>1, <2>1, HeedsMore
  <2> QED  BY <1>4, <1>12, <2>2 DEF q, x, y
<1> QED  BY <1>11, <1>12

LEMMA CancelHeeds ==
  ASSUME wire \in Lines, HasCut, Drained, NEW p \in Sides, Quit(p, <<Frame("CAN")>>)
  PROVE  LET q == Peer(p) IN
         /\ Cuttable(wire'[p]) /\ Cuttable(wire'[q])
         /\ Heeded(wire'[p]) = <<>> /\ ~(Cut(wire'[p]) < Len(wire'[p]))
         /\ Heeded(wire'[q]) = Heeded(wire[q])
         /\ (Cut(wire'[q]) < Len(wire'[q])) <=> ~Stopped(q)
<1> DEFINE q == Peer(p)
           x == wire[q]
           y == wire'[q]
<1>1. q \in Sides /\ x \in Seq(Frames) /\ Cuttable(x)
  BY DEF Sides, Peer, Lines, HasCut
<1>2. wire'[p] = <<>> /\ y = IF Stopped(q) THEN <<>> ELSE x \o <<Frame("CAN")>>
  <2>1. <<Frame("CAN")>> \in Seq(Frames)
    BY Writes DEF Plain
  <2> QED  BY <2>1, QuitEffect
<1>3. Stopped(q) => x = <<>>
  BY <1>1 DEF Drained
<1>4. Cuttable(wire'[p]) /\ Heeded(wire'[p]) = <<>> /\ ~(Cut(wire'[p]) < Len(wire'[p]))
  BY <1>2, HeedsNothing
<1> HIDE DEF q, x, y
<1>11. CASE Stopped(q)
  <2>1. x = <<>> /\ y = <<>>
    BY <1>2, <1>3, <1>11
  <2> QED  BY <1>4, <1>11, <2>1, HeedsNothing DEF q, x, y
<1>12. CASE ~Stopped(q)
  <2>1. y = x \o <<Frame("CAN")>>
    BY <1>2, <1>12
  <2>2. Cuttable(y) /\ Heeded(y) = Heeded(x) /\ Cut(y) < Len(y)
    BY <1>1, <2>1, HeedsCancel
  <2> QED  BY <1>4, <1>12, <2>2 DEF q, x, y
<1> QED  BY <1>11, <1>12

\* What the two programs still heed: plain sequences, of which one frame is read at a time.
LEMMA Voices ==
  ASSUME wire \in Lines, HasCut
  PROVE  /\ Answers \in Seq(Frames) /\ Stimuli \in Seq(Frames)
         /\ SDoomed \in BOOLEAN /\ RDoomed \in BOOLEAN
<1>1. \A p \in Sides : wire[p] \in Seq(Frames) /\ Cuttable(wire[p])
  BY DEF Lines, HasCut
<1>2. \A p \in Sides : Heeded(wire[p]) \in Seq(Frames)
  BY <1>1, Heeds
<1> QED  BY <1>2 DEF Sides, Answers, Stimuli, SDoomed, RDoomed

LEMMA SenderPasses ==
  ASSUME wire \in Lines, HasCut, Drained, NEW n \in {0, 1}, NEW F \in Seq(Frames),
         Lacks(F, {"CAN"}), Pass("S", n, F), n = 1 => Coming("S") \notin {"nothing", "CAN"}
  PROVE  /\ HasCut' /\ (SDoomed' <=> SDoomed) /\ (RDoomed' <=> RDoomed)
         /\ n = 1 => /\ Answers # <<>> /\ Answers[1] = Head(wire["S"])
                     /\ Answers' = Tail(Answers)
         /\ n = 0 => Answers' = Answers
         /\ Stimuli' = IF rcv.pc = "ended" \/ RDoomed THEN Stimuli ELSE Stimuli \o F
<1>1. "S" \in Sides /\ Peer("S") = "R" /\ Sides = {"S", "R"} /\ (Stopped("R") <=> rcv.pc = "ended")
  BY DEF Sides, Peer, Stopped
<1>2. /\ Cuttable(wire'["S"]) /\ Cuttable(wire'["R"])
      /\ n = 1 => /\ Heeded(wire["S"]) # <<>> /\ Heeded(wire["S"])[1] = Head(wire["S"])
                  /\ Heeded(wire'["S"]) = Tail(Heeded(wire["S"]))
      /\ n = 0 => Heeded(wire'["S"]) = Heeded(wire["S"])
      /\ (Cut(wire'["S"]) < Len(wire'["S"])) <=> (Cut(wire["S"]) < Len(wire["S"]))
      /\ Heeded(wire'["R"]) = IF Stopped("R") \/ Cut(wire["R"]) < Len(wire["R"])
                              THEN Heeded(wire["R"]) ELSE Heeded(wire["R"]) \o F
      /\ (Cut(wire'["R"]) < Len(wire'["R"])) <=> (Cut(wire["R"]) < Len(wire["R"]))
  BY <1>1, PassHeeds
<1> QED  BY <1>1, <1>2 DEF HasCut, Answers, Stimuli, SDoomed, RDoomed

LEMMA ReceiverPasses ==
  ASSUME wire \in Lines, HasCut, Drained, NEW n \in {0, 1}, NEW F \in Seq(Frames),
         Lacks(F, {"CAN"}), Pass("R", n, F), n = 1 => Coming("R") \notin {"nothing", "CAN"}
  PROVE  /\ HasCut' /\ (SDoomed' <=> SDoomed) /\ (RDoomed' <=> RDoomed)
         /\ n = 1 => /\ Stimuli # <<>> /\ Stimuli[1] = Head(wire["R"])
                     /\ Stimuli' = Tail(Stimuli)
         /\ n = 0 => Stimuli' = Stimuli
         /\ Answers' = IF snd.pc = "ended" \/ SDoomed THEN Answers ELSE Answers \o F
<1>1. "R" \in Sides /\ Peer("R") = "S" /\ Sides = {"S", "R"} /\ (Stopped("S") <=> snd.pc = "ended")
  BY DEF Sides, Peer, Stopped
<1>2. /\ Cuttable(wire'["R"]) /\ Cuttable(wire'["S"])
      /\ n = 1 => /\ Heeded(wire["R"]) # <<>> /\ Heeded(wire["R"])[1] = Head(wire["R"])
                  /\ Heeded(wire'["R"]) = Tail(Heeded(wire["R"]))
      /\ n = 0 => Heeded(wire'["R"]) = Heeded(wire["R"])
      /\ (Cut(wire'["R"]) < Len(wire'["R"])) <=> (Cut(wire["R"]) < Len(wire["R"]))
      /\ Heeded(wire'["S"]) = IF Stopped("S") \/ Cut(wire["S"]) < Len(wire["S"])
                              THEN Heeded(wire["S"]) ELSE Heeded(wire["S"]) \o F
      /\ (Cut(wire'["S"]) < Len(wire'["S"])) <=> (Cut(wire["S"]) < Len(wire["S"]))
  BY <1>1, PassHeeds
<1> QED  BY <1>1, <1>2 DEF HasCut, Answers, Stimuli, SDoomed, RDoomed

LEMMA SenderQuits ==
  ASSUME wire \in Lines, HasCut, Drained, NEW F \in Seq(Frames), Lacks(F, {"CAN"}), Quit("S", F)
  PROVE  /\ HasCut' /\ ~SDoomed' /\ (RDoomed' <=> RDoomed) /\ Answers' = <<>>
         /\ Stimuli' = IF rcv.pc = "ended" \/ RDoomed THEN Stimuli ELSE Stimuli \o F
<1>1. "S" \in Sides /\ Peer("S") = "R" /\ Sides = {"S", "R"} /\ (Stopped("R") <=> rcv.pc = "ended")
  BY DEF Sides, Peer, Stopped
<1>2. /\ Cuttable(wire'["S"]) /\ Cuttable(wire'["R"])
      /\ Heeded(wire'["S"]) = <<>> /\ ~(Cut(wire'["S"]) < Len(wire'["S"]))
      /\ Heeded(wire'["R"]) = IF Stopped("R") \/ Cut(wire["R"]) < Len(wire["R"])
                              THEN Heeded(wire["R"]) ELSE Heeded(wire["R"]) \o F
      /\ (Cut(wire'["R"]) < Len(wire'["R"])) <=> (Cut(wire["R"]) < Len(wire["R"]))
  BY <1>1, QuitHeeds
<1> QED  BY <1>1, <1>2 DEF HasCut, Answers, Stimuli, SDoomed, RDoomed

LEMMA ReceiverQuits ==
  ASSUME wire \in Lines, HasCut, Drained, NEW F \in Seq(Frames), Lacks(F, {"CAN"}), Quit("R", F)
  PROVE  /\ HasCut' /\ ~RDoomed' /\ (SDoomed' <=> SDoomed) /\ Stimuli' = <<>>
         /\ Answers' = IF snd.pc = "ended" \/ SDoomed THEN Answers ELSE Answers \o F
<1>1. "R" \in Sides /\ Peer("R") = "S" /\ Sides = {"S", "R"} /\ (Stopped("S") <=> snd.pc = "ended")
  BY DEF Sides, Peer, Stopped
<1>2. /\ Cuttable(wire'["S"]) /\ Cuttable(wire'["R"])
      /\ Heeded(wire'["R"]) = <<>> /\ ~(Cut(wire'["R"]) < Len(wire'["R"]))
      /\ Heeded(wire'["S"]) = IF Stopped("S") \/ Cut(wire["S"]) < Len(wire["S"])
                              THEN Heeded(wire["S"]) ELSE Heeded(wire["S"]) \o F
      /\ (Cut(wire'["S"]) < Len(wire'["S"])) <=> (Cut(wire["S"]) < Len(wire["S"]))
  BY <1>1, QuitHeeds
<1> QED  BY <1>1, <1>2 DEF HasCut, Answers, Stimuli, SDoomed, RDoomed

LEMMA SenderCancels ==
  ASSUME wire \in Lines, HasCut, Drained, Quit("S", <<Frame("CAN")>>)
  PROVE  /\ HasCut' /\ ~SDoomed' /\ (RDoomed' <=> rcv.pc # "ended")
         /\ Answers' = <<>> /\ Stimuli' = Stimuli
<1>1. "S" \in Sides /\ Peer("S") = "R" /\ Sides = {"S", "R"} /\ (Stopped("R") <=> rcv.pc = "ended")
  BY DEF Sides, Peer, Stopped
<1>2. /\ Cuttable(wire'["S"]) /\ Cuttable(wire'["R"])
      /\ Heeded(wire'["S"]) = <<>> /\ ~(Cut(wire'["S"]) < Len(wire'["S"]))
      /\ Heeded(wire'["R"]) = Heeded(wire["R"])
      /\ (Cut(wire'["R"]) < Len(wire'["R"])) <=> ~Stopped("R")
  BY <1>1, CancelHeeds
<1> QED  BY <1>1, <1>2 DEF HasCut, Answers, Stimuli, SDoomed, RDoomed

LEMMA ReceiverCancels ==
  ASSUME wire \in Lines, HasCut, Drained, Quit("R", <<Frame("CAN")>>)
  PROVE  /\ HasCut' /\ ~RDoomed' /\ (SDoomed' <=> snd.pc # "ended")
         /\ Stimuli' = <<>> /\ Answers' = Answers
<1>1. "R" \in Sides /\ Peer("R") = "S" /\ Sides = {"S", "R"} /\ (Stopped("S") <=> snd.pc = "ended")
  BY DEF Sides, Peer, Stopped
<1>2. /\ Cuttable(wire'["S"]) /\ Cuttable(wire'["R"])
      /\ Heeded(wire'["R"]) = <<>> /\ ~(Cut(wire'["R"]) < Len(wire'["R"]))
      /\ Heeded(wire'["S"]) = Heeded(wire["S"])
      /\ (Cut(wire'["S"]) < Len(wire'["S"])) <=> ~Stopped("S")
  BY <1>1, CancelHeeds
<1> QED  BY <1>1, <1>2 DEF HasCut, Answers, Stimuli, SDoomed, RDoomed

\* A silence that is no fault: nothing is on its way.
LEMMA Silence ==
  ASSUME wire \in Lines, HasCut, NEW p \in Sides, TimesOut(p), faults = 0, faults' = 0
  PROVE  /\ Answers = <<>> /\ Stimuli = <<>> /\ ~SDoomed /\ ~RDoomed
         /\ p = "R" => SWaits \/ snd.pc = "ended"
<1>1. Waiting(Peer(p)) /\ wire[p] = <<>>
  BY DEF TimesOut
<1>2. wire["S"] = <<>> /\ wire["R"] = <<>> /\ (p = "R" => SWaits \/ snd.pc = "ended")
  BY <1>1 DEF Waiting, Peer, Sides, Stopped
<1> QED  BY <1>2, HeedsNothing DEF Answers, Stimuli, SDoomed, RDoomed

\* A CAN at the head of the line.
LEMMA Cancelled ==
  ASSUME wire \in Lines, HasCut
  PROVE  /\ Coming("S") = "CAN" => SDoomed /\ Answers = <<>>
         /\ Coming("R") = "CAN" => RDoomed /\ Stimuli = <<>>
<1>1. \A p \in Sides : /\ wire[p] \in Seq(Frames) /\ Cuttable(wire[p])
                       /\ Coming(p) = "CAN" => wire[p] # <<>> /\ Head(wire[p]).kind = "CAN"
  BY DEF Lines, HasCut, Coming
<1>2. \A p \in Sides : Coming(p) = "CAN" => Heeded(wire[p]) = <<>> /\ Cut(wire[p]) < Len(wire[p])
  BY <1>1, HeedsHead
<1> QED  BY <1>2 DEF Sides, Answers, Stimuli, SDoomed, RDoomed

\* Sequences of a few frames.
LEMMA Words ==
  ASSUME NEW w \in Seq(Frames)
  PROVE  /\ Len(w) \in Nat /\ (w = <<>> <=> Len(w) = 0)
         /\ w \o <<>> = w /\ <<>> \o w = w
         /\ w # <<>> =>
              /\ Tail(w) \in Seq(Frames) /\ Len(Tail(w)) = Len(w) - 1
              /\ \A i \in 1..Len(Tail(w)) : Tail(w)[i] = w[i + 1]
OBVIOUS

LEMMA Shorter ==
  ASSUME NEW w \in Seq(Frames), w # <<>>
  PROVE  /\ \A k : One(w, k) => Tail(w) = <<>>
         /\ \A k, l : Two(w, k, l) => One(Tail(w), l) /\ Tail(w)[1] = w[2]
         /\ Greeting(w) => Greeting(Tail(w))
         /\ Inviting(w) => Inviting(Tail(w))
<1> DEFINE t == Tail(w)
<1>1. t \in Seq(Frames) /\ Len(t) = Len(w) - 1 /\ Len(w) \in Nat \ {0}
      /\ \A i \in 1..Len(t) : i + 1 \in 1..Len(w) /\ t[i] = w[i + 1]
  BY Words
<1> HIDE DEF t
<1>2. \A k : One(w, k) => t = <<>>
  BY <1>1 DEF One
<1>3. \A k, l : Two(w, k, l) => One(t, l) /\ t[1] = w[2]
  <2> SUFFICES ASSUME NEW k, NEW l, Two(w, k, l)
               PROVE  One(t, l) /\ t[1] = w[2]
    OBVIOUS
  <2>1. Len(t) = 1 /\ 1 \in 1..Len(t) /\ 1 + 1 = 2
    BY <1>1 DEF Two
  <2> QED  BY <1>1, <2>1 DEF One, Two
<1>4. Greeting(w) => Greeting(t)
  BY <1>1 DEF Greeting
<1>5. Inviting(w) => Inviting(t)
  BY <1>1 DEF Inviting
<1> QED  BY <1>2, <1>3, <1>4, <1>5 DEF t

LEMMA Longer ==
  ASSUME NEW w \in Seq(Frames), NEW F \in Seq(Frames)
  PROVE  /\ Greeting(w) /\ Greeting(F) => Greeting(w \o F)
         /\ Inviting(w) /\ Inviting(F) => Inviting(w \o F)
         /\ \A k, l : One(w, k) /\ One(F, l) => Two(w \o F, k, l)
<1> DEFINE v == w \o F
<1>1. v \in Seq(Frames) /\ Len(w) \in Nat /\ Len(F) \in Nat /\ Len(v) = Len(w) + Len(F)
      /\ (\A i \in 1..Len(w) : v[i] = w[i])
      /\ (\A i \in 1..Len(v) : i \notin 1..Len(w) => i - Len(w) \in 1..Len(F) /\ v[i] = F[i - Len(w)])
  BY ConcatProperties
<1> HIDE DEF v
<1>2. Greeting(w) /\ Greeting(F) => Greeting(v)
  BY <1>1 DEF Greeting
<1>3. Inviting(w) /\ Inviting(F) => Inviting(v)
  BY <1>1 DEF Inviting
<1>4. \A k, l : One(w, k) /\ One(F, l) => Two(v, k, l)
  <2> SUFFICES ASSUME NEW k, NEW l, One(w, k), One(F, l)
               PROVE  Two(v, k, l)
    OBVIOUS
  <2>1. Len(w) = 1 /\ Len(F) = 1 /\ Len(v) = 2 /\ v[1] = w[1]
    BY <1>1 DEF One
  <2>2. 2 \in 1..Len(v) /\ 2 \notin 1..Len(w) /\ 2 - Len(w) = 1
    BY <2>1
  <2>3. v[2] = F[2 - Len(w)]
    BY <1>1, <2>2
  <2>4. v[2] = F[1]
    BY <2>2, <2>3
  <2> QED  BY <2>1, <2>4 DEF One, Two
<1> QED  BY <1>2, <1>3, <1>4 DEF v

\* What the programs write, in these terms.
LEMMA Written ==
  /\ \A k : One(<<Frame(k)>>, k)
  /\ \A k, l : Two(<<Frame(k), Frame(l)>>, k, l)
  /\ \A o, f : Two(<<FileHeader(o), Info(f)>>, "ZFILE", "info") /\ <<FileHeader(o), Info(f)>>[2].file = f
  /\ \A k, n : One(<<Position(k, n)>>, k) /\ <<Position(k, n)>>[1].pos = n
  /\ Greeting(<<>>) /\ Greeting(<<Frame("ZRINIT")>>) /\ Greeting(<<Frame("ZCOMPL"), Frame("ZRINIT")>>)
  /\ Inviting(<<>>) /\ \A n : Inviting(<<Position("ZDATA", n)>>)
  /\ Lacks(<<>>, {"CAN"}) /\ \A k : k # "CAN" => Lacks(<<Frame(k)>>, {"CAN"})
  /\ \A k, l : k # "CAN" /\ l # "CAN" => Lacks(<<Frame(k), Frame(l)>>, {"CAN"})
  /\ \A o, f : Lacks(<<FileHeader(o), Info(f)>>, {"CAN"})
  /\ \A k, n : k # "CAN" => Lacks(<<Position(k, n)>>, {"CAN"})
BY DEF One, Two, Frame, FileHeader, Info, Position, Greeting, Inviting, Invitations, Lacks

\* A receiver that writes keeps what it has and what is left to come.
LEMMA ReceiverRests ==
  ASSUME TypeOK, Copies, rcv' = rcv, disk' = disk, counted' = counted,
         reported' \subseteq counted, Writing => Stimuli' = Stimuli
  PROVE  Copies'
BY DEF TypeOK, Copies, Writing, Coherent, Fronts, CountedIsWhole

LEMMA SenderKeepsCopies ==
  ASSUME TypeOK, Copies, SenderOnly, reported' \subseteq counted, Writing => Stimuli' = Stimuli
  PROVE  Copies'
BY ReceiverRests DEF SenderOnly

\* The next frame to be read is the first that is heeded.
LEMMA NextFrame ==
  ASSUME TypeOK, Intact
  PROVE  /\ Coming("S") \notin {"nothing", "CAN"} =>
              Answers # <<>> /\ Answers[1] = Head(wire["S"]) /\ Answers[1].kind = Coming("S")
         /\ Coming("R") \notin {"nothing", "CAN"} =>
              Stimuli # <<>> /\ Stimuli[1] = Head(wire["R"]) /\ Stimuli[1].kind = Coming("R")
<1>1. \A p \in Sides : /\ wire[p] \in Seq(Frames) /\ Cuttable(wire[p])
                       /\ Coming(p) \notin {"nothing", "CAN"} =>
                            wire[p] # <<>> /\ Head(wire[p]).kind # "CAN" /\ Coming(p) = Head(wire[p]).kind
  BY DEF TypeOK, Intact, HasCut, Coming
<1>2. \A p \in Sides : Coming(p) \notin {"nothing", "CAN"} =>
        Heeded(wire[p]) # <<>> /\ Heeded(wire[p])[1] = Head(wire[p])
  BY <1>1, HeedsHead
<1> QED  BY <1>1, <1>2 DEF Sides, Answers, Stimuli

LEMMA WritingFront ==
  ASSUME TypeOK, Copies, Writing
  PROVE  /\ rcv.file \in Files /\ disk[rcv.file] \in Seq(Unit) /\ Content[rcv.file] \in Seq(Unit)
         /\ IsFront(disk[rcv.file], rcv.file)
         /\ Len(disk[rcv.file]) \in Nat /\ Len(Content[rcv.file]) \in Nat
         /\ Len(disk[rcv.file]) <= Len(Content[rcv.file])
<1>1. rcv.file \in Files /\ disk[rcv.file] # Absent
  BY DEF TypeOK, Writing, Receivers
<1>2. disk[rcv.file] \in Seq(Unit) /\ Content[rcv.file] \in Seq(Unit)
  BY <1>1, ZFilesAssumption DEF TypeOK
<1> QED  BY <1>1, <1>2 DEF Copies, Fronts, IsFront

\* The line, when the sender reads a frame, and when it only writes.
LEMMA SenderReads ==
  ASSUME TypeOK, Drained, Intact, NEW F \in Seq(Frames), Lacks(F, {"CAN"}), Pass("S", 1, F),
         Coming("S") \notin {"nothing", "CAN"}
  PROVE  /\ Answers \in Seq(Frames) /\ Stimuli \in Seq(Frames) /\ Phases /\ Copies
         /\ HasCut' /\ (SDoomed' <=> SDoomed) /\ (RDoomed' <=> RDoomed)
         /\ Answers # <<>> /\ Answers[1] = Head(wire["S"]) /\ Answers[1].kind = Coming("S")
         /\ Answers' = Tail(Answers)
         /\ Stimuli' = IF rcv.pc = "ended" \/ RDoomed THEN Stimuli ELSE Stimuli \o F
<1>1. wire \in Lines /\ HasCut /\ Phases /\ Copies /\ 1 \in {0, 1}
  BY DEF TypeOK, Lines, Intact
<1>2. /\ HasCut' /\ (SDoomed' <=> SDoomed) /\ (RDoomed' <=> RDoomed)
      /\ Answers # <<>> /\ Answers[1] = Head(wire["S"]) /\ Answers' = Tail(Answers)
      /\ Stimuli' = IF rcv.pc = "ended" \/ RDoomed THEN Stimuli ELSE Stimuli \o F
  BY <1>1, SenderPasses
<1>3. Coming("S") = Head(wire["S"]).kind
  BY DEF Coming
<1> QED  BY <1>1, <1>2, <1>3, Voices

LEMMA SenderWrites ==
  ASSUME TypeOK, Drained, Intact, NEW F \in Seq(Frames), Lacks(F, {"CAN"}), Pass("S", 0, F)
  PROVE  /\ Answers \in Seq(Frames) /\ Stimuli \in Seq(Frames) /\ Phases /\ Copies
         /\ HasCut' /\ (SDoomed' <=> SDoomed) /\ (RDoomed' <=> RDoomed)
         /\ Answers' = Answers
         /\ Stimuli' = IF rcv.pc = "ended" \/ RDoomed THEN Stimuli ELSE Stimuli \o F
<1>1. wire \in Lines /\ HasCut /\ Phases /\ Copies /\ 0 \in {0, 1}
  BY DEF TypeOK, Lines, Intact
<1>2. /\ HasCut' /\ (SDoomed' <=> SDoomed) /\ (RDoomed' <=> RDoomed)
      /\ Answers' = Answers
      /\ Stimuli' = IF rcv.pc = "ended" \/ RDoomed THEN Stimuli ELSE Stimuli \o F
  BY <1>1, SenderPasses
<1> QED  BY <1>1, <1>2, Voices

LEMMA GreetedIntact ==
  ASSUME TypeOK, Drained, Intact, Greeted, SenderOnly
  PROVE  Intact'
<1>1. /\ Answers \in Seq(Frames) /\ Stimuli \in Seq(Frames) /\ Phases /\ Copies
      /\ HasCut' /\ (SDoomed' <=> SDoomed) /\ (RDoomed' <=> RDoomed)
      /\ Answers # <<>> /\ Answers[1].kind = "ZRINIT" /\ Answers' = Tail(Answers)
      /\ Stimuli' = Stimuli
  <2>1. Pass("S", 1, <<>>) /\ Coming("S") = "ZRINIT" /\ <<>> \in Seq(Frames) /\ Lacks(<<>>, {"CAN"})
    BY Writes, Written DEF Greeted, SReads
  <2> QED  BY <2>1, SenderReads, Words
<1>2. snd.pc = "rinit" /\ snd'.pc = "next" /\ rcv' = rcv /\ counted' = counted /\ reported' = reported
  BY DEF Greeted, SReads, SenderOnly, TypeOK, Senders
<1>3. Copies'
  BY <1>1, <1>2, SenderKeepsCopies DEF Copies
<1>4. CASE ~SDoomed /\ ~RDoomed /\ InStep
  <2>1. GreetingEach(Answers, Stimuli)
    BY <1>1, <1>2, <1>4 DEF InStep, Proposing, Sending, SentTo, Parting
  <2>2. Between /\ Stimuli = <<>> /\ One(Answers, "ZRINIT")
    BY <1>1, <1>2, <2>1 DEF GreetingEach, Two
  <2>3. GreetingEach(Answers, Stimuli)'
    BY <1>1, <1>2, <2>2, Shorter DEF GreetingEach, Between
  <2> QED  BY <1>1, <1>3, <1>4, <2>3 DEF Intact, Phases, InStep
<1>5. CASE ~SDoomed /\ RDoomed /\ ReceiverDoomed
  BY <1>1, <1>2, <1>3, <1>5, Shorter DEF Intact, Phases, ReceiverDoomed, Between, One
<1>6. CASE SDoomed /\ ~RDoomed /\ SenderDoomed
  BY <1>1, <1>2, <1>3, <1>6, Shorter DEF Intact, Phases, SenderDoomed, One
<1> QED  BY <1>1, <1>4, <1>5, <1>6 DEF Phases

LEMMA SkipFileIntact ==
  ASSUME TypeOK, Drained, Intact, SkipFile, SenderOnly
  PROVE  Intact'
<1>1. /\ HasCut /\ Phases /\ Copies /\ wire' = wire
      /\ snd.pc = "next" /\ snd'.pc = "next" /\ rcv' = rcv /\ counted' = counted /\ reported' = reported
  BY DEF Intact, SkipFile, SenderOnly, TypeOK, Senders
<1>2. /\ Answers' = Answers /\ Stimuli' = Stimuli /\ (SDoomed' <=> SDoomed) /\ (RDoomed' <=> RDoomed)
      /\ HasCut'
  BY <1>1 DEF Answers, Stimuli, SDoomed, RDoomed, HasCut
<1>3. Copies'
  BY <1>1, <1>2, SenderKeepsCopies DEF Copies
<1>4. CASE ~SDoomed /\ ~RDoomed /\ InStep
  <2>1. GreetingEach(Answers, Stimuli)
    BY <1>1, <1>4 DEF InStep, Proposing, Sending, SentTo, Parting
  <2>2. GreetingEach(Answers, Stimuli)'
    BY <1>1, <1>2, <2>1 DEF GreetingEach, Between
  <2> QED  BY <1>2, <1>3, <1>4, <2>2 DEF Intact, Phases, InStep
<1>5. CASE ~SDoomed /\ RDoomed /\ ReceiverDoomed
  BY <1>1, <1>2, <1>3, <1>5 DEF Intact, Phases, ReceiverDoomed, Between
<1>6. CASE SDoomed /\ ~RDoomed /\ SenderDoomed
  BY <1>1, <1>2, <1>3, <1>6 DEF Intact, Phases, SenderDoomed
<1> QED  BY <1>1, <1>4, <1>5, <1>6 DEF Phases

LEMMA OfferIntact ==
  ASSUME TypeOK, Drained, Intact, Offer, SenderOnly
  PROVE  Intact'
<1> DEFINE F == <<FileHeader(snd.over), Info(Offered)>>
<1>1. /\ F \in Seq(Frames) /\ Lacks(F, {"CAN"}) /\ Two(F, "ZFILE", "info") /\ F[2].file = Offered
  <2>1. snd.over \in BOOLEAN /\ Offered \in Files
    BY DEF Offer, TypeOK, Senders, Offered
  <2> QED  BY <2>1, Writes, Written
<1>2. Pass("S", 0, F)
  BY DEF Offer, Offered
<1> HIDE DEF F
<1>3. /\ Answers \in Seq(Frames) /\ Stimuli \in Seq(Frames) /\ Phases /\ Copies
      /\ HasCut' /\ (SDoomed' <=> SDoomed) /\ (RDoomed' <=> RDoomed)
      /\ Answers' = Answers
      /\ Stimuli' = IF rcv.pc = "ended" \/ RDoomed THEN Stimuli ELSE Stimuli \o F
  BY <1>1, <1>2, SenderWrites
<1>4. /\ snd.pc = "next" /\ snd'.pc = "rpos" /\ rcv' = rcv /\ counted' = counted
      /\ reported' = reported \ {Offered} /\ Offered' = Offered
  BY DEF Offer, SenderOnly, TypeOK, Senders, Offered
<1>5. Writing => Stimuli' = Stimuli
  BY <1>3, <1>4 DEF Phases, InStep, GreetingEach, Proposing, Sending, SentTo, Parting,
                    SenderDoomed, Between, Writing
<1>6. Copies'
  BY <1>3, <1>4, <1>5, SenderKeepsCopies DEF Copies
<1>7. CASE ~SDoomed /\ ~RDoomed /\ InStep
  <2>1. GreetingEach(Answers, Stimuli)
    BY <1>4, <1>7 DEF InStep, Proposing, Sending, SentTo, Parting
  <2>2. Between /\ Answers = <<>> /\ Stimuli = <<>>
    BY <1>4, <2>1 DEF GreetingEach
  <2>3. Stimuli' = F
    BY <1>1, <1>3, <1>7, <2>2, Words DEF Between
  <2>4. Proposing(Answers, Stimuli)'
    BY <1>1, <1>3, <1>4, <2>2, <2>3 DEF Proposing, Between
  <2> QED  BY <1>3, <1>6, <1>7, <2>4 DEF Intact, Phases, InStep
<1>8. CASE ~SDoomed /\ RDoomed /\ ReceiverDoomed
  BY <1>3, <1>4, <1>6, <1>8 DEF Intact, Phases, ReceiverDoomed, Between
<1>9. CASE SDoomed /\ ~RDoomed /\ SenderDoomed
  <2>1. /\ Stimuli = <<>> /\ Greeting(Answers) /\ rcv.pc \in {"hello", "ended"}
        /\ rcv.pc = "hello" => Stimuli' = F
    BY <1>1, <1>3, <1>4, <1>9, Words DEF SenderDoomed
  <2>2. SenderDoomed'
    BY <1>1, <1>3, <1>4, <2>1 DEF SenderDoomed
  <2> QED  BY <1>3, <1>6, <1>9, <2>2 DEF Intact, Phases
<1> QED  BY <1>3, <1>7, <1>8, <1>9 DEF Phases

LEMMA AllOfferedIntact ==
  ASSUME TypeOK, Drained, Intact, AllOffered, SenderOnly
  PROVE  Intact'
<1> DEFINE F == <<Frame("ZFIN")>>
<1>1. F \in Seq(Frames) /\ Lacks(F, {"CAN"}) /\ One(F, "ZFIN")
  BY Writes, Written DEF Plain
<1>2. Pass("S", 0, F)
  BY DEF AllOffered
<1> HIDE DEF F
<1>3. /\ Answers \in Seq(Frames) /\ Stimuli \in Seq(Frames) /\ Phases /\ Copies
      /\ HasCut' /\ (SDoomed' <=> SDoomed) /\ (RDoomed' <=> RDoomed)
      /\ Answers' = Answers
      /\ Stimuli' = IF rcv.pc = "ended" \/ RDoomed THEN Stimuli ELSE Stimuli \o F
  BY <1>1, <1>2, SenderWrites
<1>4. /\ snd.pc = "next" /\ snd'.pc = "fin" /\ rcv' = rcv /\ counted' = counted
      /\ reported' = reported
  BY DEF AllOffered, SenderOnly, TypeOK, Senders
<1>5. Writing => Stimuli' = Stimuli
  BY <1>3, <1>4 DEF Phases, InStep, GreetingEach, Proposing, Sending, SentTo, Parting,
                    SenderDoomed, Between, Writing
<1>6. Copies'
  BY <1>3, <1>4, <1>5, SenderKeepsCopies DEF Copies
<1>7. CASE ~SDoomed /\ ~RDoomed /\ InStep
  <2>1. GreetingEach(Answers, Stimuli)
    BY <1>4, <1>7 DEF InStep, Proposing, Sending, SentTo, Parting
  <2>2. Between /\ Answers = <<>> /\ Stimuli = <<>>
    BY <1>4, <2>1 DEF GreetingEach
  <2>3. Stimuli' = F
    BY <1>1, <1>3, <1>7, <2>2, Words DEF Between
  <2>4. Parting(Answers, Stimuli)'
    BY <1>1, <1>3, <1>4, <2>2, <2>3 DEF Parting, Between
  <2> QED  BY <1>3, <1>6, <1>7, <2>4 DEF Intact, Phases, InStep
<1>8. CASE ~SDoomed /\ RDoomed /\ ReceiverDoomed
  BY <1>3, <1>4, <1>6, <1>8 DEF Intact, Phases, ReceiverDoomed, Between
<1>9. CASE SDoomed /\ ~RDoomed /\ SenderDoomed
  <2>1. /\ Stimuli = <<>> /\ Greeting(Answers) /\ rcv.pc \in {"hello", "ended"}
        /\ rcv.pc = "hello" => Stimuli' = F
    BY <1>1, <1>3, <1>4, <1>9, Words DEF SenderDoomed
  <2>2. SenderDoomed'
    BY <1>1, <1>3, <1>4, <2>1 DEF SenderDoomed
  <2> QED  BY <1>3, <1>6, <1>9, <2>2 DEF Intact, Phases
<1> QED  BY <1>3, <1>7, <1>8, <1>9 DEF Phases

LEMMA CompletedIntact ==
  ASSUME TypeOK, Drained, Intact, Completed, SenderOnly
  PROVE  Intact'
<1>1. /\ Answers \in Seq(Frames) /\ Stimuli \in Seq(Frames) /\ Phases /\ Copies
      /\ HasCut' /\ (SDoomed' <=> SDoomed) /\ (RDoomed' <=> RDoomed)
      /\ Answers # <<>> /\ Answers[1].kind = "ZRINIT" /\ Answers' = Tail(Answers)
      /\ Stimuli' = Stimuli
  <2>1. Pass("S", 1, <<>>) /\ Coming("S") = "ZRINIT" /\ <<>> \in Seq(Frames) /\ Lacks(<<>>, {"CAN"})
    BY Writes, Written DEF Completed, SReads
  <2> QED  BY <2>1, SenderReads, Words
<1>2. /\ snd.pc = "eof" /\ snd'.pc = "next" /\ rcv' = rcv /\ counted' = counted
      /\ reported' = reported \cup {Offered}
  BY DEF Completed, SReads, SenderOnly, TypeOK, Senders, Offered
<1>3. Answered
  BY <1>1, <1>2 DEF Phases, InStep, GreetingEach, Proposing, Sending, SentTo, Parting,
                    SenderDoomed, ReceiverDoomed
<1>4. Copies'
  <2>1. reported' \subseteq counted
    BY <1>1, <1>2, <1>3 DEF Copies, Answered
  <2> QED  BY <1>1, <2>1, SenderKeepsCopies
<1>5. CASE ~SDoomed /\ ~RDoomed /\ InStep
  <2>1. Sending(Answers, Stimuli)
    BY <1>2, <1>5 DEF InStep, Proposing, GreetingEach, Parting
  <2>2. Between /\ One(Answers, "ZRINIT") /\ Stimuli = <<>>
    BY <1>1, <1>2, <2>1 DEF Sending
  <2>3. GreetingEach(Answers, Stimuli)'
    BY <1>1, <1>2, <2>2, Shorter DEF GreetingEach, Between
  <2> QED  BY <1>1, <1>4, <1>5, <2>3 DEF Intact, Phases, InStep
<1>6. CASE ~SDoomed /\ RDoomed /\ ReceiverDoomed
  BY <1>2, <1>6 DEF ReceiverDoomed
<1>7. CASE SDoomed /\ ~RDoomed /\ SenderDoomed
  BY <1>1, <1>2, <1>4, <1>7, Shorter DEF Intact, Phases, SenderDoomed
<1> QED  BY <1>1, <1>5, <1>6, <1>7 DEF Phases

LEMMA PositionedIntact ==
  ASSUME TypeOK, Drained, Intact, Positioned, SenderOnly
  PROVE  Intact'
<1> DEFINE n == Head(wire["S"]).pos
           F == <<Position("ZDATA", n)>>
<1>1. Pass("S", 1, F) /\ Coming("S") = "ZRPOS" /\ n \in Nat
  <2>1. Coming("S") = "ZRPOS" /\ "S" \in Sides /\ wire \in Lines
    BY DEF Positioned, SReads, TypeOK, Lines, Sides
  <2>2. Head(wire["S"]) \in Frames /\ Head(wire["S"]).kind = "ZRPOS"
    BY <2>1, HeadTypes
  <2> QED  BY <2>1, <2>2, FrameFields DEF Positioned
<1>2. F \in Seq(Frames) /\ Lacks(F, {"CAN"}) /\ One(F, "ZDATA") /\ Inviting(F)
  BY <1>1, Writes, Written
<1>3. /\ Answers \in Seq(Frames) /\ Stimuli \in Seq(Frames) /\ Phases /\ Copies
      /\ HasCut' /\ (SDoomed' <=> SDoomed) /\ (RDoomed' <=> RDoomed)
      /\ Answers # <<>> /\ Answers[1].kind = "ZRPOS" /\ Answers[1].pos = n /\ Answers' = Tail(Answers)
      /\ Stimuli' = IF rcv.pc = "ended" \/ RDoomed THEN Stimuli ELSE Stimuli \o F
  <2> HIDE DEF F
  <2> QED  BY <1>1, <1>2, SenderReads
<1>4. /\ snd.pc = "rpos" /\ snd'.pc = "stream" /\ snd'.pos = n /\ Offered' = Offered
      /\ rcv' = rcv /\ counted' = counted /\ disk' = disk /\ reported' = reported
  BY DEF Positioned, SReads, SenderOnly, TypeOK, Senders, Offered
<1> HIDE DEF n, F
<1>5. CASE ~SDoomed /\ ~RDoomed /\ InStep
  <2>1. Sending(Answers, Stimuli)
    BY <1>3, <1>4, <1>5 DEF InStep, GreetingEach, Proposing, Greeting, Parting
  <2>2. /\ rcv.pc = "file" /\ rcv.file = Offered /\ Stimuli = <<>> /\ One(Answers, "ZRPOS")
        /\ n = Len(disk[rcv.file])
    BY <1>3, <1>4, <2>1 DEF Sending, SentTo
  <2>3. Stimuli' = F /\ Answers' = <<>>
    BY <1>2, <1>3, <1>5, <2>2, Words, Shorter
  <2>4. n <= Len(Content[rcv.file]) /\ n \in Nat /\ Len(Content[rcv.file]) \in Nat
    BY <1>3, <2>2, WritingFront DEF Writing
  <2>5. Sending(Answers, Stimuli)'
    <3>1. SentTo(Len(disk[rcv.file]) + (Len(Stimuli) - 1))'
      BY <1>4, <2>2, <2>3, <2>4, <1>2 DEF SentTo, One
    <3> QED  BY <1>2, <1>4, <2>2, <2>3, <3>1 DEF Sending, One
  <2>6. Flow(Tail(F), rcv.file, n)
    <3>1. Tail(F) = <<>> /\ Len(<<>>) = 0
      BY <1>2, Shorter, Words
    <3>2. Flow(<<>>, rcv.file, n)
      BY <2>4 DEF Flow
    <3> QED  BY <3>1, <3>2
  <2>7. Coherent'
    BY <1>2, <1>3, <1>4, <2>2, <2>3, <2>6 DEF Coherent, Writing, Copies, One, Flow, Part
  <2>8. Copies'
    BY <1>3, <1>4, <2>7 DEF Copies, Fronts, CountedIsWhole
  <2> QED  BY <1>3, <1>5, <2>5, <2>8 DEF Intact, Phases, InStep
<1>6. CASE ~SDoomed /\ RDoomed /\ ReceiverDoomed
  BY <1>3, <1>4, <1>6 DEF ReceiverDoomed, Greeting
<1>7. CASE SDoomed /\ ~RDoomed /\ SenderDoomed
  <2>0. ~Greeting(Answers)
    BY <1>3 DEF Greeting
  <2>1. /\ rcv.pc \in {"hello", "ended"} /\ Stimuli = <<>> /\ One(Answers, "ZRPOS")
        /\ Stimuli' = <<>> \/ Stimuli' = F
    <3>1. rcv.pc \in {"hello", "ended"} /\ Stimuli = <<>> /\ One(Answers, "ZRPOS")
      BY <1>4, <1>7, <2>0 DEF SenderDoomed
    <3> QED  BY <1>2, <1>3, <3>1, Words
  <2>2. Inviting(Stimuli')
    BY <1>2, <2>1, Written
  <2>3. SenderDoomed'
    BY <1>3, <1>4, <2>1, <2>2, Shorter DEF SenderDoomed, Inviting
  <2>4. Copies'
    BY <1>3, <1>4, <2>1, SenderKeepsCopies DEF Copies, Writing
  <2> QED  BY <1>3, <1>7, <2>3, <2>4 DEF Intact, Phases
<1> QED  BY <1>3, <1>5, <1>6, <1>7 DEF Phases

LEMMA FlowMore ==
  ASSUME NEW f \in Files, NEW w \in Seq(Frames), NEW n \in Nat, Flow(w, f, n),
         n + Len(w) <= Len(Content[f])
  PROVE  LET F == Streamed(f, n + Len(w)) IN
         /\ Flow(w \o F, f, n) /\ Inviting(F) /\ F \in Seq(Frames) /\ Lacks(F, {"CAN"}) /\ F # <<>>
         /\ Len(F) = IF n + Len(w) < Len(Content[f]) THEN 1 ELSE 2
<1> DEFINE m == n + Len(w)
           F == Streamed(f, m)
           L == Len(Content[f])
           v == w \o F
<1>1. Content[f] \in Seq(Unit) /\ L \in Nat /\ m \in Nat /\ Len(w) \in Nat
  BY ZFilesAssumption
<1>2. F \in Seq(Frames)
  BY <1>1, StreamedTypes
<1>5. /\ Len(F) = IF m < L THEN 1 ELSE 2
      /\ Inviting(F) /\ Lacks(F, {"CAN"})
      /\ \A i \in 1..Len(F) : F[i] = Part(f, m + i)
  <2>1. CASE m < L
    <3>1. F = <<Chunk(Content[f][m + 1])>> /\ Part(f, m + 1) = Chunk(Content[f][m + 1])
      BY <1>1, <2>1 DEF Streamed, Part
    <3>2. Len(F) = 1 /\ F[1] = Part(f, m + 1) /\ F[1].kind = "chunk"
      BY <3>1 DEF Chunk
    <3> QED  BY <2>1, <3>2 DEF Inviting, Invitations, Lacks
  <2>2. CASE ~(m < L)
    <3>0. m = L
      BY <1>1, <2>2
    <3>1. F = <<Frame("end"), Frame("ZEOF")>>
      BY <2>2 DEF Streamed
    <3>2. Part(f, m + 1) = Frame("end") /\ Part(f, m + 2) = Frame("ZEOF")
      BY <1>1, <3>0 DEF Part
    <3>3. Len(F) = 2 /\ F[1] = Part(f, m + 1) /\ F[2] = Part(f, m + 2)
          /\ F[1].kind = "end" /\ F[2].kind = "ZEOF"
      BY <3>1, <3>2 DEF Frame
    <3> QED  BY <2>2, <3>3 DEF Inviting, Invitations, Lacks
  <2> QED  BY <2>1, <2>2
<1> HIDE DEF F
<1>6. v \in Seq(Frames) /\ Len(v) = Len(w) + Len(F) /\ Len(F) \in Nat
      /\ (\A i \in 1..Len(w) : v[i] = w[i])
      /\ (\A i \in 1..Len(v) : i \notin 1..Len(w) => i - Len(w) \in 1..Len(F) /\ v[i] = F[i - Len(w)])
  BY <1>2, ConcatProperties
<1> HIDE DEF v
<1>7. \A i \in 1..Len(v) : v[i] = Part(f, n + i)
  <2> TAKE i \in 1..Len(v)
  <2>1. CASE i \in 1..Len(w)
    BY <1>6, <2>1 DEF Flow
  <2>2. CASE i \notin 1..Len(w)
    <3>1. v[i] = F[i - Len(w)] /\ i - Len(w) \in 1..Len(F)
      BY <1>6, <2>2
    <3>2. F[i - Len(w)] = Part(f, m + (i - Len(w)))
      BY <1>5, <3>1
    <3>3. m + (i - Len(w)) = n + i
      BY <1>1
    <3> QED  BY <3>1, <3>2, <3>3
  <2> QED  BY <2>1, <2>2
<1>8. n + Len(v) <= L + 2
  BY <1>1, <1>5, <1>6
<1>9. Flow(v, f, n)
  BY <1>7, <1>8 DEF Flow
<1>10. F # <<>>
  BY <1>2, <1>5
<1> QED  BY <1>2, <1>5, <1>9, <1>10 DEF v, F

\* The first frame stays the first.
LEMMA FirstStays ==
  ASSUME NEW w \in Seq(Frames), w # <<>>, NEW F \in Seq(Frames)
  PROVE  /\ (w \o F) # <<>> /\ (w \o F)[1] = w[1] /\ Tail(w \o F) = Tail(w) \o F
         /\ Len(w \o F) = Len(w) + Len(F)
<1> DEFINE v == w \o F
           t == Tail(w)
           x == Tail(v)
           y == t \o F
<1>1. v \in Seq(Frames) /\ Len(v) = Len(w) + Len(F) /\ Len(F) \in Nat /\ Len(w) \in Nat \ {0}
      /\ (\A i \in 1..Len(w) : v[i] = w[i])
      /\ (\A i \in 1..Len(v) : i \notin 1..Len(w) => i - Len(w) \in 1..Len(F) /\ v[i] = F[i - Len(w)])
  BY ConcatProperties, Words
<1>2. t \in Seq(Frames) /\ Len(t) = Len(w) - 1 /\ \A i \in 1..Len(t) : t[i] = w[i + 1]
  BY Words
<1> HIDE DEF v, t
<1>3. v # <<>>
  BY <1>1
<1>4. x \in Seq(Frames) /\ Len(x) = Len(v) - 1 /\ \A i \in 1..Len(x) : x[i] = v[i + 1]
  BY <1>1, <1>3, Words
<1>5. y \in Seq(Frames) /\ Len(y) = Len(t) + Len(F)
      /\ (\A i \in 1..Len(t) : y[i] = t[i])
      /\ (\A i \in 1..Len(y) : i \notin 1..Len(t) => i - Len(t) \in 1..Len(F) /\ y[i] = F[i - Len(t)])
  <2>1. Len(t) \in Nat /\ Len(F) \in Nat
    BY <1>1, <1>2
  <2>2. /\ y \in Seq(Frames) /\ Len(y) = Len(t) + Len(F)
        /\ \A i \in 1..(Len(t) + Len(F)) :
              y[i] = IF i <= Len(t) THEN t[i] ELSE F[i - Len(t)]
    BY <1>2, ConcatProperties
  <2> HIDE DEF y
  <2> QED  BY <2>1, <2>2
<1> HIDE DEF x, y
<1>6. Len(x) = Len(y)
  BY <1>1, <1>2, <1>4, <1>5
<1>7. \A i \in 1..Len(x) : x[i] = y[i]
  <2> TAKE i \in 1..Len(x)
  <2>1. x[i] = v[i + 1] /\ i + 1 \in 1..Len(v) /\ i \in 1..Len(y)
    BY <1>1, <1>4, <1>6
  <2>2. CASE i \in 1..Len(t)
    <3>1. i + 1 \in 1..Len(w)
      BY <1>1, <1>2, <2>2
    <3> QED  BY <1>1, <1>2, <1>5, <2>1, <2>2, <3>1
  <2>3. CASE i \notin 1..Len(t)
    <3>1. i + 1 \notin 1..Len(w) /\ i + 1 - Len(w) = i - Len(t) /\ (i + 1) - Len(w) = i - Len(t)
      BY <1>1, <1>2, <2>3
    <3> QED  BY <1>1, <1>5, <2>1, <2>3, <3>1
  <2> QED  BY <2>2, <2>3
<1>8. x = y
  BY <1>4, <1>5, <1>6, <1>7, SeqEqual
<1>9. 1 \in 1..Len(w)
  BY <1>1
<1> QED  BY <1>1, <1>3, <1>8, <1>9 DEF v, t, x, y

LEMMA StreamIntact ==
  ASSUME TypeOK, Drained, Intact, Stream, SenderOnly
  PROVE  Intact'
<1> DEFINE f == Offered
           m == snd.pos
           F == Streamed(f, m)
           L == Len(Content[f])
           n == Len(disk[rcv.file])
<1>1. /\ f \in Files /\ m \in Nat /\ Content[f] \in Seq(Unit) /\ L \in Nat
      /\ snd.pc = "stream" /\ Pass("S", 0, F)
  <2>1. snd.queue \in Seq(Files) /\ snd.queue # <<>> /\ m \in Nat
    BY DEF TypeOK, Senders, Stream
  <2> QED  BY <2>1, ZFilesAssumption DEF Stream, Offered
<1>2. /\ F \in Seq(Frames) /\ F # <<>> /\ Inviting(F) /\ Lacks(F, {"CAN"})
  <2>1. F \in Seq(Frames)
    BY <1>1, StreamedTypes
  <2>2. CASE m < L
    <3>1. F = <<Chunk(Content[f][m + 1])>>
      BY <2>2 DEF Streamed
    <3> QED  BY <2>1, <3>1 DEF Inviting, Invitations, Lacks, Chunk
  <2>3. CASE ~(m < L)
    <3>1. F = <<Frame("end"), Frame("ZEOF")>>
      BY <2>3 DEF Streamed
    <3> QED  BY <2>1, <3>1 DEF Inviting, Invitations, Lacks, Frame
  <2> QED  BY <2>2, <2>3
<1>3. /\ rcv' = rcv /\ counted' = counted /\ disk' = disk /\ reported' = reported /\ Offered' = f
      /\ m < L => snd'.pc = "stream" /\ snd'.pos = m + 1
      /\ ~(m < L) => snd'.pc = "eof"
  BY DEF Stream, SenderOnly, TypeOK, Senders, Offered
<1>4. /\ Answers \in Seq(Frames) /\ Stimuli \in Seq(Frames) /\ Phases /\ Copies
      /\ HasCut' /\ (SDoomed' <=> SDoomed) /\ (RDoomed' <=> RDoomed) /\ Answers' = Answers
      /\ Stimuli' = IF rcv.pc = "ended" \/ RDoomed THEN Stimuli ELSE Stimuli \o F
  <2> HIDE DEF F
  <2> QED  BY <1>1, <1>2, SenderWrites
<1> HIDE DEF f, m, F, L, n
<1>5. CASE ~SDoomed /\ ~RDoomed /\ InStep
  <2>1. Sending(Answers, Stimuli)
    BY <1>1, <1>5 DEF InStep, GreetingEach, Proposing, Parting
  <2>2. /\ Writing /\ rcv.file = f /\ Answers = <<>> /\ m <= L /\ Stimuli' = Stimuli \o F
        /\ \/ rcv.pc = "file" /\ Stimuli # <<>> /\ Stimuli[1].kind = "ZDATA" /\ m = n + (Len(Stimuli) - 1)
           \/ rcv.pc = "data" /\ m = n + Len(Stimuli)
    BY <1>1, <1>4, <1>5, <2>1 DEF Sending, SentTo, Writing, f, m, n, L
  <2>3. n \in Nat /\ n <= L
    BY <1>4, <2>2, WritingFront DEF n, L
  <2>4. CASE rcv.pc = "data"
    <3>1. Flow(Stimuli, f, n) /\ rcv.file \notin counted /\ ~rcv.torn /\ m = n + Len(Stimuli)
      BY <1>4, <2>2, <2>4 DEF Copies, Coherent, n
    <3>2. F = Streamed(f, n + Len(Stimuli)) /\ n + Len(Stimuli) <= Len(Content[f])
      BY <2>2, <3>1 DEF F, L
    <3>3. Flow(Stimuli', f, n) /\ Len(F) = IF m < L THEN 1 ELSE 2
      BY <1>1, <1>4, <2>2, <2>3, <3>1, <3>2, FlowMore DEF L
    <3>4. Len(Stimuli') = Len(Stimuli) + Len(F) /\ Len(Stimuli) \in Nat
      BY <1>2, <1>4, <2>2
    <3>5. SentTo(n + Len(Stimuli))'
      <4>1. CASE m < L
        <5>1. n + Len(Stimuli') = m + 1 /\ m + 1 <= L
          BY <1>1, <2>3, <3>1, <3>3, <3>4, <4>1
        <5> QED  BY <1>3, <4>1, <5>1 DEF SentTo, n, f, L
      <4>2. CASE ~(m < L)
        <5>1. n + Len(Stimuli') = L + 2
          BY <1>1, <2>2, <2>3, <3>1, <3>3, <3>4, <4>2
        <5> QED  BY <1>3, <4>2, <5>1 DEF SentTo, n, f, L
      <4> QED  BY <4>1, <4>2
    <3>6. Sending(Answers, Stimuli)'
      BY <1>3, <1>4, <2>2, <2>4, <3>5 DEF Sending, n
    <3>7. Coherent'
      BY <1>3, <2>2, <2>4, <3>1, <3>3 DEF Coherent, n
    <3>8. Copies'
      BY <1>3, <1>4, <3>7 DEF Copies, Fronts, CountedIsWhole
    <3> QED  BY <1>4, <1>5, <3>6, <3>8 DEF Intact, Phases, InStep
  <2>5. CASE rcv.pc = "file"
    <3> DEFINE t == Tail(Stimuli)
    <3>1. /\ Flow(t, f, n) /\ rcv.file \notin counted /\ t \in Seq(Frames)
          /\ Len(t) = Len(Stimuli) - 1 /\ Len(Stimuli) \in Nat /\ m = n + Len(t)
          /\ Stimuli # <<>> /\ Stimuli[1].kind = "ZDATA"
      <4>1. Stimuli # <<>> /\ Stimuli[1].kind = "ZDATA" /\ m = n + (Len(Stimuli) - 1)
        BY <2>2, <2>5
      <4>2. t \in Seq(Frames) /\ Len(t) = Len(Stimuli) - 1 /\ Len(Stimuli) \in Nat
        BY <1>4, <4>1, Words
      <4>3. Flow(t, f, n) /\ rcv.file \notin counted
        BY <1>4, <2>2, <2>5, <4>1 DEF Copies, Coherent, n, One
      <4> QED  BY <4>1, <4>2, <4>3
    <3>2. /\ Stimuli' # <<>> /\ Stimuli'[1].kind = "ZDATA" /\ Tail(Stimuli') = t \o F
          /\ Len(Stimuli') = Len(Stimuli) + Len(F)
      <4>1. /\ (Stimuli \o F) # <<>> /\ (Stimuli \o F)[1] = Stimuli[1]
            /\ Tail(Stimuli \o F) = Tail(Stimuli) \o F /\ Len(Stimuli \o F) = Len(Stimuli) + Len(F)
        BY <1>2, <1>4, <3>1, FirstStays
      <4> QED  BY <2>2, <3>1, <4>1
    <3> HIDE DEF t
    <3>3. F = Streamed(f, n + Len(t)) /\ n + Len(t) <= Len(Content[f])
      BY <2>2, <3>1 DEF F, L
    <3>4. Flow(t \o F, f, n) /\ Len(F) = IF m < L THEN 1 ELSE 2
      BY <1>1, <2>2, <2>3, <3>1, <3>3, FlowMore DEF L
    <3>5. SentTo(n + (Len(Stimuli) - 1))'
      <4>1. CASE m < L
        <5>1. n + (Len(Stimuli') - 1) = m + 1 /\ m + 1 <= L
          BY <1>1, <2>3, <3>1, <3>2, <3>4, <4>1
        <5> QED  BY <1>3, <4>1, <5>1 DEF SentTo, n, f, L
      <4>2. CASE ~(m < L)
        <5>1. n + (Len(Stimuli') - 1) = L + 2
          BY <1>1, <2>2, <2>3, <3>1, <3>2, <3>4, <4>2
        <5> QED  BY <1>3, <4>2, <5>1 DEF SentTo, n, f, L
      <4> QED  BY <4>1, <4>2
    <3>6. Sending(Answers, Stimuli)'
      BY <1>3, <1>4, <2>2, <2>5, <3>2, <3>5 DEF Sending, n
    <3>7. Coherent'
      BY <1>3, <2>2, <2>5, <3>1, <3>2, <3>4 DEF Coherent, n
    <3>8. Copies'
      BY <1>3, <1>4, <3>7 DEF Copies, Fronts, CountedIsWhole
    <3> QED  BY <1>4, <1>5, <3>6, <3>8 DEF Intact, Phases, InStep
  <2> QED  BY <2>2, <2>4, <2>5
<1>6. CASE ~SDoomed /\ RDoomed /\ ReceiverDoomed
  BY <1>1, <1>6 DEF ReceiverDoomed
<1>7. CASE SDoomed /\ ~RDoomed /\ SenderDoomed
  <2>1. Answers = <<>> /\ rcv.pc \in {"hello", "loop", "ended"} /\ Inviting(Stimuli)
    BY <1>1, <1>7 DEF SenderDoomed
  <2>2. Inviting(Stimuli')
    BY <1>2, <1>4, <2>1, Longer
  <2>3. SenderDoomed'
    BY <1>3, <1>4, <2>1, <2>2 DEF SenderDoomed
  <2>4. Copies'
    BY <1>3, <1>4, <2>1, SenderKeepsCopies DEF Copies, Writing
  <2> QED  BY <1>4, <1>7, <2>3, <2>4 DEF Intact, Phases
<1> QED  BY <1>4, <1>5, <1>6, <1>7 DEF Phases

\* What the sender passes over.
LEMMA SIgnoresIntact ==
  ASSUME TypeOK, Drained, Intact, SIgnores, SenderOnly
  PROVE  Intact'
<1>1. /\ Answers \in Seq(Frames) /\ Stimuli \in Seq(Frames) /\ Phases /\ Copies
      /\ HasCut' /\ (SDoomed' <=> SDoomed) /\ (RDoomed' <=> RDoomed)
      /\ Answers # <<>> /\ Answers[1].kind = Coming("S") /\ Answers' = Tail(Answers)
      /\ Stimuli' = Stimuli
  <2>1. Pass("S", 1, <<>>) /\ <<>> \in Seq(Frames) /\ Lacks(<<>>, {"CAN"})
    BY Writes, Written DEF SIgnores
  <2>2. Coming("S") \notin {"nothing", "CAN"}
    <3>1. Coming("S") = Head(wire["S"]).kind /\ wire["S"] # <<>> /\ wire["S"] \in Seq(Frames)
      BY DEF SIgnores, Coming, TypeOK, Sides
    <3> QED  BY <3>1, FrameFields DEF SIgnores, Plain, Spoiled
  <2> QED  BY <2>1, <2>2, SenderReads, Words
<1>2. /\ snd' = snd /\ rcv' = rcv /\ counted' = counted /\ reported' = reported /\ disk' = disk
      /\ snd.pc \in {"rinit", "rpos", "eof", "fin"} /\ Coming("S") # AwaitedBy(snd.pc)
  BY DEF SIgnores, SenderOnly, SWaits
<1>3. Copies'
  BY <1>1, <1>2, SenderKeepsCopies DEF Copies
<1>4. CASE ~SDoomed /\ ~RDoomed /\ InStep
  <2>1. /\ Between /\ Stimuli = <<>>
        /\ \/ snd.pc = "rinit" /\ Two(Answers, "ZCOMPL", "ZRINIT")
           \/ snd.pc = "rpos" /\ Greeting(Answers)
    BY <1>1, <1>2, <1>4 DEF InStep, GreetingEach, Proposing, Sending, SentTo, Parting, AwaitedBy, One
  <2>2. GreetingEach(Answers, Stimuli)' \/ Proposing(Answers, Stimuli)'
    BY <1>1, <1>2, <2>1, Shorter DEF GreetingEach, Proposing, Between
  <2> QED  BY <1>1, <1>3, <1>4, <2>2 DEF Intact, Phases, InStep
<1>5. CASE ~SDoomed /\ RDoomed /\ ReceiverDoomed
  BY <1>1, <1>2, <1>3, <1>5, Shorter, Written DEF Intact, Phases, ReceiverDoomed, Between, Writing
<1>6. CASE SDoomed /\ ~RDoomed /\ SenderDoomed
  BY <1>1, <1>2, <1>3, <1>6, Shorter, Written DEF Intact, Phases, SenderDoomed, Offered, Answered
<1> QED  BY <1>1, <1>4, <1>5, <1>6 DEF Phases

\* The sender ends and says so by nothing, "OO" or CAN.
LEMMA SilenceIntact ==
  ASSUME TypeOK, Intact, NEW p \in Sides, TimesOut(p), faults = 0, faults' = 0
  PROVE  /\ Answers = <<>> /\ Stimuli = <<>> /\ ~SDoomed /\ ~RDoomed /\ InStep
         /\ p = "R" => snd.pc \in {"rinit", "rpos", "eof", "fin", "ended"}
<1>1. wire \in Lines /\ HasCut /\ Phases
  BY DEF TypeOK, Intact, Lines
<1>2. /\ Answers = <<>> /\ Stimuli = <<>> /\ ~SDoomed /\ ~RDoomed
      /\ p = "R" => SWaits \/ snd.pc = "ended"
  BY <1>1, Silence
<1> QED  BY <1>1, <1>2 DEF Phases, SWaits

LEMMA SignOffIntact ==
  ASSUME TypeOK, Drained, Intact, SignOff, SenderOnly, faults = 0, faults' = 0
  PROVE  Intact'
<1> DEFINE F == <<Frame("OO")>>
<1>1. wire \in Lines /\ HasCut /\ Phases /\ Copies /\ Answers \in Seq(Frames) /\ Stimuli \in Seq(Frames)
  BY Voices DEF TypeOK, Intact, Lines
<1>2. F \in Seq(Frames) /\ Lacks(F, {"CAN"}) /\ One(F, "OO") /\ Quit("S", F)
  BY Writes, Written DEF Plain, SignOff, SEnds
<1> HIDE DEF F
<1>3. /\ HasCut' /\ ~SDoomed' /\ (RDoomed' <=> RDoomed) /\ Answers' = <<>>
      /\ Stimuli' = IF rcv.pc = "ended" \/ RDoomed THEN Stimuli ELSE Stimuli \o F
  BY <1>1, <1>2, SenderQuits
<1>4. /\ snd.pc = "fin" /\ snd'.pc = "ended" /\ rcv' = rcv /\ counted' = counted /\ disk' = disk
      /\ reported' = reported
  BY DEF SignOff, SReads, SEnds, StoppedSender, SenderOnly
<1>5. Answers # <<>> /\ Answers[1].kind = "ZFIN"
  <2>1. CASE TimesOut("S")
    <3>1. Answers = <<>> /\ Stimuli = <<>> /\ InStep
      BY <2>1, SilenceIntact DEF Sides
    <3> QED  BY <1>4, <3>1, Words DEF InStep, GreetingEach, Proposing, Sending, SentTo, Parting, One
  <2>2. CASE Coming("S") = "ZFIN"
    BY <2>2, NextFrame
  <2> QED  BY <2>1, <2>2 DEF SignOff, SReads
<1>6. ~RDoomed
  BY <1>1, <1>4, <1>5 DEF Phases, ReceiverDoomed, Greeting
<1>7. rcv.pc \in {"over", "hello", "ended"} /\ Stimuli = <<>>
  <2>1. ~Greeting(Answers) /\ ~One(Answers, "ZRPOS")
    BY <1>1, <1>5 DEF Greeting, One
  <2> QED  BY <1>1, <1>4, <1>5, <1>6, <2>1 DEF Phases, InStep, GreetingEach, Proposing, Sending, SentTo,
                                          Parting, SenderDoomed
<1>8. Copies'
  BY <1>1, <1>4, <1>7, SenderKeepsCopies DEF Copies, Writing
<1>9. rcv.pc # "ended" => Stimuli' = F
  BY <1>2, <1>3, <1>6, <1>7, Words
<1>10. GreetingEach(Answers, Stimuli)' \/ Parting(Answers, Stimuli)'
  BY <1>2, <1>3, <1>4, <1>7, <1>9 DEF GreetingEach, Parting, Between
<1> QED  BY <1>3, <1>6, <1>8, <1>10 DEF Intact, Phases, InStep

LEMMA GiveUpIntact ==
  ASSUME TypeOK, Drained, Intact, GiveUp, SenderOnly, faults = 0, faults' = 0
  PROVE  Intact'
<1>1. wire \in Lines /\ HasCut /\ Phases /\ Copies
  BY DEF TypeOK, Intact, Lines
<1>2. <<>> \in Seq(Frames) /\ Lacks(<<>>, {"CAN"}) /\ Quit("S", <<>>)
  BY Writes, Written DEF GiveUp, SEnds
<1>3. /\ HasCut' /\ ~SDoomed' /\ (RDoomed' <=> RDoomed) /\ Answers' = <<>>
      /\ Stimuli' = IF rcv.pc = "ended" \/ RDoomed THEN Stimuli ELSE Stimuli \o <<>>
  BY <1>1, <1>2, SenderQuits
<1>4. /\ snd.pc \in {"rinit", "rpos", "eof"} /\ snd'.pc = "ended" /\ rcv' = rcv /\ counted' = counted
      /\ disk' = disk /\ reported' = reported
  BY DEF GiveUp, SEnds, StoppedSender, SenderOnly
<1>5. Answers = <<>> /\ Stimuli = <<>> /\ ~RDoomed /\ InStep
  BY SilenceIntact DEF Sides, GiveUp
<1>6. Between \/ rcv.pc = "ended"
  <2>1. CASE snd.pc = "rinit"
    BY <1>4, <1>5, <2>1, Words DEF InStep, GreetingEach, Proposing, Sending, SentTo, Parting, Two
  <2>2. CASE snd.pc = "rpos"
    BY <1>4, <1>5, <2>2, Words DEF InStep, GreetingEach, Proposing, Sending, SentTo, Parting, One
  <2>3. CASE snd.pc = "eof"
    <3>1. rcv.pc = "data" /\ rcv.file = Offered
          /\ Len(disk[rcv.file]) + Len(Stimuli) = Len(Content[Offered]) + 2
      BY <1>4, <1>5, <2>3, Words DEF InStep, GreetingEach, Proposing, Sending, SentTo, Parting, One
    <3>2. Len(disk[rcv.file]) \in Nat /\ Len(disk[rcv.file]) <= Len(Content[rcv.file])
          /\ Len(Content[rcv.file]) \in Nat
      BY <1>1, <3>1, WritingFront DEF Writing
    <3>3. Len(Stimuli) = 0
      BY <1>5
    <3> QED  BY <3>1, <3>2, <3>3
  <2> QED  BY <1>4, <2>1, <2>2, <2>3
<1>7. Stimuli' = <<>>
  BY <1>2, <1>3, <1>5, Words
<1>8. Copies'
  BY <1>1, <1>4, <1>6, SenderKeepsCopies DEF Copies, Writing, Between
<1>9. GreetingEach(Answers, Stimuli)'
  BY <1>3, <1>4, <1>6, <1>7 DEF GreetingEach, Between
<1> QED  BY <1>3, <1>5, <1>8, <1>9 DEF Intact, Phases, InStep

\* No program writes what the sender stumbles over.
LEMMA SRaisesNot ==
  ASSUME TypeOK, Intact, SRaises
  PROVE  FALSE
<1>1. Phases /\ Answers # <<>> /\ Answers[1].kind = "badhex" /\ Answers \in Seq(Frames)
      /\ snd.pc \in {"rinit", "rpos", "eof", "fin"}
  BY NextFrame, Voices DEF Intact, SRaises, SWaits, TypeOK, Lines
<1>2. ~Greeting(Answers) /\ (\A k : One(Answers, k) => k = "badhex")
      /\ (\A k, l : Two(Answers, k, l) => k = "badhex")
  BY <1>1 DEF Greeting, One, Two
<1>3. ~InStep
  BY <1>1, <1>2 DEF InStep, GreetingEach, Proposing, Sending, Parting
<1> QED  BY <1>1, <1>2, <1>3 DEF Phases, ReceiverDoomed, SenderDoomed

\* The sender is cancelled, by its user or by the receiver.
LEMMA SenderCancelledIntact ==
  ASSUME TypeOK, Drained, Intact, Quit("S", <<Frame("CAN")>>), snd.pc # "ended", snd'.pc = "ended",
         rcv' = rcv, disk' = disk, counted' = counted, reported' = reported
  PROVE  Intact'
<1>1. wire \in Lines /\ HasCut /\ Phases /\ Copies /\ Answers \in Seq(Frames) /\ Stimuli \in Seq(Frames)
  BY Voices DEF TypeOK, Intact, Lines
<1>2. /\ HasCut' /\ ~SDoomed' /\ (RDoomed' <=> rcv.pc # "ended") /\ Answers' = <<>> /\ Stimuli' = Stimuli
  BY <1>1, SenderCancels
<1>3. Copies'
  BY <1>1, <1>2, ReceiverRests DEF Copies
<1>4. CASE rcv.pc = "ended"
  BY <1>2, <1>3, <1>4 DEF Intact, Phases, InStep, GreetingEach
<1>5. CASE rcv.pc # "ended"
  <2>1. CASE InStep
    <3>5. ReceiverDoomed'
      <4>1. CASE GreetingEach(Answers, Stimuli)
        <5>1. Between /\ Inviting(Stimuli)
          BY <1>5, <4>1, Written DEF GreetingEach, One, Two, Inviting, Invitations
        <5> QED  BY <1>2, <5>1, Written DEF ReceiverDoomed, Between
      <4>2. CASE Proposing(Answers, Stimuli)
        BY <1>1, <1>2, <1>5, <4>2, Written DEF Proposing, ReceiverDoomed, Between
      <4>3. CASE Sending(Answers, Stimuli)
        BY <1>1, <1>2, <1>5, <4>3, Written DEF Sending, ReceiverDoomed, Between, Writing
      <4>4. CASE Parting(Answers, Stimuli)
        <5>1. (Between /\ One(Stimuli, "ZFIN")) \/ (rcv.pc = "over" /\ Inviting(Stimuli))
          BY <4>4, Written DEF Parting, One, Two, Inviting, Invitations
        <5> QED  BY <1>2, <5>1 DEF ReceiverDoomed, Between
      <4> QED  BY <2>1, <4>1, <4>2, <4>3, <4>4 DEF InStep
    <3> QED  BY <1>2, <1>3, <1>5, <3>5 DEF Intact, Phases
  <2>2. CASE ReceiverDoomed
    <3>1. ReceiverDoomed'
      BY <1>1, <1>2, <1>5, <2>2, Written DEF ReceiverDoomed, Between, Writing
    <3> QED  BY <1>2, <1>3, <1>5, <3>1 DEF Intact, Phases
  <2>3. CASE SenderDoomed
    <3>1. ReceiverDoomed'
      BY <1>1, <1>2, <1>5, <2>3, Written DEF SenderDoomed, ReceiverDoomed, Between, Writing
    <3> QED  BY <1>2, <1>3, <1>5, <3>1 DEF Intact, Phases
  <2> QED  BY <1>1, <2>1, <2>2, <2>3 DEF Phases
<1> QED  BY <1>4, <1>5

\* The sender is started.
LEMMA LaunchSenderIntact ==
  ASSUME TypeOK, Drained, Intact, Launch("S")
  PROVE  Intact'
<1> DEFINE F == <<Frame("ZRQINIT")>>
<1>1. F \in Seq(Frames) /\ Lacks(F, {"CAN"}) /\ One(F, "ZRQINIT") /\ Inviting(F) /\ Pass("S", 0, F)
  BY Writes, Written DEF Plain, Launch, Inviting, Invitations, Frame
<1> HIDE DEF F
<1>2. /\ Answers \in Seq(Frames) /\ Stimuli \in Seq(Frames) /\ Phases /\ Copies
      /\ HasCut' /\ (SDoomed' <=> SDoomed) /\ (RDoomed' <=> RDoomed)
      /\ Answers' = Answers
      /\ Stimuli' = IF rcv.pc = "ended" \/ RDoomed THEN Stimuli ELSE Stimuli \o F
  BY <1>1, SenderWrites
<1>3. /\ snd.pc = "ended" /\ snd'.pc = "rinit" /\ rcv' = rcv /\ counted' = counted /\ disk' = disk
      /\ reported' = reported
  BY DEF Launch, Stopped
<1>4. ~SDoomed /\ Answers = <<>>
  BY <1>3, HeedsNothing DEF Drained, Sides, Stopped, SDoomed, Answers
<1>5. Writing => Stimuli' = Stimuli
  BY <1>2, <1>3, <1>4 DEF Phases, InStep, GreetingEach, Proposing, Sending, SentTo, Parting,
                          Between, Writing
<1>6. Copies'
  BY <1>2, <1>3, <1>5, ReceiverRests DEF Copies
<1>7. CASE ~RDoomed /\ InStep
  <2>1. \/ rcv.pc = "ended"
        \/ (Between \/ rcv.pc = "over") /\ One(Stimuli, "OO") /\ Stimuli' = Stimuli \o F
        \/ Between /\ Stimuli = <<>> /\ Stimuli' = F
    BY <1>1, <1>2, <1>3, <1>7, Words DEF InStep, GreetingEach, Proposing, Sending, SentTo, Parting, Between
  <2>2. One(Stimuli, "OO") => Two(Stimuli \o F, "OO", "ZRQINIT")
    BY <1>1, <1>2, Longer
  <2>3. GreetingEach(Answers, Stimuli)' \/ Parting(Answers, Stimuli)'
    BY <1>1, <1>2, <1>3, <1>4, <2>1, <2>2 DEF GreetingEach, Parting, Between
  <2> QED  BY <1>2, <1>4, <1>6, <1>7, <2>3 DEF Intact, Phases, InStep
<1>8. CASE RDoomed /\ ReceiverDoomed
  <2>1. ReceiverDoomed'
    BY <1>2, <1>3, <1>4, <1>8 DEF ReceiverDoomed, Between, Writing
  <2> QED  BY <1>2, <1>4, <1>6, <1>8, <2>1 DEF Intact, Phases
<1> QED  BY <1>2, <1>4, <1>7, <1>8 DEF Phases

LEMMA SenderIntact ==
  ASSUME TypeOK, Drained, Intact, SenderStep, faults = 0, faults' = 0
  PROVE  Intact'
<1>0. SenderOnly
  BY DEF SenderStep
<1>1. CASE Greeted
  BY <1>0, <1>1, GreetedIntact
<1>2. CASE SkipFile
  BY <1>0, <1>2, SkipFileIntact
<1>3. CASE Offer
  BY <1>0, <1>3, OfferIntact
<1>4. CASE Positioned
  BY <1>0, <1>4, PositionedIntact
<1>5. CASE Stream
  BY <1>0, <1>5, StreamIntact
<1>6. CASE Completed
  BY <1>0, <1>6, CompletedIntact
<1>7. CASE AllOffered
  BY <1>0, <1>7, AllOfferedIntact
<1>8. CASE SignOff
  BY <1>0, <1>8, SignOffIntact
<1>9. CASE GiveUp
  BY <1>0, <1>9, GiveUpIntact
<1>10. CASE SIgnores
  BY <1>0, <1>10, SIgnoresIntact
<1>11. CASE SCancelled
  <2>1. /\ Quit("S", <<Frame("CAN")>>) /\ snd.pc # "ended" /\ snd'.pc = "ended"
        /\ rcv' = rcv /\ disk' = disk /\ counted' = counted /\ reported' = reported
    BY <1>0, <1>11 DEF SCancelled, SEnds, SWaits, StoppedSender, SenderOnly
  <2> QED  BY <2>1, SenderCancelledIntact
<1>12. CASE SRaises
  BY <1>12, SRaisesNot
<1> QED  BY <1>1, <1>2, <1>3, <1>4, <1>5, <1>6, <1>7, <1>8, <1>9, <1>10, <1>11, <1>12 DEF SenderStep

\* The line, when the receiver reads a frame, and when it only writes.
LEMMA ReceiverReads ==
  ASSUME TypeOK, Drained, Intact, NEW F \in Seq(Frames), Lacks(F, {"CAN"}), Pass("R", 1, F),
         Coming("R") \notin {"nothing", "CAN"}
  PROVE  /\ Answers \in Seq(Frames) /\ Stimuli \in Seq(Frames) /\ Phases /\ Copies
         /\ HasCut' /\ (SDoomed' <=> SDoomed) /\ (RDoomed' <=> RDoomed)
         /\ Stimuli # <<>> /\ Stimuli[1] = Head(wire["R"]) /\ Stimuli[1].kind = Coming("R")
         /\ Stimuli' = Tail(Stimuli)
         /\ Answers' = IF snd.pc = "ended" \/ SDoomed THEN Answers ELSE Answers \o F
<1>1. wire \in Lines /\ HasCut /\ Phases /\ Copies /\ 1 \in {0, 1}
  BY DEF TypeOK, Lines, Intact
<1>2. /\ HasCut' /\ (SDoomed' <=> SDoomed) /\ (RDoomed' <=> RDoomed)
      /\ Stimuli # <<>> /\ Stimuli[1] = Head(wire["R"]) /\ Stimuli' = Tail(Stimuli)
      /\ Answers' = IF snd.pc = "ended" \/ SDoomed THEN Answers ELSE Answers \o F
  BY <1>1, ReceiverPasses
<1>3. Coming("R") = Head(wire["R"]).kind
  BY DEF Coming
<1> QED  BY <1>1, <1>2, <1>3, Voices

LEMMA ReceiverWrites ==
  ASSUME TypeOK, Drained, Intact, NEW F \in Seq(Frames), Lacks(F, {"CAN"}), Pass("R", 0, F)
  PROVE  /\ Answers \in Seq(Frames) /\ Stimuli \in Seq(Frames) /\ Phases /\ Copies
         /\ HasCut' /\ (SDoomed' <=> SDoomed) /\ (RDoomed' <=> RDoomed)
         /\ Stimuli' = Stimuli
         /\ Answers' = IF snd.pc = "ended" \/ SDoomed THEN Answers ELSE Answers \o F
<1>1. wire \in Lines /\ HasCut /\ Phases /\ Copies /\ 0 \in {0, 1}
  BY DEF TypeOK, Lines, Intact
<1>2. /\ HasCut' /\ (SDoomed' <=> SDoomed) /\ (RDoomed' <=> RDoomed)
      /\ Stimuli' = Stimuli
      /\ Answers' = IF snd.pc = "ended" \/ SDoomed THEN Answers ELSE Answers \o F
  BY <1>1, ReceiverPasses
<1> QED  BY <1>1, <1>2, Voices

\* A receiver that has no file open, before or after.
LEMMA NoFileOpen ==
  ASSUME Copies, disk' = disk, counted' = counted, reported' = reported, ~Writing'
  PROVE  Copies'
BY DEF Copies, Coherent, Fronts, CountedIsWhole

\* The receiver greets again.
LEMMA InviteIntact ==
  ASSUME TypeOK, Drained, Intact, Invite, ReceiverOnly, faults = 0, faults' = 0
  PROVE  Intact'
<1> DEFINE F == <<Frame("ZRINIT")>>
<1>1. F \in Seq(Frames) /\ Lacks(F, {"CAN"}) /\ One(F, "ZRINIT") /\ Greeting(F)
  BY Writes, Written DEF Plain
<1>2. /\ Between /\ rcv' = rcv /\ snd' = snd /\ disk' = disk /\ counted' = counted /\ reported' = reported
      /\ \/ Coming("R") = "ZRQINIT" /\ Pass("R", 1, F)
         \/ TimesOut("R") /\ Pass("R", 0, F)
  BY DEF Invite, RReads, SameFiles, ReceiverOnly, Between
<1> HIDE DEF F
<1>3. CASE Coming("R") = "ZRQINIT" /\ Pass("R", 1, F)
  <2>1. /\ Answers \in Seq(Frames) /\ Stimuli \in Seq(Frames) /\ Phases /\ Copies
        /\ HasCut' /\ (SDoomed' <=> SDoomed) /\ (RDoomed' <=> RDoomed)
        /\ Stimuli # <<>> /\ Stimuli[1].kind = "ZRQINIT" /\ Stimuli' = Tail(Stimuli)
        /\ Answers' = IF snd.pc = "ended" \/ SDoomed THEN Answers ELSE Answers \o F
    BY <1>1, <1>3, ReceiverReads
  <2>2. Copies'
    BY <1>2, <2>1, NoFileOpen DEF Between, Writing
  <2>3. CASE ~SDoomed /\ ~RDoomed /\ InStep
    <3>1. snd.pc = "rinit" /\ Answers = <<>> /\ One(Stimuli, "ZRQINIT")
      BY <1>2, <2>1, <2>3 DEF InStep, GreetingEach, Proposing, Sending, Parting, Between, One, Two
    <3>2. Answers' = F /\ Stimuli' = <<>>
      BY <1>1, <2>1, <2>3, <3>1, Words, Shorter
    <3>3. GreetingEach(Answers, Stimuli)'
      BY <1>1, <1>2, <3>1, <3>2 DEF GreetingEach, Between
    <3> QED  BY <2>1, <2>2, <2>3, <3>3 DEF Intact, Phases, InStep
  <2>4. CASE ~SDoomed /\ RDoomed /\ ReceiverDoomed
    <3>1. /\ snd.pc \in {"ended", "rinit", "next", "rpos", "fin"}
          /\ Inviting(Stimuli) /\ Greeting(Answers)
      BY <1>2, <2>1, <2>4 DEF ReceiverDoomed, Between, Writing, One, Two
    <3>2. Inviting(Stimuli') /\ Greeting(Answers')
      BY <1>1, <2>1, <3>1, Shorter, Longer
    <3>3. ReceiverDoomed'
      BY <1>2, <3>1, <3>2 DEF ReceiverDoomed, Between
    <3> QED  BY <2>1, <2>2, <2>4, <3>3 DEF Intact, Phases
  <2>5. CASE SDoomed /\ ~RDoomed /\ SenderDoomed
    <3>1. snd.pc \in {"stream", "eof"} /\ Answers = <<>> /\ rcv.pc \in {"hello", "loop", "ended"}
          /\ Inviting(Stimuli)
      BY <1>2, <2>1, <2>5 DEF SenderDoomed, Between, One, Two
    <3>2. SenderDoomed'
      BY <1>2, <2>1, <2>5, <3>1, Shorter DEF SenderDoomed
    <3> QED  BY <2>1, <2>2, <2>5, <3>2 DEF Intact, Phases
  <2> QED  BY <2>1, <2>3, <2>4, <2>5 DEF Phases
<1>4. CASE TimesOut("R") /\ Pass("R", 0, F)
  <2>1. /\ Answers \in Seq(Frames) /\ Stimuli \in Seq(Frames) /\ Copies
        /\ HasCut' /\ (SDoomed' <=> SDoomed) /\ (RDoomed' <=> RDoomed) /\ Stimuli' = Stimuli
        /\ Answers' = IF snd.pc = "ended" \/ SDoomed THEN Answers ELSE Answers \o F
    BY <1>1, <1>4, ReceiverWrites
  <2>2. Answers = <<>> /\ Stimuli = <<>> /\ ~SDoomed /\ ~RDoomed /\ InStep
        /\ snd.pc \in {"rinit", "rpos", "eof", "fin", "ended"}
    BY <1>4, SilenceIntact DEF Sides
  <2>3. Copies'
    BY <1>2, <2>1, NoFileOpen DEF Between, Writing
  <2>4. snd.pc \in {"ended", "rinit", "rpos"}
    BY <1>2, <2>2, Words DEF InStep, GreetingEach, Proposing, Sending, Parting, Between, One, Two
  <2>5. Answers' = IF snd.pc = "ended" THEN <<>> ELSE F
    BY <1>1, <2>1, <2>2, Words
  <2>6. GreetingEach(Answers, Stimuli)' \/ Proposing(Answers, Stimuli)'
    BY <1>1, <1>2, <2>1, <2>2, <2>4, <2>5 DEF GreetingEach, Proposing, Between
  <2> QED  BY <2>1, <2>2, <2>3, <2>6 DEF Intact, Phases, InStep
<1> QED  BY <1>2, <1>3, <1>4

LEMMA FileOfferedIntact ==
  ASSUME TypeOK, Drained, Intact, FileOffered, ReceiverOnly
  PROVE  Intact'
<1>1. /\ Answers \in Seq(Frames) /\ Stimuli \in Seq(Frames) /\ Phases /\ Copies
      /\ HasCut' /\ (SDoomed' <=> SDoomed) /\ (RDoomed' <=> RDoomed)
      /\ Stimuli # <<>> /\ Stimuli[1].kind = "ZFILE" /\ Stimuli' = Tail(Stimuli)
      /\ Answers' = Answers
  <2>1. Pass("R", 1, <<>>) /\ Coming("R") = "ZFILE" /\ <<>> \in Seq(Frames) /\ Lacks(<<>>, {"CAN"})
    BY Writes, Written DEF FileOffered, RReads
  <2> QED  BY <2>1, ReceiverReads, Words
<1>2. /\ Between /\ rcv'.pc = "info" /\ ~rcv'.torn /\ snd' = snd /\ disk' = disk /\ counted' = counted
      /\ reported' = reported /\ Offered' = Offered
  BY DEF FileOffered, RReads, SameFiles, ReceiverOnly, Between, TypeOK, Receivers, Offered
<1>3. Copies'
  BY <1>1, <1>2, NoFileOpen DEF Writing
<1>4. ~Inviting(Stimuli)
  BY <1>1 DEF Inviting, Invitations
<1>5. CASE ~SDoomed /\ ~RDoomed /\ InStep
  <2>1. /\ snd.pc = "rpos" /\ Answers = <<>> /\ Two(Stimuli, "ZFILE", "info")
        /\ Stimuli[2].file = Offered /\ Offered \notin reported
    BY <1>1, <1>2, <1>5 DEF InStep, GreetingEach, Proposing, Sending, Parting, Between, One, Two
  <2>2. Proposing(Answers, Stimuli)'
    BY <1>1, <1>2, <2>1, Shorter DEF Proposing
  <2> QED  BY <1>1, <1>3, <1>5, <2>2 DEF Intact, Phases, InStep
<1>6. CASE ~SDoomed /\ RDoomed /\ ReceiverDoomed
  <2>1. /\ snd.pc \in {"ended", "rinit"} /\ Answers = <<>> /\ Two(Stimuli, "ZFILE", "info")
        /\ Stimuli[2].file \notin reported
    BY <1>1, <1>2, <1>4, <1>6 DEF ReceiverDoomed, Between, Writing, One
  <2>2. ReceiverDoomed'
    BY <1>1, <1>2, <2>1, Shorter DEF ReceiverDoomed
  <2> QED  BY <1>1, <1>3, <1>6, <2>2 DEF Intact, Phases
<1>7. CASE SDoomed /\ ~RDoomed /\ SenderDoomed
  <2>1. /\ snd.pc = "rpos" /\ Greeting(Answers) /\ Two(Stimuli, "ZFILE", "info")
        /\ Stimuli[2].file = Offered /\ Offered \notin reported
    BY <1>1, <1>2, <1>4, <1>7 DEF SenderDoomed, Between, One
  <2>2. SenderDoomed'
    BY <1>1, <1>2, <2>1, Shorter DEF SenderDoomed
  <2> QED  BY <1>1, <1>3, <1>7, <2>2 DEF Intact, Phases
<1> QED  BY <1>1, <1>5, <1>6, <1>7 DEF Phases

LEMMA NoOfferIntact ==
  ASSUME TypeOK, Drained, Intact, NoOffer, ReceiverOnly
  PROVE  Intact'
<1> DEFINE F == <<Frame("ZCOMPL"), Frame("ZRINIT")>>
<1>1. F \in Seq(Frames) /\ Lacks(F, {"CAN"}) /\ Two(F, "ZCOMPL", "ZRINIT") /\ Greeting(F)
  BY Writes, Written DEF Plain
<1>2. /\ Between /\ rcv'.pc = "loop" /\ snd' = snd /\ disk' = disk /\ counted' = counted
      /\ reported' = reported /\ Offered' = Offered /\ Pass("R", 1, F)
      /\ Coming("R") \in {"ZDATA", "ZEOF", "ZRQINIT"}
  BY DEF NoOffer, RReads, Goes, SameFiles, ReceiverOnly, Between, TypeOK, Receivers, Offered
<1> HIDE DEF F
<1>3. /\ Answers \in Seq(Frames) /\ Stimuli \in Seq(Frames) /\ Phases /\ Copies
      /\ HasCut' /\ (SDoomed' <=> SDoomed) /\ (RDoomed' <=> RDoomed)
      /\ Stimuli # <<>> /\ Stimuli[1].kind \in {"ZDATA", "ZEOF", "ZRQINIT"} /\ Stimuli' = Tail(Stimuli)
      /\ Answers' = IF snd.pc = "ended" \/ SDoomed THEN Answers ELSE Answers \o F
  BY <1>1, <1>2, ReceiverReads
<1>4. Copies'
  BY <1>2, <1>3, NoFileOpen DEF Writing
<1>5. CASE ~SDoomed /\ ~RDoomed /\ InStep
  <2>1. snd.pc = "rinit" /\ Answers = <<>> /\ One(Stimuli, "ZRQINIT")
    BY <1>2, <1>3, <1>5 DEF InStep, GreetingEach, Proposing, Sending, Parting, Between, One, Two
  <2>2. Answers' = F /\ Stimuli' = <<>>
    BY <1>1, <1>3, <1>5, <2>1, Words, Shorter
  <2>3. GreetingEach(Answers, Stimuli)'
    BY <1>1, <1>2, <2>1, <2>2 DEF GreetingEach, Between
  <2> QED  BY <1>3, <1>4, <1>5, <2>3 DEF Intact, Phases, InStep
<1>6. CASE ~SDoomed /\ RDoomed /\ ReceiverDoomed
  <2>1. /\ snd.pc \in {"ended", "rinit", "next", "rpos", "fin"}
        /\ Inviting(Stimuli) /\ Greeting(Answers)
    BY <1>2, <1>3, <1>6 DEF ReceiverDoomed, Between, Writing, One, Two
  <2>2. Inviting(Stimuli') /\ Greeting(Answers')
    BY <1>1, <1>3, <2>1, Shorter, Longer
  <2>3. ReceiverDoomed'
    BY <1>2, <2>1, <2>2 DEF ReceiverDoomed, Between
  <2> QED  BY <1>3, <1>4, <1>6, <2>3 DEF Intact, Phases
<1>7. CASE SDoomed /\ ~RDoomed /\ SenderDoomed
  <2>1. snd.pc \in {"stream", "eof"} /\ Answers = <<>> /\ Inviting(Stimuli)
    BY <1>2, <1>3, <1>7 DEF SenderDoomed, Between, One, Two
  <2>2. SenderDoomed'
    BY <1>2, <1>3, <1>7, <2>1, Shorter DEF SenderDoomed
  <2> QED  BY <1>3, <1>4, <1>7, <2>2 DEF Intact, Phases
<1> QED  BY <1>3, <1>5, <1>6, <1>7 DEF Phases

LEMMA FinReceivedIntact ==
  ASSUME TypeOK, Drained, Intact, FinReceived, ReceiverOnly
  PROVE  Intact'
<1> DEFINE F == <<Frame("ZFIN")>>
<1>1. F \in Seq(Frames) /\ Lacks(F, {"CAN"}) /\ One(F, "ZFIN")
  BY Writes, Written DEF Plain
<1>2. /\ Between /\ rcv'.pc = "over" /\ snd' = snd /\ disk' = disk /\ counted' = counted
      /\ reported' = reported /\ Offered' = Offered /\ Pass("R", 1, F) /\ Coming("R") = "ZFIN"
  BY DEF FinReceived, RReads, Goes, SameFiles, ReceiverOnly, Between, TypeOK, Receivers, Offered
<1> HIDE DEF F
<1>3. /\ Answers \in Seq(Frames) /\ Stimuli \in Seq(Frames) /\ Phases /\ Copies
      /\ HasCut' /\ (SDoomed' <=> SDoomed) /\ (RDoomed' <=> RDoomed)
      /\ Stimuli # <<>> /\ Stimuli[1].kind = "ZFIN" /\ Stimuli' = Tail(Stimuli)
      /\ Answers' = IF snd.pc = "ended" \/ SDoomed THEN Answers ELSE Answers \o F
  BY <1>1, <1>2, ReceiverReads
<1>4. Copies'
  BY <1>2, <1>3, NoFileOpen DEF Writing
<1>5. ~Inviting(Stimuli)
  BY <1>3 DEF Inviting, Invitations
<1>6. CASE ~SDoomed /\ ~RDoomed /\ InStep
  <2>1. snd.pc = "fin" /\ Answers = <<>> /\ One(Stimuli, "ZFIN")
    BY <1>2, <1>3, <1>6 DEF InStep, GreetingEach, Proposing, Sending, Parting, Between, One, Two
  <2>2. Answers' = F /\ Stimuli' = <<>>
    BY <1>1, <1>3, <1>6, <2>1, Words, Shorter
  <2>3. Parting(Answers, Stimuli)'
    BY <1>1, <1>2, <2>1, <2>2 DEF Parting, Between
  <2> QED  BY <1>3, <1>4, <1>6, <2>3 DEF Intact, Phases, InStep
<1>7. CASE ~SDoomed /\ RDoomed /\ ReceiverDoomed
  <2>1. snd.pc \in {"ended", "rinit"} /\ Answers = <<>> /\ One(Stimuli, "ZFIN")
    BY <1>2, <1>3, <1>5, <1>7 DEF ReceiverDoomed, Between, Writing, Two
  <2>2. Answers' = (IF snd.pc = "ended" THEN <<>> ELSE F) /\ Stimuli' = <<>>
    BY <1>1, <1>3, <1>7, <2>1, Words, Shorter
  <2>3. ReceiverDoomed'
    BY <1>1, <1>2, <2>1, <2>2, Written DEF ReceiverDoomed
  <2> QED  BY <1>3, <1>4, <1>7, <2>3 DEF Intact, Phases
<1>8. CASE SDoomed /\ ~RDoomed /\ SenderDoomed
  <2>1. snd.pc = "fin" /\ Greeting(Answers) /\ One(Stimuli, "ZFIN")
    BY <1>2, <1>3, <1>5, <1>8 DEF SenderDoomed, Between, Two
  <2>2. SenderDoomed'
    BY <1>2, <1>3, <1>8, <2>1, Shorter DEF SenderDoomed
  <2> QED  BY <1>3, <1>4, <1>8, <2>2 DEF Intact, Phases
<1> QED  BY <1>3, <1>6, <1>7, <1>8 DEF Phases

\* What the receiver hears with a file open, or about to be opened.
LEMMA InfoHeard ==
  ASSUME Phases, rcv.pc = "info"
  PROVE  /\ ~rcv.torn /\ One(Stimuli, "info")
         /\ \/ ~SDoomed /\ ~RDoomed /\ snd.pc = "rpos" /\ Answers = <<>>
                 /\ Stimuli[1].file = Offered /\ Offered \notin reported
            \/ ~SDoomed /\ RDoomed /\ snd.pc \in {"ended", "rinit"} /\ Answers = <<>>
                 /\ Stimuli[1].file \notin reported
            \/ SDoomed /\ ~RDoomed /\ snd.pc = "rpos" /\ Greeting(Answers)
                 /\ Stimuli[1].file = Offered /\ Offered \notin reported
<1>1. CASE ~SDoomed /\ ~RDoomed /\ InStep
  BY <1>1 DEF InStep, GreetingEach, Proposing, Sending, Parting, Between
<1>2. CASE ~SDoomed /\ RDoomed /\ ReceiverDoomed
  BY <1>2 DEF ReceiverDoomed, Between, Writing
<1>3. CASE SDoomed /\ ~RDoomed /\ SenderDoomed
  BY <1>3 DEF SenderDoomed
<1> QED  BY <1>1, <1>2, <1>3 DEF Phases

LEMMA FlowLess ==
  ASSUME NEW f \in Files, NEW w \in Seq(Frames), w # <<>>, NEW n \in Nat, Flow(w, f, n)
  PROVE  /\ Flow(Tail(w), f, n + 1) /\ w[1] = Part(f, n + 1)
<1> DEFINE t == Tail(w)
           L == Len(Content[f])
<1>1. /\ Len(w) \in Nat \ {0} /\ t \in Seq(Frames) /\ Len(t) = Len(w) - 1 /\ L \in Nat
      /\ \A i \in 1..Len(t) : t[i] = w[i + 1]
  BY Words, ZFilesAssumption
<1>2. n + Len(w) <= L + 2 /\ \A i \in 1..Len(w) : w[i] = Part(f, n + i)
  BY DEF Flow
<1> HIDE DEF t, L
<1>3. n + 1 + Len(t) <= L + 2
  BY <1>1, <1>2
<1>4. \A i \in 1..Len(t) : t[i] = Part(f, n + 1 + i)
  <2> TAKE i \in 1..Len(t)
  <2>1. i + 1 \in 1..Len(w) /\ n + (i + 1) = n + 1 + i
    BY <1>1
  <2> QED  BY <1>1, <1>2, <2>1
<1>5. 1 \in 1..Len(w)
  BY <1>1
<1> QED  BY <1>2, <1>3, <1>4, <1>5 DEF Flow, t, L

LEMMA DataHeard ==
  ASSUME TypeOK, Intact, rcv.pc = "data", Coming("R") \notin {"nothing", "CAN"}
  PROVE  LET f == rcv.file
             n == Len(disk[f])
             L == Len(Content[f]) IN
         /\ ~rcv.torn /\ Stimuli # <<>> /\ Stimuli[1].kind = Coming("R") /\ Stimuli[1] = Head(wire["R"])
         /\ Flow(Tail(Stimuli), f, n + 1) /\ f \notin counted
         /\ \/ n < L /\ Stimuli[1] = Chunk(Content[f][n + 1]) /\ Coming("R") = "chunk"
            \/ n = L /\ Coming("R") = "end" /\ (Tail(Stimuli) = <<>> \/ One(Tail(Stimuli), "ZEOF"))
<1> DEFINE f == rcv.file
           n == Len(disk[f])
           L == Len(Content[f])
           t == Tail(Stimuli)
<1>1. /\ Stimuli # <<>> /\ Stimuli[1].kind = Coming("R") /\ Stimuli[1] = Head(wire["R"])
      /\ Stimuli \in Seq(Frames) /\ Copies /\ Writing
  BY NextFrame, Voices DEF TypeOK, Lines, Intact, Writing
<1>2. f \in Files /\ n \in Nat /\ L \in Nat /\ n <= L
  BY <1>1, WritingFront
<1>3. ~rcv.torn /\ Flow(Stimuli, f, n) /\ f \notin counted
  BY <1>1 DEF Copies, Coherent
<1> HIDE DEF f, n, L
<1>4. Flow(t, f, n + 1) /\ Stimuli[1] = Part(f, n + 1)
  BY <1>1, <1>2, <1>3, FlowLess
<1>5. CASE n < L
  <2>1. Part(f, n + 1) = Chunk(Content[f][n + 1])
    BY <1>2, <1>5 DEF Part, L
  <2>2. Coming("R") = "chunk"
    BY <1>1, <1>4, <2>1 DEF Chunk
  <2> QED  BY <1>1, <1>3, <1>4, <1>5, <2>1, <2>2 DEF f, n, L
<1>6. CASE n = L
  <2>1. Part(f, n + 1) = Frame("end")
    BY <1>2, <1>6 DEF Part, L
  <2>2. Coming("R") = "end"
    BY <1>1, <1>4, <2>1 DEF Frame
  <2>3. t \in Seq(Frames) /\ Len(t) \in Nat
    BY <1>1, Words
  <2>4. Len(t) <= 1 /\ \A i \in 1..Len(t) : t[i] = Part(f, n + 1 + i)
    BY <1>2, <1>4, <1>6, <2>3 DEF Flow, L
  <2>5. Part(f, n + 1 + 1) = Frame("ZEOF")
    BY <1>2, <1>6 DEF Part, L
  <2>6. t = <<>> \/ One(t, "ZEOF")
    <3>1. CASE Len(t) = 0
      BY <2>3, <3>1, Words
    <3>2. CASE Len(t) = 1
      BY <2>4, <2>5, <3>2 DEF One, Frame
    <3>3. Len(t) = 0 \/ Len(t) = 1
      <4>1. Len(t) \in Nat /\ Len(t) <= 1
        BY <2>3, <2>4
      <4>2. \A m \in Nat : m <= 1 => m = 0 \/ m = 1
        OBVIOUS
      <4> QED  BY <4>1, <4>2
    <3> QED  BY <3>1, <3>2, <3>3
  <2> QED  BY <1>1, <1>3, <1>4, <1>6, <2>2, <2>6 DEF f, n, L
<1> QED  BY <1>2, <1>5, <1>6

LEMMA FileHeard ==
  ASSUME TypeOK, Intact, rcv.pc = "file", Coming("R") \notin {"nothing", "CAN"}
  PROVE  LET f == rcv.file
             n == Len(disk[f]) IN
         /\ Stimuli # <<>> /\ Stimuli[1].kind = Coming("R") /\ f \notin counted
         /\ \/ Coming("R") = "ZDATA" /\ Flow(Tail(Stimuli), f, n)
            \/ Coming("R") = "ZEOF" /\ One(Stimuli, "ZEOF") /\ n = Len(Content[f])
<1>1. /\ Stimuli # <<>> /\ Stimuli[1].kind = Coming("R") /\ Copies /\ Writing
  BY NextFrame DEF Intact, Writing
<1> QED  BY <1>1 DEF Copies, Coherent, One

\* Nobody sends the receiver what does not belong there.
LEMMA TearsNot ==
  ASSUME TypeOK, Intact, Tears PROVE FALSE
<1>1. Phases /\ rcv.pc \in {"info", "data"} /\ Coming("R") \notin {"info", "chunk", "end", "nothing", "CAN"}
  BY DEF Intact, Tears, Subpackets
<1>2. Stimuli # <<>> /\ Stimuli[1].kind = Coming("R")
  BY <1>1, NextFrame
<1>3. CASE rcv.pc = "info"
  BY <1>1, <1>2, <1>3, InfoHeard DEF One
<1>4. CASE rcv.pc = "data"
  <2>1. Coming("R") \in {"chunk", "end"}
    BY <1>1, <1>4, DataHeard
  <2> QED  BY <1>1, <2>1
<1> QED  BY <1>1, <1>3, <1>4

LEMMA InfoCorruptNot ==
  ASSUME TypeOK, Intact, InfoCorrupt PROVE FALSE
<1>1. Phases /\ rcv.pc = "info" /\ BadSubpacket
  BY DEF Intact, InfoCorrupt, Subpacket
<1>2. ~rcv.torn /\ One(Stimuli, "info")
  BY <1>1, InfoHeard
<1>3. Coming("R") = "badcrc"
  BY <1>1, <1>2 DEF BadSubpacket
<1> QED  BY <1>2, <1>3, NextFrame DEF One

LEMMA RRaisesNot ==
  ASSUME TypeOK, Intact, RRaises, faults = 0, faults' = 0 PROVE FALSE
<1>1. Phases
  BY DEF Intact
<1>2. CASE RReads({"hello", "loop", "file"}, "badhex")
  <2>1. Stimuli # <<>> /\ Stimuli[1].kind = "badhex" /\ rcv.pc \in {"hello", "loop", "file"}
        /\ Coming("R") = "badhex"
    BY <1>2, NextFrame DEF RReads
  <2>2. rcv.pc # "file"
    <3>1. ASSUME rcv.pc = "file" PROVE Coming("R") \in {"ZDATA", "ZEOF"}
      <4>1. Coming("R") \notin {"nothing", "CAN"}
        BY <2>1
      <4> QED  BY <3>1, <4>1, FileHeard
    <3> QED  BY <2>1, <3>1
  <2>3. ~Inviting(Stimuli) /\ (\A k : One(Stimuli, k) => k = "badhex")
        /\ (\A k, l : Two(Stimuli, k, l) => k = "badhex")
    BY <2>1, Voices DEF Inviting, Invitations, One, Two, TypeOK, Lines, Intact
  <2>4. ~InStep
    BY <2>1, <2>2, <2>3 DEF InStep, GreetingEach, Proposing, Sending, Parting
  <2> QED  BY <1>1, <2>1, <2>2, <2>3, <2>4 DEF Phases, ReceiverDoomed, SenderDoomed, Writing
<1>3. CASE rcv.pc = "info" /\ TimesOut("R")
  <2>1. One(Stimuli, "info")
    BY <1>1, <1>3, InfoHeard
  <2>2. Stimuli = <<>>
    BY <1>3, SilenceIntact DEF Sides
  <2> QED  BY <2>1, <2>2 DEF One
<1>4. CASE RReads({"info", "data"}, "badesc")
  <2>1. rcv.pc \in {"info", "data"} /\ Coming("R") = "badesc" /\ Stimuli[1].kind = "badesc"
    BY <1>4, NextFrame DEF RReads
  <2>2. CASE rcv.pc = "info"
    BY <1>1, <2>1, <2>2, InfoHeard DEF One
  <2>3. CASE rcv.pc = "data"
    <3>1. Coming("R") \in {"chunk", "end"}
      BY <2>1, <2>3, DataHeard
    <3> QED  BY <2>1, <3>1
  <2> QED  BY <2>1, <2>2, <2>3
<1> QED  BY <1>2, <1>3, <1>4 DEF RRaises

LEMMA DataStallsNot ==
  ASSUME TypeOK, Intact, DataStalls, faults = 0, faults' = 0 PROVE FALSE
<1>1. rcv.pc = "data" /\ TimesOut("R") /\ Writing /\ Copies
  BY DEF DataStalls, Writing, Intact
<1>2. Answers = <<>> /\ Stimuli = <<>> /\ InStep /\ snd.pc \in {"rinit", "rpos", "eof", "fin", "ended"}
  BY <1>1, SilenceIntact DEF Sides
<1>3. rcv.file = Offered /\ Len(disk[rcv.file]) + Len(Stimuli) = Len(Content[Offered]) + 2
  BY <1>1, <1>2 DEF InStep, GreetingEach, Proposing, Sending, Parting, SentTo, Between
<1>4. Len(disk[rcv.file]) \in Nat /\ Len(disk[rcv.file]) <= Len(Content[rcv.file])
      /\ Len(Content[rcv.file]) \in Nat
  BY <1>1, WritingFront
<1>5. Len(Stimuli) = 0
  BY <1>2
<1> QED  BY <1>3, <1>4, <1>5

LEMMA CloseInTime ==
  ASSUME TypeOK, Intact, rcv.pc = "file", TimesOut("R"), faults = 0, faults' = 0 PROVE FALSE
<1>1. Answers = <<>> /\ Stimuli = <<>> /\ InStep
  BY SilenceIntact DEF Sides
<1> QED  BY <1>1, Words DEF InStep, GreetingEach, Proposing, Sending, Parting, Between, One

\* What the receiver passes over.
LEMMA RIgnoresIntact ==
  ASSUME TypeOK, Drained, Intact, RIgnores, ReceiverOnly
  PROVE  Intact'
<1>1. /\ rcv' = rcv /\ snd' = snd /\ disk' = disk /\ counted' = counted /\ reported' = reported
      /\ Offered' = Offered /\ Pass("R", 1, <<>>) /\ Coming("R") \notin {"nothing", "CAN"}
      /\ \/ rcv.pc \in {"hello", "loop"} /\ Coming("R") \in NoHeaders
         \/ rcv.pc = "file" /\ Coming("R") \notin {"ZDATA", "ZEOF"}
         \/ rcv.pc = "over" /\ Coming("R") # "OO"
  BY DEF RIgnores, SameFiles, ReceiverOnly, NoHeaders, Subpackets, Offered
<1>2. /\ Answers \in Seq(Frames) /\ Stimuli \in Seq(Frames) /\ Phases /\ Copies
      /\ HasCut' /\ (SDoomed' <=> SDoomed) /\ (RDoomed' <=> RDoomed)
      /\ Stimuli # <<>> /\ Stimuli[1].kind = Coming("R") /\ Stimuli' = Tail(Stimuli)
      /\ Answers' = Answers
  <2>1. <<>> \in Seq(Frames) /\ Lacks(<<>>, {"CAN"})
    BY Writes, Written
  <2> QED  BY <1>1, <2>1, ReceiverReads, Words
<1>3. rcv.pc # "file"
  <2>1. ASSUME rcv.pc = "file" PROVE Coming("R") \in {"ZDATA", "ZEOF"}
    BY <1>1, <2>1, FileHeard
  <2> QED  BY <1>1, <2>1
<1>4. Copies'
  BY <1>1, <1>2, <1>3, NoFileOpen DEF Writing
<1>5. Stimuli[1].kind \notin {"ZRQINIT", "ZFIN", "ZFILE"} \/ rcv.pc = "over"
  BY <1>1, <1>2, <1>3 DEF NoHeaders, Subpackets
<1>6. CASE ~SDoomed /\ ~RDoomed /\ InStep
  <2>1. \/ Between /\ snd.pc = "ended" /\ One(Stimuli, "OO")
        \/ Between /\ snd.pc = "rinit" /\ Answers = <<>> /\ Two(Stimuli, "OO", "ZRQINIT")
    BY <1>1, <1>2, <1>3, <1>5, <1>6 DEF InStep, GreetingEach, Proposing, Sending, Parting, Between, One, Two
  <2>2. GreetingEach(Answers, Stimuli)'
    BY <1>1, <1>2, <2>1, Shorter DEF GreetingEach, Between
  <2> QED  BY <1>2, <1>4, <1>6, <2>2 DEF Intact, Phases, InStep
<1>7. CASE ~SDoomed /\ RDoomed /\ ReceiverDoomed
  <2>1. /\ Inviting(Stimuli)
        /\ \/ Between /\ snd.pc \in {"ended", "rinit", "next", "rpos", "fin"} /\ Greeting(Answers)
           \/ rcv.pc = "over" /\ snd.pc \in {"ended", "rinit"} /\ Answers = <<>>
    BY <1>1, <1>2, <1>3, <1>5, <1>7 DEF ReceiverDoomed, Between, Writing, One, Two
  <2>2. ReceiverDoomed'
    BY <1>1, <1>2, <2>1, Shorter DEF ReceiverDoomed, Between
  <2> QED  BY <1>2, <1>4, <1>7, <2>2 DEF Intact, Phases
<1>8. CASE SDoomed /\ ~RDoomed /\ SenderDoomed
  <2>1. /\ snd.pc \in {"stream", "eof"} /\ Answers = <<>>
        /\ rcv.pc \in {"hello", "loop", "ended"} /\ Inviting(Stimuli)
    BY <1>1, <1>2, <1>3, <1>5, <1>8 DEF SenderDoomed, One, Two
  <2>2. SenderDoomed'
    BY <1>1, <1>2, <2>1, Shorter DEF SenderDoomed
  <2> QED  BY <1>2, <1>4, <1>8, <2>2 DEF Intact, Phases
<1> QED  BY <1>2, <1>6, <1>7, <1>8 DEF Phases

LEMMA RefuseIntact ==
  ASSUME TypeOK, Drained, Intact, Refuse, ReceiverOnly
  PROVE  Intact'
<1> DEFINE F == <<Frame("ZRINIT")>>
<1>1. F \in Seq(Frames) /\ Lacks(F, {"CAN"}) /\ One(F, "ZRINIT") /\ Greeting(F)
  BY Writes, Written DEF Plain
<1>2. /\ rcv.pc = "info" /\ rcv'.pc = "loop" /\ snd' = snd /\ disk' = disk /\ counted' = counted
      /\ reported' = reported /\ Offered' = Offered /\ Pass("R", 1, F) /\ Coming("R") = "info"
  BY DEF Refuse, Subpacket, Goes, SameFiles, ReceiverOnly, TypeOK, Receivers, Offered
<1> HIDE DEF F
<1>3. /\ Answers \in Seq(Frames) /\ Stimuli \in Seq(Frames) /\ Phases /\ Copies
      /\ HasCut' /\ (SDoomed' <=> SDoomed) /\ (RDoomed' <=> RDoomed)
      /\ Stimuli # <<>> /\ Stimuli' = Tail(Stimuli)
      /\ Answers' = IF snd.pc = "ended" \/ SDoomed THEN Answers ELSE Answers \o F
  BY <1>1, <1>2, ReceiverReads
<1>4. Copies'
  BY <1>2, <1>3, NoFileOpen DEF Writing
<1>5. Stimuli' = <<>>
  BY <1>2, <1>3, InfoHeard, Shorter
<1>6. Answers = <<>> => Answers' = <<>> \/ Answers' = F
  BY <1>1, <1>3, Words
<1>7. CASE ~SDoomed /\ ~RDoomed
  <2>1. snd.pc = "rpos" /\ Answers = <<>>
    BY <1>2, <1>3, <1>7, InfoHeard
  <2>2. Proposing(Answers, Stimuli)'
    BY <1>1, <1>2, <1>5, <1>6, <2>1, Written DEF Proposing, Between
  <2> QED  BY <1>3, <1>4, <1>7, <2>2 DEF Intact, Phases, InStep
<1>8. CASE ~SDoomed /\ RDoomed
  <2>1. snd.pc \in {"ended", "rinit"} /\ Answers = <<>>
    BY <1>2, <1>3, <1>8, InfoHeard
  <2>2. ReceiverDoomed'
    BY <1>1, <1>2, <1>5, <1>6, <2>1, Written DEF ReceiverDoomed, Between
  <2> QED  BY <1>3, <1>4, <1>8, <2>2 DEF Intact, Phases
<1>9. CASE SDoomed /\ ~RDoomed
  <2>1. snd.pc = "rpos" /\ Greeting(Answers) /\ Answers' = Answers
    BY <1>2, <1>3, <1>9, InfoHeard
  <2>2. SenderDoomed'
    BY <1>2, <1>5, <2>1 DEF SenderDoomed
  <2> QED  BY <1>3, <1>4, <1>9, <2>2 DEF Intact, Phases
<1> QED  BY <1>3, <1>7, <1>8, <1>9 DEF Phases

LEMMA OpenFileIntact ==
  ASSUME TypeOK, Drained, Intact, OpenFile, ReceiverOnly
  PROVE  Intact'
<1> DEFINE f == Head(wire["R"]).file
           k == Kept(f)
           F == <<Position("ZRPOS", Len(k))>>
<1>1. rcv.pc = "info" /\ Coming("R") = "info" /\ Pass("R", 1, F)
  BY DEF OpenFile, Subpacket
<1>2. f \in Files
  <2>1. "R" \in Sides /\ wire \in Lines /\ Coming("R") # "nothing"
    BY <1>1 DEF TypeOK, Lines, Sides
  <2>2. Head(wire["R"]) \in Frames /\ Head(wire["R"]).kind = "info"
    BY <1>1, <2>1, HeadTypes
  <2> QED  BY <2>2, FrameFields
<1>3. /\ snd' = snd /\ reported' = reported /\ Offered' = Offered
      /\ rcv'.pc = "file" /\ rcv'.file = f /\ counted' = counted \ {f}
      /\ disk' = [disk EXCEPT ![f] = k]
  BY DEF OpenFile, ReceiverOnly, TypeOK, Receivers, Offered
<1>4. disk \in [Files -> Seq(Unit) \cup {Absent}]
  BY DEF TypeOK
<1>5. k \in Seq(Unit) /\ (k = <<>> \/ (k = disk[f] /\ disk[f] # Absent))
  BY <1>2, <1>4 DEF Kept
<1> HIDE DEF k
<1>6. Len(k) \in Nat
  BY <1>5
<1>7. F \in Seq(Frames) /\ Lacks(F, {"CAN"}) /\ One(F, "ZRPOS") /\ F[1].pos = Len(k)
  BY <1>6, Writes, Written
<1> HIDE DEF F
<1>8. /\ Answers \in Seq(Frames) /\ Stimuli \in Seq(Frames) /\ Phases /\ Copies
      /\ HasCut' /\ (SDoomed' <=> SDoomed) /\ (RDoomed' <=> RDoomed)
      /\ Stimuli # <<>> /\ Stimuli' = Tail(Stimuli) /\ Stimuli[1].file = f
      /\ Answers' = IF snd.pc = "ended" \/ SDoomed THEN Answers ELSE Answers \o F
  BY <1>1, <1>7, ReceiverReads
<1> HIDE DEF f
<1>9. Stimuli' = <<>>
  BY <1>1, <1>8, InfoHeard, Shorter
<1>10. f \notin reported
  BY <1>1, <1>8, InfoHeard
<1>11. disk'[f] = k /\ \A g \in Files \ {f} : disk'[g] = disk[g]
  BY <1>2, <1>3, <1>4
<1>12. Fronts'
  <2>1. ASSUME NEW g \in Files, disk'[g] # Absent PROVE IsFront(disk'[g], g)
    <3>1. CASE g # f
      BY <1>8, <1>11, <2>1, <3>1 DEF Copies, Fronts
    <3>2. CASE g = f /\ k = disk[f] /\ disk[f] # Absent
      BY <1>2, <1>8, <1>11, <3>2 DEF Copies, Fronts
    <3>3. CASE g = f /\ k = <<>>
      <4>1. Content[f] \in Seq(Unit)
        BY <1>2, ZFilesAssumption
      <4>2. SubSeq(Content[f], 1, 0) = <<>> /\ Len(<<>>) = 0 /\ Len(Content[f]) \in Nat
        BY <4>1, SubSeqEmpty
      <4>3. disk'[g] = <<>> /\ g = f
        BY <1>11, <3>3
      <4>4. IsFront(<<>>, f)
        BY <4>2 DEF IsFront
      <4> QED  BY <4>3, <4>4
    <3> QED  BY <1>5, <3>1, <3>2, <3>3
  <2> QED  BY <2>1 DEF Fronts
<1>13. Copies'
  <2>1. CountedIsWhole'
    BY <1>3, <1>8, <1>11 DEF Copies, CountedIsWhole, TypeOK
  <2>2. Coherent'
    BY <1>3, <1>9 DEF Coherent
  <2>3. reported' \subseteq counted'
    BY <1>3, <1>8, <1>10 DEF Copies
  <2> QED  BY <1>12, <2>1, <2>2, <2>3 DEF Copies
<1>14. CASE ~SDoomed /\ ~RDoomed
  <2>1. snd.pc = "rpos" /\ Answers = <<>> /\ f = Offered
    BY <1>1, <1>8, <1>14, InfoHeard
  <2>2. Answers' = F
    BY <1>7, <1>8, <1>14, <2>1, Words
  <2>3. Sending(Answers, Stimuli)'
    BY <1>3, <1>7, <1>9, <1>11, <2>1, <2>2 DEF Sending
  <2> QED  BY <1>8, <1>13, <1>14, <2>3 DEF Intact, Phases, InStep
<1>15. CASE ~SDoomed /\ RDoomed
  <2>1. snd.pc \in {"ended", "rinit"} /\ Answers = <<>>
    BY <1>1, <1>8, <1>15, InfoHeard
  <2>2. Answers' = IF snd.pc = "ended" THEN <<>> ELSE F
    BY <1>7, <1>8, <1>15, <2>1, Words
  <2>3. ReceiverDoomed'
    BY <1>3, <1>7, <1>9, <2>1, <2>2 DEF ReceiverDoomed, Writing
  <2> QED  BY <1>8, <1>13, <1>15, <2>3 DEF Intact, Phases
<1>16. CASE SDoomed /\ ~RDoomed
  <2>1. snd.pc = "rpos" /\ Greeting(Answers) /\ Answers' = Answers
    BY <1>1, <1>8, <1>16, InfoHeard
  <2>2. SenderDoomed'
    BY <1>3, <1>9, <2>1 DEF SenderDoomed
  <2> QED  BY <1>8, <1>13, <1>16, <2>2 DEF Intact, Phases
<1> QED  BY <1>8, <1>14, <1>15, <1>16 DEF Phases

\* Which phase it is when the receiver has a file open and something to read.
LEMMA OpenPhase ==
  ASSUME Phases, Writing, Stimuli # <<>>
  PROVE  \/ ~SDoomed /\ ~RDoomed /\ Sending(Answers, Stimuli) /\ Answers = <<>> /\ rcv.file = Offered
              /\ snd.pc \in {"stream", "eof"}
         \/ ~SDoomed /\ RDoomed /\ snd.pc \in {"ended", "rinit"} /\ Answers = <<>>
<1>1. CASE ~SDoomed /\ ~RDoomed /\ InStep
  BY <1>1 DEF InStep, GreetingEach, Proposing, Sending, SentTo, Parting, Between, Writing
<1>2. CASE ~SDoomed /\ RDoomed /\ ReceiverDoomed
  BY <1>2 DEF ReceiverDoomed, Between, Writing
<1>3. CASE SDoomed /\ ~RDoomed /\ SenderDoomed
  BY <1>3 DEF SenderDoomed, Writing
<1> QED  BY <1>1, <1>2, <1>3 DEF Phases

LEMMA DataComesIntact ==
  ASSUME TypeOK, Drained, Intact, DataComes, ReceiverOnly
  PROVE  Intact'
<1> DEFINE n == Len(disk[rcv.file])
<1>1. /\ rcv.pc = "file" /\ Coming("R") = "ZDATA" /\ Pass("R", 1, <<>>)
      /\ rcv'.pc = "data" /\ ~rcv'.torn /\ rcv'.file = rcv.file
      /\ snd' = snd /\ disk' = disk /\ counted' = counted /\ reported' = reported /\ Offered' = Offered
  BY DEF DataComes, RReads, SameFiles, ReceiverOnly, TypeOK, Receivers, Offered
<1>2. /\ Answers \in Seq(Frames) /\ Stimuli \in Seq(Frames) /\ Phases /\ Copies
      /\ HasCut' /\ (SDoomed' <=> SDoomed) /\ (RDoomed' <=> RDoomed)
      /\ Stimuli # <<>> /\ Stimuli[1].kind = "ZDATA" /\ Stimuli' = Tail(Stimuli)
      /\ Answers' = Answers
  <2>1. <<>> \in Seq(Frames) /\ Lacks(<<>>, {"CAN"})
    BY Writes, Written
  <2> QED  BY <1>1, <2>1, ReceiverReads, Words
<1>3. Flow(Stimuli', rcv.file, n) /\ rcv.file \notin counted
  BY <1>1, <1>2, FileHeard
<1>4. Copies'
  <2>1. Coherent'
    BY <1>1, <1>3 DEF Coherent
  <2> QED  BY <1>1, <1>2, <2>1 DEF Copies, Fronts, CountedIsWhole
<1>5. Len(Stimuli') = Len(Stimuli) - 1
  BY <1>2, Words
<1>6. CASE ~SDoomed /\ ~RDoomed
  <2>1. /\ Answers = <<>> /\ rcv.file = Offered /\ SentTo(n + (Len(Stimuli) - 1))
    BY <1>1, <1>2, <1>6, OpenPhase DEF Sending, Writing, One, Between
  <2>2. Sending(Answers, Stimuli)'
    BY <1>1, <1>2, <1>5, <2>1 DEF Sending, SentTo
  <2> QED  BY <1>2, <1>4, <1>6, <2>2 DEF Intact, Phases, InStep
<1>7. CASE ~SDoomed /\ RDoomed
  <2>1. snd.pc \in {"ended", "rinit"} /\ Answers = <<>>
    BY <1>1, <1>2, <1>7, OpenPhase DEF Writing
  <2>2. ReceiverDoomed'
    BY <1>1, <1>2, <2>1 DEF ReceiverDoomed, Writing
  <2> QED  BY <1>2, <1>4, <1>7, <2>2 DEF Intact, Phases
<1> QED  BY <1>1, <1>2, <1>6, <1>7, OpenPhase DEF Writing

LEMMA FrontAppend ==
  ASSUME NEW f \in Files, NEW c \in Seq(Unit), IsFront(c, f), Len(c) < Len(Content[f])
  PROVE  IsFront(Append(c, Content[f][Len(c) + 1]), f)
<1> DEFINE L == Len(Content[f])
           n == Len(c)
           u == Content[f][n + 1]
           d == Append(c, u)
           s == SubSeq(Content[f], 1, n + 1)
<1>1. Content[f] \in Seq(Unit) /\ L \in Nat /\ n \in Nat /\ n + 1 \in 1..L /\ u \in Unit
  BY ZFilesAssumption
<1>2. \A i \in 1..n : c[i] = Content[f][i]
  <2>1. c = SubSeq(Content[f], 1, n)
    BY DEF IsFront
  <2>2. \A i \in 1..n : SubSeq(Content[f], 1, n)[i] = Content[f][i]
    BY <1>1
  <2> QED  BY <2>1, <2>2
<1>3. d \in Seq(Unit) /\ Len(d) = n + 1 /\ \A i \in 1..(n + 1) : d[i] = Content[f][i]
  <2>1. d \in Seq(Unit) /\ Len(d) = n + 1 /\ d[n + 1] = u /\ \A i \in 1..n : d[i] = c[i]
    BY <1>1
  <2> HIDE DEF d
  <2> QED  BY <1>1, <1>2, <2>1
<1>4. s \in Seq(Unit) /\ Len(s) = n + 1 /\ \A i \in 1..(n + 1) : s[i] = Content[f][i]
  BY <1>1
<1> HIDE DEF d, s
<1>5. d = s
  BY <1>1, <1>3, <1>4, SeqEqual
<1> QED  BY <1>1, <1>3, <1>5 DEF IsFront, d, s

LEMMA WriteChunkIntact ==
  ASSUME TypeOK, Drained, Intact, WriteChunk, ReceiverOnly
  PROVE  Intact'
<1> DEFINE f == rcv.file
           c == disk[f]
           n == Len(c)
           u == Content[f][n + 1]
<1>1. /\ rcv.pc = "data" /\ Coming("R") = "chunk" /\ Pass("R", 1, <<>>) /\ rcv' = rcv
      /\ snd' = snd /\ counted' = counted /\ reported' = reported /\ Offered' = Offered
      /\ disk' = [disk EXCEPT ![f] = Append(@, Head(wire["R"]).unit)]
  BY DEF WriteChunk, Subpacket, ReceiverOnly, Offered
<1>2. /\ Answers \in Seq(Frames) /\ Stimuli \in Seq(Frames) /\ Phases /\ Copies
      /\ HasCut' /\ (SDoomed' <=> SDoomed) /\ (RDoomed' <=> RDoomed)
      /\ Stimuli # <<>> /\ Stimuli' = Tail(Stimuli) /\ Answers' = Answers
  <2>1. <<>> \in Seq(Frames) /\ Lacks(<<>>, {"CAN"})
    BY Writes, Written
  <2> QED  BY <1>1, <2>1, ReceiverReads, Words
<1>3. /\ f \in Files /\ c \in Seq(Unit) /\ Content[f] \in Seq(Unit) /\ IsFront(c, f) /\ n \in Nat
      /\ disk \in [Files -> Seq(Unit) \cup {Absent}]
  BY <1>1, <1>2, WritingFront DEF Writing, TypeOK
<1>4. /\ ~rcv.torn /\ Stimuli[1] = Head(wire["R"]) /\ Flow(Tail(Stimuli), f, n + 1)
      /\ f \notin counted /\ n < Len(Content[f]) /\ Stimuli[1] = Chunk(u)
  BY <1>1, DataHeard
<1>5. Head(wire["R"]).unit = u
  BY <1>4 DEF Chunk
<1>6. disk' = [disk EXCEPT ![f] = Append(c, u)]
  BY <1>1, <1>3, <1>5
<1> HIDE DEF u
<1>7. disk'[f] = Append(c, u) /\ (\A g \in Files \ {f} : disk'[g] = disk[g])
  BY <1>3, <1>6
<1>8. Len(disk'[f]) = n + 1
  BY <1>3, <1>7
<1>9. Copies'
  <2>1. Fronts'
    <3>1. ASSUME NEW g \in Files, disk'[g] # Absent PROVE IsFront(disk'[g], g)
      <4>1. CASE g # f
        BY <1>2, <1>7, <3>1, <4>1 DEF Copies, Fronts
      <4>2. CASE g = f
        BY <1>3, <1>4, <1>7, <4>2, FrontAppend DEF u
      <4> QED  BY <4>1, <4>2
    <3> QED  BY <3>1 DEF Fronts
  <2>2. CountedIsWhole'
    BY <1>1, <1>2, <1>4, <1>7 DEF Copies, CountedIsWhole, TypeOK
  <2>3. Coherent'
    BY <1>1, <1>2, <1>4, <1>8 DEF Coherent
  <2> QED  BY <1>1, <1>2, <2>1, <2>2, <2>3 DEF Copies
<1>10. Len(Stimuli') = Len(Stimuli) - 1 /\ Len(Stimuli) \in Nat
  BY <1>2, Words
<1>11. CASE ~SDoomed /\ ~RDoomed
  <2>1. Answers = <<>> /\ rcv.file = Offered /\ SentTo(n + Len(Stimuli))
    BY <1>1, <1>2, <1>11, OpenPhase DEF Sending, Writing, Between
  <2>2. Len(disk'[f]) + Len(Stimuli') = n + Len(Stimuli)
    BY <1>3, <1>8, <1>10
  <2>3. SentTo(Len(disk[rcv.file]) + Len(Stimuli))'
    BY <1>1, <2>1, <2>2 DEF SentTo
  <2>4. Sending(Answers, Stimuli)'
    BY <1>1, <1>2, <2>1, <2>3 DEF Sending
  <2> QED  BY <1>2, <1>9, <1>11, <2>4 DEF Intact, Phases, InStep
<1>12. CASE ~SDoomed /\ RDoomed
  <2>1. snd.pc \in {"ended", "rinit"} /\ Answers = <<>>
    BY <1>1, <1>2, <1>12, OpenPhase DEF Writing
  <2>2. ReceiverDoomed'
    BY <1>1, <1>2, <2>1 DEF ReceiverDoomed, Writing
  <2> QED  BY <1>2, <1>9, <1>12, <2>2 DEF Intact, Phases
<1> QED  BY <1>1, <1>2, <1>11, <1>12, OpenPhase DEF Writing

\* The frame ends: the receiver waits for ZEOF.
LEMMA DataEndsIntact ==
  ASSUME TypeOK, Drained, Intact, DataEnds, ReceiverOnly
  PROVE  Intact'
<1> DEFINE f == rcv.file
           n == Len(disk[f])
           L == Len(Content[f])
<1>1. /\ rcv.pc = "data" /\ Pass("R", 1, <<>>) /\ rcv'.pc = "file" /\ rcv'.file = f
      /\ snd' = snd /\ disk' = disk /\ counted' = counted /\ reported' = reported /\ Offered' = Offered
      /\ Coming("R") \in {"end", "badcrc", "info", "chunk"} /\ (Coming("R") # "end" => BadSubpacket)
  BY DEF DataEnds, Subpacket, BadSubpacket, Goes, SameFiles, ReceiverOnly, TypeOK, Receivers, Offered
<1>2. /\ Answers \in Seq(Frames) /\ Stimuli \in Seq(Frames) /\ Phases /\ Copies
      /\ HasCut' /\ (SDoomed' <=> SDoomed) /\ (RDoomed' <=> RDoomed)
      /\ Stimuli # <<>> /\ Stimuli' = Tail(Stimuli) /\ Answers' = Answers
  <2>1. <<>> \in Seq(Frames) /\ Lacks(<<>>, {"CAN"})
    BY Writes, Written
  <2> QED  BY <1>1, <2>1, ReceiverReads, Words
<1>3. /\ ~rcv.torn /\ f \notin counted
      /\ \/ n < L /\ Coming("R") = "chunk"
         \/ n = L /\ Coming("R") = "end" /\ (Stimuli' = <<>> \/ One(Stimuli', "ZEOF"))
  BY <1>1, <1>2, DataHeard
<1>4. n = L /\ (Stimuli' = <<>> \/ One(Stimuli', "ZEOF"))
  BY <1>1, <1>3 DEF BadSubpacket
<1>5. Copies'
  <2>1. Coherent'
    BY <1>1, <1>3, <1>4 DEF Coherent
  <2> QED  BY <1>1, <1>2, <2>1 DEF Copies, Fronts, CountedIsWhole
<1>6. CASE ~SDoomed /\ ~RDoomed
  <2>1. Answers = <<>> /\ f = Offered /\ SentTo(n + Len(Stimuli))
    BY <1>1, <1>2, <1>6, OpenPhase DEF Sending, Writing, Between
  <2>2. n \in Nat /\ L \in Nat
    BY <1>1, <1>2, WritingFront DEF Writing
  <2>3. Len(Stimuli) \in Nat \ {0} /\ Len(Stimuli') = Len(Stimuli) - 1
    BY <1>2, Words
  <2>4. snd.pc = "eof" /\ n + Len(Stimuli) = L + 2
    <3>1. ~(n + Len(Stimuli) <= L)
      BY <1>4, <2>2, <2>3
    <3> QED  BY <2>1, <3>1 DEF SentTo
  <2>5. Len(Stimuli') = 1
    BY <1>4, <2>2, <2>3, <2>4
  <2>6. One(Stimuli', "ZEOF")
    <3>1. Len(<<>>) = 0 /\ (Stimuli' = <<>> => Len(Stimuli') = Len(<<>>))
      OBVIOUS
    <3> QED  BY <1>4, <2>5, <3>1
  <2>7. Sending(Answers, Stimuli)'
    BY <1>1, <1>2, <2>1, <2>4, <2>6 DEF Sending
  <2> QED  BY <1>2, <1>5, <1>6, <2>7 DEF Intact, Phases, InStep
<1>7. CASE ~SDoomed /\ RDoomed
  <2>1. snd.pc \in {"ended", "rinit"} /\ Answers = <<>>
    BY <1>1, <1>2, <1>7, OpenPhase DEF Writing
  <2>2. ReceiverDoomed'
    BY <1>1, <1>2, <2>1 DEF ReceiverDoomed, Writing
  <2> QED  BY <1>2, <1>5, <1>7, <2>2 DEF Intact, Phases
<1> QED  BY <1>1, <1>2, <1>6, <1>7, OpenPhase DEF Writing

\* The file is complete and is closed.
LEMMA CloseFileIntact ==
  ASSUME TypeOK, Drained, Intact, CloseFile, ReceiverOnly, faults = 0, faults' = 0
  PROVE  Intact'
<1> DEFINE F == <<Frame("ZRINIT")>>
           f == rcv.file
           c == disk[f]
           L == Len(Content[f])
<1>1. F \in Seq(Frames) /\ Lacks(F, {"CAN"}) /\ One(F, "ZRINIT") /\ Greeting(F)
  BY Writes, Written DEF Plain
<1>2. /\ rcv.pc = "file" /\ rcv'.pc = "loop" /\ snd' = snd /\ reported' = reported
      /\ Offered' = Offered /\ counted' = counted \cup {f}
      /\ disk' = [disk EXCEPT ![f] = Sized(@, L)]
  BY DEF CloseFile, RReads, ReceiverOnly, TypeOK, Receivers, Offered
<1>3. Coming("R") = "ZEOF" /\ Pass("R", 1, F)
  BY <1>2, CloseInTime DEF CloseFile, RReads
<1> HIDE DEF F
<1>4. /\ Answers \in Seq(Frames) /\ Stimuli \in Seq(Frames) /\ Phases /\ Copies
      /\ HasCut' /\ (SDoomed' <=> SDoomed) /\ (RDoomed' <=> RDoomed)
      /\ Stimuli # <<>> /\ Stimuli' = Tail(Stimuli)
      /\ Answers' = IF snd.pc = "ended" \/ SDoomed THEN Answers ELSE Answers \o F
  BY <1>1, <1>3, ReceiverReads
<1>5. One(Stimuli, "ZEOF") /\ Len(c) = L
  <2>1. Coming("R") \notin {"nothing", "CAN"}
    BY <1>3
  <2> QED  BY <1>2, <1>3, <2>1, FileHeard
<1>6. /\ f \in Files /\ c \in Seq(Unit) /\ Content[f] \in Seq(Unit) /\ IsFront(c, f) /\ L \in Nat
      /\ disk \in [Files -> Seq(Unit) \cup {Absent}]
  BY <1>2, <1>4, WritingFront DEF Writing, TypeOK
<1>7. Sized(c, L) = Content[f] /\ c = Content[f]
  <2>1. c = Content[f]
    <3>1. c = SubSeq(Content[f], 1, L)
      BY <1>5, <1>6 DEF IsFront
    <3>2. SubSeq(Content[f], 1, L) = Content[f]
      BY <1>6
    <3> QED  BY <3>1, <3>2
  <2>2. /\ Sized(c, L) \in Seq(Unit) /\ Len(Sized(c, L)) = L
        /\ \A i \in 1..L : Sized(c, L)[i] = IF i <= Len(c) THEN c[i] ELSE Zero
    BY <1>6, SizedTypes
  <2>3. \A i \in 1..L : Sized(c, L)[i] = c[i]
    BY <1>5, <1>6, <2>2
  <2> QED  BY <1>5, <1>6, <2>1, <2>2, <2>3, SeqEqual
<1>8. disk' = disk
  BY <1>2, <1>6, <1>7
<1>9. Copies'
  <2>1. CountedIsWhole'
    BY <1>2, <1>4, <1>7, <1>8 DEF Copies, CountedIsWhole
  <2>2. Coherent'
    BY <1>2 DEF Coherent, Writing
  <2>3. Fronts' /\ reported' \subseteq counted'
    BY <1>2, <1>4, <1>8 DEF Copies, Fronts
  <2> QED  BY <2>1, <2>2, <2>3 DEF Copies
<1>10. Stimuli' = <<>>
  BY <1>4, <1>5, Shorter
<1>11. CASE ~SDoomed /\ ~RDoomed
  <2>1. Answers = <<>> /\ f = Offered /\ snd.pc = "eof"
    BY <1>2, <1>4, <1>5, <1>11, OpenPhase DEF Sending, Writing, Between, One
  <2>2. Answers' = F
    BY <1>1, <1>4, <1>11, <2>1, Words
  <2>3. Answered'
    BY <1>2, <2>1 DEF Answered
  <2>4. Sending(Answers, Stimuli)'
    BY <1>1, <1>2, <1>10, <2>1, <2>2, <2>3 DEF Sending, Between
  <2> QED  BY <1>4, <1>9, <1>11, <2>4 DEF Intact, Phases, InStep
<1>12. CASE ~SDoomed /\ RDoomed
  <2>1. snd.pc \in {"ended", "rinit"} /\ Answers = <<>>
    BY <1>2, <1>4, <1>12, OpenPhase DEF Writing
  <2>2. Greeting(Answers')
    BY <1>1, <1>4, <2>1, Words, Written
  <2>3. ReceiverDoomed'
    BY <1>2, <1>10, <2>1, <2>2, Written DEF ReceiverDoomed, Between
  <2> QED  BY <1>4, <1>9, <1>12, <2>3 DEF Intact, Phases
<1> QED  BY <1>2, <1>4, <1>11, <1>12, OpenPhase DEF Writing

\* The receiver ends: the sender has ended before.
LEMMA RDoneIntact ==
  ASSUME TypeOK, Drained, Intact, RDone, ReceiverOnly, faults = 0, faults' = 0
  PROVE  Intact'
<1>1. wire \in Lines /\ HasCut /\ Phases /\ Copies /\ Answers \in Seq(Frames) /\ Stimuli \in Seq(Frames)
  BY Voices DEF TypeOK, Intact, Lines
<1>2. /\ rcv.pc = "over" /\ rcv'.pc = "ended" /\ Quit("R", <<>>) /\ snd' = snd /\ disk' = disk
      /\ counted' = counted /\ reported' = reported
      /\ Coming("R") = "OO" \/ TimesOut("R")
  BY DEF RDone, OverAndOut, RReads, REnds, StoppedReceiver, SameFiles, ReceiverOnly
<1>3. /\ HasCut' /\ ~RDoomed' /\ (SDoomed' <=> SDoomed) /\ Stimuli' = <<>> /\ Answers' = Answers
  <2>1. <<>> \in Seq(Frames) /\ Lacks(<<>>, {"CAN"})
    BY Writes, Written
  <2> QED  BY <1>1, <1>2, <2>1, ReceiverQuits, Words
<1>4. Stimuli # <<>>
  <2>1. CASE Coming("R") = "OO"
    BY <2>1, NextFrame
  <2>2. CASE TimesOut("R")
    <3>1. Answers = <<>> /\ Stimuli = <<>> /\ InStep
      BY <2>2, SilenceIntact DEF Sides
    <3> QED  BY <1>2, <3>1, Words DEF InStep, GreetingEach, Proposing, Sending, Parting, Between, One, Two
  <2> QED  BY <1>2, <2>1, <2>2
<1>5. ~SDoomed /\ snd.pc \in {"ended", "rinit"} /\ Answers = <<>>
  <2>1. CASE ~SDoomed /\ ~RDoomed /\ InStep
    <3>1. \/ snd.pc = "ended"
          \/ snd.pc = "rinit" /\ Answers = <<>>
      BY <1>2, <1>4, <2>1 DEF InStep, GreetingEach, Proposing, Sending, Parting, Between
    <3>2. snd.pc = "ended" => Answers = <<>>
      BY HeedsNothing DEF Drained, Sides, Stopped, Answers
    <3> QED  BY <2>1, <3>1, <3>2
  <2>2. CASE ~SDoomed /\ RDoomed /\ ReceiverDoomed
    BY <1>2, <1>4, <2>2 DEF ReceiverDoomed, Between, Writing
  <2>3. CASE SDoomed /\ ~RDoomed /\ SenderDoomed
    BY <1>2, <1>4, <2>3 DEF SenderDoomed
  <2> QED  BY <1>1, <2>1, <2>2, <2>3 DEF Phases
<1>6. Copies'
  BY <1>1, <1>2, NoFileOpen DEF Writing
<1>7. GreetingEach(Answers, Stimuli)'
  BY <1>2, <1>3, <1>5 DEF GreetingEach
<1> QED  BY <1>3, <1>5, <1>6, <1>7 DEF Intact, Phases, InStep

\* The receiver is cancelled, by its user or by the sender.
LEMMA ReceiverCancelledIntact ==
  ASSUME TypeOK, Drained, Intact, Quit("R", <<Frame("CAN")>>), rcv.pc # "ended", rcv'.pc = "ended",
         snd' = snd, disk' = disk, counted' = counted, reported' = reported
  PROVE  Intact'
<1>1. wire \in Lines /\ HasCut /\ Phases /\ Copies /\ Answers \in Seq(Frames) /\ Stimuli \in Seq(Frames)
  BY Voices DEF TypeOK, Intact, Lines
<1>2. /\ HasCut' /\ ~RDoomed' /\ (SDoomed' <=> snd.pc # "ended") /\ Stimuli' = <<>> /\ Answers' = Answers
  BY <1>1, ReceiverCancels
<1>3. Copies'
  BY <1>1, NoFileOpen DEF Writing
<1>4. CASE snd.pc = "ended"
  <2>1. Answers = <<>>
    BY <1>4, HeedsNothing DEF Drained, Sides, Stopped, Answers
  <2>2. GreetingEach(Answers, Stimuli)'
    BY <1>2, <1>4, <2>1 DEF GreetingEach
  <2> QED  BY <1>2, <1>3, <1>4, <2>2 DEF Intact, Phases, InStep
<1>5. CASE snd.pc # "ended"
  <2>1. SenderDoomed'
    <3>0. Offered' = Offered /\ (Answered' <=> Answered)
      BY DEF Offered, Answered
    <3>1. CASE InStep
      <4>1. CASE GreetingEach(Answers, Stimuli)
        <5>1. snd.pc \in {"rinit", "next"} /\ Greeting(Answers)
          BY <1>5, <4>1, Written DEF GreetingEach, One, Two, Greeting
        <5> QED  BY <1>2, <5>1 DEF SenderDoomed
      <4>2. CASE Proposing(Answers, Stimuli)
        BY <1>2, <4>2, Written DEF Proposing, SenderDoomed
      <4>3. CASE Sending(Answers, Stimuli)
        <5>1. \/ snd.pc = "rpos" /\ One(Answers, "ZRPOS")
              \/ snd.pc \in {"stream", "eof"} /\ Answers = <<>>
              \/ snd.pc = "eof" /\ One(Answers, "ZRINIT") /\ Answered
          BY <4>3 DEF Sending, SentTo
        <5>2. One(Answers, "ZRINIT") => Greeting(Answers)
          BY DEF One, Greeting
        <5> QED  BY <1>2, <3>0, <5>1, <5>2, Written DEF SenderDoomed
      <4>4. CASE Parting(Answers, Stimuli)
        BY <1>2, <1>5, <4>4, Written DEF Parting, SenderDoomed
      <4> QED  BY <3>1, <4>1, <4>2, <4>3, <4>4 DEF InStep
    <3>2. CASE ReceiverDoomed
      BY <1>2, <1>5, <3>2, Written DEF ReceiverDoomed, SenderDoomed
    <3>3. CASE SenderDoomed
      BY <1>2, <1>5, <3>0, <3>3, Written DEF SenderDoomed
    <3> QED  BY <1>1, <3>1, <3>2, <3>3 DEF Phases
  <2> QED  BY <1>2, <1>3, <1>5, <2>1 DEF Intact, Phases
<1> QED  BY <1>4, <1>5

\* The receiver is started.
LEMMA LaunchReceiverIntact ==
  ASSUME TypeOK, Drained, Intact, Launch("R")
  PROVE  Intact'
<1> DEFINE F == <<Frame("ZRINIT")>>
<1>1. F \in Seq(Frames) /\ Lacks(F, {"CAN"}) /\ One(F, "ZRINIT") /\ Greeting(F) /\ Pass("R", 0, F)
  BY Writes, Written DEF Plain, Launch
<1> HIDE DEF F
<1>2. /\ Answers \in Seq(Frames) /\ Stimuli \in Seq(Frames) /\ Phases /\ Copies
      /\ HasCut' /\ (SDoomed' <=> SDoomed) /\ (RDoomed' <=> RDoomed)
      /\ Stimuli' = Stimuli
      /\ Answers' = IF snd.pc = "ended" \/ SDoomed THEN Answers ELSE Answers \o F
  BY <1>1, ReceiverWrites
<1>3. /\ rcv.pc = "ended" /\ rcv'.pc = "hello" /\ snd' = snd /\ counted' = counted /\ disk' = disk
      /\ reported' = reported /\ Offered' = Offered /\ (Answered' <=> Answered)
  BY DEF Launch, Stopped, StoppedReceiver, Offered, Answered
<1>4. ~RDoomed /\ Stimuli = <<>>
  BY <1>3, HeedsNothing DEF Drained, Sides, Stopped, RDoomed, Stimuli
<1>5. Copies'
  BY <1>2, <1>3, NoFileOpen DEF Writing
<1>6. CASE ~SDoomed /\ InStep
  <2>1. snd.pc \in {"ended", "rinit"} /\ Answers = <<>>
    BY <1>3, <1>6 DEF InStep, GreetingEach, Proposing, Sending, Parting, Between
  <2>2. Answers' = IF snd.pc = "ended" THEN <<>> ELSE F
    BY <1>1, <1>2, <1>6, <2>1, Words
  <2>3. GreetingEach(Answers, Stimuli)'
    BY <1>1, <1>2, <1>3, <1>4, <2>1, <2>2 DEF GreetingEach, Between
  <2> QED  BY <1>2, <1>4, <1>5, <1>6, <2>3 DEF Intact, Phases, InStep
<1>7. CASE SDoomed /\ SenderDoomed
  <2>1. Answers' = Answers
    BY <1>2, <1>7
  <2>2. SenderDoomed'
    BY <1>2, <1>3, <1>4, <1>7, <2>1 DEF SenderDoomed
  <2> QED  BY <1>2, <1>4, <1>5, <1>7, <2>2 DEF Intact, Phases
<1> QED  BY <1>2, <1>4, <1>6, <1>7 DEF Phases

LEMMA ReceiverIntact ==
  ASSUME TypeOK, Drained, Intact, ReceiverStep, faults = 0, faults' = 0
  PROVE  Intact'
<1>0. ReceiverOnly
  BY DEF ReceiverStep
<1>1. CASE Invite
  BY <1>0, <1>1, InviteIntact
<1>2. CASE FileOffered
  BY <1>0, <1>2, FileOfferedIntact
<1>3. CASE NoOffer
  BY <1>0, <1>3, NoOfferIntact
<1>4. CASE FinReceived
  BY <1>0, <1>4, FinReceivedIntact
<1>5. CASE RIgnores
  BY <1>0, <1>5, RIgnoresIntact
<1>6. CASE Tears
  BY <1>6, TearsNot
<1>7. CASE InfoCorrupt
  BY <1>7, InfoCorruptNot
<1>8. CASE Refuse
  BY <1>0, <1>8, RefuseIntact
<1>9. CASE OpenFile
  BY <1>0, <1>9, OpenFileIntact
<1>10. CASE DataComes
  BY <1>0, <1>10, DataComesIntact
<1>11. CASE WriteChunk
  BY <1>0, <1>11, WriteChunkIntact
<1>12. CASE DataEnds
  BY <1>0, <1>12, DataEndsIntact
<1>13. CASE DataStalls
  BY <1>13, DataStallsNot
<1>14. CASE CloseFile
  BY <1>0, <1>14, CloseFileIntact
<1>15. CASE RDone
  BY <1>0, <1>15, RDoneIntact
<1>16. CASE RCancelled
  <2>1. /\ Quit("R", <<Frame("CAN")>>) /\ rcv.pc # "ended" /\ rcv'.pc = "ended"
        /\ snd' = snd /\ disk' = disk /\ counted' = counted /\ reported' = reported
    BY <1>0, <1>16 DEF RCancelled, REnds, StoppedReceiver, SameFiles, ReceiverOnly
  <2> QED  BY <2>1, ReceiverCancelledIntact
<1>17. CASE RRaises
  BY <1>17, RRaisesNot
<1> QED
  BY <1>1, <1>2, <1>3, <1>4, <1>5, <1>6, <1>7, <1>8, <1>9, <1>10, <1>11, <1>12, <1>13, <1>14,
     <1>15, <1>16, <1>17 DEF ReceiverStep

LEMMA InterruptIntact ==
  ASSUME TypeOK, Drained, Intact, NEW p \in Sides, Interrupt(p)
  PROVE  Intact'
<1>0. ~Stopped(p) /\ Quit(p, <<Frame("CAN")>>) /\ disk' = disk /\ counted' = counted /\ reported' = reported
  BY DEF Interrupt
<1>1. CASE p = "S"
  <2>1. snd.pc # "ended" /\ snd'.pc = "ended" /\ rcv' = rcv /\ Quit("S", <<Frame("CAN")>>)
    BY <1>0, <1>1 DEF Interrupt, Stopped, StoppedSender
  <2> QED  BY <1>0, <2>1, SenderCancelledIntact
<1>2. CASE p = "R"
  <2>1. rcv.pc # "ended" /\ rcv'.pc = "ended" /\ snd' = snd /\ Quit("R", <<Frame("CAN")>>)
    BY <1>0, <1>2 DEF Interrupt, Stopped, StoppedReceiver
  <2> QED  BY <1>0, <2>1, ReceiverCancelledIntact
<1> QED  BY <1>1, <1>2 DEF Sides

\* The receiver's directory holds nothing at first that could not be resumed.
FrontDirectories ==
  \A d \in Directories : \A f \in Files : d[f] # Absent => IsFront(d[f], f)

LEMMA InitClean == ASSUME FrontDirectories PROVE Init => Drained /\ Clean
<1> SUFFICES ASSUME Init PROVE Drained /\ Intact
  BY DEF Clean
<1>1. /\ wire["S"] = <<>> /\ wire["R"] = <<>> /\ Sides = {"S", "R"} /\ disk \in Directories
      /\ snd.pc = "ended" /\ rcv.pc = "ended" /\ reported = {} /\ counted = {}
  BY DEF Init, Sides, StoppedSender, StoppedReceiver
<1>2. /\ HasCut /\ ~SDoomed /\ ~RDoomed /\ Answers = <<>> /\ Stimuli = <<>>
  BY <1>1, HeedsNothing DEF HasCut, SDoomed, RDoomed, Answers, Stimuli
<1>3. InStep
  BY <1>1, <1>2 DEF InStep, GreetingEach
<1>4. Copies
  BY <1>1 DEF Copies, Coherent, Writing, Fronts, CountedIsWhole, FrontDirectories
<1> QED  BY <1>1, <1>2, <1>3, <1>4 DEF Drained, Intact, Phases

LEMMA NextClean == TypeOK /\ Drained /\ Clean /\ [Next]_vars => Clean'
<1> SUFFICES ASSUME TypeOK, Drained, Clean, [Next]_vars, faults' = 0 PROVE Intact'
  BY DEF Clean
<1>1. faults \in Nat
  BY ZBoundsAssumption DEF TypeOK
<1>2. CASE SenderStep
  <2>1. faults = 0
    BY <1>1, <1>2 DEF SenderStep, Greeted, SkipFile, Offer, Positioned, Stream, Completed, AllOffered,
       SignOff, GiveUp, SIgnores, SCancelled, SRaises, SReads, TimesOut
  <2> QED  BY <1>2, <2>1, SenderIntact DEF Clean
<1>3. CASE ReceiverStep
  <2>1. faults = 0
    BY <1>1, <1>3 DEF ReceiverStep, Invite, FileOffered, NoOffer, FinReceived, RIgnores, Tears,
       InfoCorrupt, Refuse, OpenFile, DataComes, WriteChunk, DataEnds, DataStalls, CloseFile, RDone,
       RCancelled, RRaises, RReads, Subpacket, OverAndOut, TimesOut
  <2> QED  BY <1>3, <2>1, ReceiverIntact DEF Clean
<1>4. ASSUME NEW p \in Sides, Launch(p) PROVE Intact'
  <2>1. Intact
    BY <1>4 DEF Launch, Clean
  <2> QED  BY <1>4, <2>1, LaunchSenderIntact, LaunchReceiverIntact DEF Sides
<1>5. ASSUME NEW p \in Sides, Interrupt(p) PROVE Intact'
  <2>1. Intact
    BY <1>5 DEF Interrupt, Clean
  <2> QED  BY <1>5, <2>1, InterruptIntact
<1>6. ASSUME NEW p \in Sides, Spoil(p) PROVE FALSE
  BY <1>1, <1>6 DEF Spoil
<1>7. CASE UNCHANGED vars
  <2>1. UNCHANGED <<snd, rcv, wire, disk, reported, counted, faults>>
    BY <1>7 DEF vars
  <2>2. Intact
    BY <2>1 DEF Clean
  <2>3. UNCHANGED <<Answers, Stimuli, SDoomed, RDoomed>>
    BY <2>1 DEF Answers, Stimuli, SDoomed, RDoomed
  <2>4. HasCut' /\ Copies'
    BY <2>1, <2>2, <2>3 DEF Intact, HasCut, Copies, Coherent, Writing, Fronts, CountedIsWhole
  <2>5. /\ InStep' <=> InStep
        /\ ReceiverDoomed' <=> ReceiverDoomed
        /\ SenderDoomed' <=> SenderDoomed
    <3>1. UNCHANGED <<Offered, Answered>>
      BY <2>1 DEF Offered, Answered
    <3>2. InStep' <=> InStep
      BY <2>1, <2>3, <3>1 DEF InStep, GreetingEach, Proposing, Sending, SentTo, Parting, Between
    <3>3. (ReceiverDoomed' <=> ReceiverDoomed) /\ (SenderDoomed' <=> SenderDoomed)
      BY <2>1, <2>3, <3>1 DEF ReceiverDoomed, SenderDoomed, Between, Writing
    <3> QED  BY <3>2, <3>3
  <2> QED  BY <2>2, <2>3, <2>4, <2>5 DEF Intact, Phases
<1>8. CASE Terminated
  BY <1>7, <1>8 DEF Terminated
<1> QED  BY <1>2, <1>3, <1>4, <1>5, <1>6, <1>7, <1>8 DEF Next

LEMMA CleanInvariance == ASSUME FrontDirectories PROVE Spec => [](TypeOK /\ Drained /\ Clean)
<1>1. Init => TypeOK /\ Drained /\ Clean
  BY InitTypes, InitClean
<1>2. TypeOK /\ Drained /\ Clean /\ [Next]_vars => (TypeOK /\ Drained /\ Clean)'
  BY NextTypes, NextDrained, NextClean
<1> QED  BY <1>1, <1>2, PTL DEF Spec

\* As long as the line damages nothing, what is on disk is the front of the file and what
\* recv() counts is the file, whoever is interrupted and started again and however often.
THEOREM CopiesClean == ASSUME FrontDirectories PROVE Spec => []CleanCopies
<1>1. Clean => CleanCopies
  BY DEF Clean, Intact, Copies, Fronts, CleanCopies
<1> QED  BY <1>1, CleanInvariance, PTL

\* The front of a file has no data of another one.
LEMMA FrontsAreOwn ==
  ASSUME NEW f \in Files, NEW c \in Seq(Unit), IsFront(c, f)
  PROVE  /\ Units(c) \subseteq Own(f)
         /\ \A i \in 1..Len(c) : \E j \in 1..Len(Content[f]) : c[i] = Content[f][j]
<1>1. Content[f] \in Seq(Unit) /\ Len(Content[f]) \in Nat /\ Len(c) \in Nat /\ Len(c) <= Len(Content[f])
  BY ZFilesAssumption DEF IsFront
<1>2. ASSUME NEW i \in 1..Len(c) PROVE i \in 1..Len(Content[f]) /\ c[i] = Content[f][i]
  <2>1. c = SubSeq(Content[f], 1, Len(c))
    BY DEF IsFront
  <2>2. SubSeq(Content[f], 1, Len(c))[i] = Content[f][i]
    BY <1>1
  <2>3. i \in 1..Len(Content[f])
    BY <1>1
  <2> QED  BY <2>1, <2>2, <2>3
<1> QED  BY <1>2 DEF Units, Own

LEMMA FrontsOwnDirectories == FrontDirectories => OwnDirectories
<1> SUFFICES ASSUME FrontDirectories, NEW d \in Directories, NEW f \in Files, d[f] # Absent
             PROVE  Units(d[f]) \subseteq Own(f)
  BY DEF OwnDirectories
<1>1. d[f] \in Seq(Unit) /\ IsFront(d[f], f)
  BY ZFilesAssumption DEF FrontDirectories
<1> QED  BY <1>1, FrontsAreOwn

\* send() counts no file before recv() has: neither in a pair of programs that are started
\* once, however many frames are damaged or late, nor in any number of them, interrupted
\* and started again, over a line that damages nothing.
THEOREM ReportsCounted == ASSUME FrontDirectories PROVE Spec => []ReportedIsCounted
<1>1. OwnDirectories
  BY FrontsOwnDirectories
<1>2. Spec => [](TypeOK /\ Drained /\ Pair)
  BY <1>1, PairInvariance
<1>3. Pair /\ Clean => ReportedIsCounted
  BY DEF Pair, Conversation, Clean, Intact, Copies, ReportedIsCounted
<1> QED  BY <1>2, <1>3, CleanInvariance, PTL

\* A copy contains data of its own file only, although neither ZDATA nor ZEOF says which
\* file it belongs to: in the same two cases.
THEOREM DataOwn == ASSUME FrontDirectories PROVE Spec => [](launches <= 2 \/ faults # 1 => OwnData)
<1>1. OwnDirectories
  BY FrontsOwnDirectories
<1>2. Spec => [](TypeOK /\ Drained /\ Pair)
  BY <1>1, PairInvariance
<1>3. TypeOK /\ Pair /\ Clean => (launches <= 2 \/ faults # 1 => OwnData)
  <2> SUFFICES ASSUME TypeOK, Pair, Clean, launches <= 2 \/ faults = 0,
                      NEW f \in Files, disk[f] # Absent, NEW i \in 1..Len(disk[f])
               PROVE  disk[f][i] = Zero \/ \E j \in 1..Len(Content[f]) : disk[f][i] = Content[f][j]
    <3>1. TypeOK => faults \in Nat
      BY ZBoundsAssumption DEF TypeOK
    <3>2. faults \in Nat /\ faults # 1 /\ faults <= 1 => faults = 0
      OBVIOUS
    <3> QED  BY <3>1, <3>2 DEF OwnData
  <2>1. disk[f] \in Seq(Unit)
    BY DEF TypeOK
  <2>2. CASE launches <= 2
    <3>1. Units(disk[f]) \subseteq Own(f)
      BY <2>2 DEF Pair, Conversation, OwnUnits
    <3>2. disk[f][i] \in Own(f)
      BY <3>1 DEF Units
    <3> QED  BY <3>2 DEF Own, Units
  <2>3. CASE faults = 0
    <3>1. IsFront(disk[f], f)
      BY <2>3 DEF Clean, Intact, Copies, Fronts
    <3> QED  BY <2>1, <3>1, FrontsAreOwn
  <2> QED  BY <2>2, <2>3
<1> QED  BY <1>2, <1>3, CleanInvariance, PTL
=============================================================================
