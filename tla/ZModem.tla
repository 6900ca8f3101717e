------------------------------- MODULE ZModem -------------------------------
(***************************************************************************)
(* sz and rz: the sender ZMODEM.send() and the receiver ZMODEM.recv(), the *)
(* line between them, and the directory the receiver writes to.            *)
(*                                                                         *)
(* A frame of the model is a header (all are sent in hexadecimal) or a     *)
(* data subpacket.  Both programs read one frame at a time, and what a     *)
(* program does with a frame depends on which of its loops is reading:     *)
(* _recv_header() hunts for the next header and skips everything else,     *)
(* _recv_data() takes whatever comes as a subpacket.  Inline compression   *)
(* changes how a file is cut into subpackets and nothing else: a           *)
(* subpacket that fails its CRC ends the frame before the decompressor     *)
(* sees it.  So it is left out, and with it a subpacket is one unit.       *)
(*                                                                         *)
(* A definition marked "Variant" is an original with a plausible bug, which *)
(* no specification uses; it shows that a property would notice the bug.   *)
(***************************************************************************)
EXTENDS Integers, Sequences, FiniteSets

CONSTANTS
  Files, Unit,       \* files of the sender, and the alphabet of contents
  None, Absent,      \* no file; no such file in the receiver's directory
  Zero,              \* what truncate() fills a file with that is too short
  Content,           \* contents of each file
  Queues,            \* the file lists that sz may be called with
  Overwrites,        \* whether it may be called with -y
  Directories,       \* what the receiver's directory may hold at first
  Unsafe,            \* names that _recv_file() refuses
  Unreadable,        \* files that sz cannot read
  MaxLaunches,       \* bound: programs started
  MaxBreaks,         \* bound: transfers interrupted by a user
  Mishaps,           \* kinds of frames that the line damages, and "pause" where
                     \* a program or the line may pause for longer than a timeout
  MaxFaults          \* bound: such faults

ASSUME ZFilesAssumption ==
  /\ None \notin Files /\ Absent \notin Seq(Unit) /\ Zero \in Unit
  /\ Content \in [Files -> Seq(Unit)]
  /\ Queues \subseteq Seq(Files) /\ Overwrites \subseteq BOOLEAN
  /\ Directories \subseteq [Files -> Seq(Unit) \cup {Absent}]
ASSUME ZBoundsAssumption ==
  /\ MaxLaunches \in Nat /\ MaxBreaks \in Nat /\ MaxFaults \in Nat
ASSUME ZMishapsAssumption == "nothing" \notin Mishaps    \* a frame is damaged, or none

Sides == {"S", "R"}
Peer(p) == IF p = "S" THEN "R" ELSE "S"

(***************************************************************************)
(* Frames.                                                                 *)
(***************************************************************************)
Frame(k) == [kind |-> k]
FileHeader(over) == [kind |-> "ZFILE", over |-> over]
Info(f) == [kind |-> "info", file |-> f]
Position(k, n) == [kind |-> k, pos |-> n]
Chunk(u) == [kind |-> "chunk", unit |-> u]

Plain == {"ZRQINIT", "ZRINIT", "ZFIN", "ZCOMPL", "ZNAK", "ZEOF", "OO", "CAN", "end"}
Spoiled == {"noise", "badhex", "badcrc", "torn", "badesc"}
Subpackets == {"info", "chunk", "end", "badcrc", "torn", "badesc"}
NoHeaders == Subpackets \cup {"noise", "OO"}

Frames ==
  [kind : Plain \cup Spoiled] \cup [kind : {"ZFILE"}, over : BOOLEAN]
    \cup [kind : {"info"}, file : Files] \cup [kind : {"ZRPOS", "ZDATA"}, pos : Nat]
    \cup [kind : {"chunk"}, unit : Unit]

VARIABLES
  snd,         \* the sender's loop and locals
  rcv,         \* the receiver's loop and locals
  wire,        \* frames on their way to each side, oldest first
  disk,        \* the receiver's directory
  reported,    \* files that the sender has counted since it last offered them
  counted,     \* files that the receiver has counted since it last opened them
  launches, breaks, faults

vars == <<snd, rcv, wire, disk, reported, counted, launches, breaks, faults>>

Stopped(p) == IF p = "S" THEN snd.pc = "ended" ELSE rcv.pc = "ended"
StoppedSender(r) == [pc |-> "ended", result |-> r, queue |-> <<>>, over |-> FALSE, pos |-> 0]
StoppedReceiver(r) ==
  [pc |-> "ended", result |-> r, over |-> FALSE, file |-> None, torn |-> FALSE]

Init ==
  /\ snd = StoppedSender("none") /\ rcv = StoppedReceiver("none")
  /\ wire = [p \in Sides |-> <<>>]
  /\ disk \in Directories
  /\ reported = {} /\ counted = {}
  /\ launches = 0 /\ breaks = 0 /\ faults = 0

-----------------------------------------------------------------------------
(***************************************************************************)
(* The line.  What is written to a program that does not run goes to the   *)
(* terminal; what a program leaves unread is drained when it ends.         *)
(***************************************************************************)
Heard(p, frames) == IF Stopped(p) THEN <<>> ELSE wire[p] \o frames

\* p reads n frames and writes some.
Pass(p, n, frames) ==
  wire' = [wire EXCEPT ![p] = SubSeq(@, n + 1, Len(@)), ![Peer(p)] = Heard(Peer(p), frames)]

\* p writes frames and ends.
Quit(p, frames) ==
  wire' = [wire EXCEPT ![p] = <<>>, ![Peer(p)] = Heard(Peer(p), frames)]

Coming(p) == IF wire[p] = <<>> THEN "nothing" ELSE Head(wire[p]).kind

AwaitedBy(pc) ==
  CASE pc = "fin" -> "ZFIN" [] pc = "rpos" -> "ZRPOS" [] OTHER -> "ZRINIT"
SWaits == snd.pc \in {"rinit", "rpos", "eof", "fin"}
Waiting(p) == wire[p] = <<>> /\ IF p = "S" THEN SWaits \/ Stopped("S") ELSE TRUE

\* Nothing came for the length of the timeout: because the other side waits too,
\* or because of a pause on the way, which is a fault.
TimesOut(p) ==
  /\ wire[p] = <<>>
  /\ \/ Waiting(Peer(p)) /\ UNCHANGED faults
     \/ ~Waiting(Peer(p)) /\ "pause" \in Mishaps /\ faults < MaxFaults /\ faults' = faults + 1

SenderOnly == UNCHANGED <<rcv, disk, counted, launches, breaks>>
ReceiverOnly == UNCHANGED <<snd, reported, launches, breaks>>

-----------------------------------------------------------------------------
(***************************************************************************)
(* The sender: ZMODEM.send().                                              *)
(***************************************************************************)
Launch(p) ==
  /\ Stopped(p) /\ launches < MaxLaunches /\ launches' = launches + 1
  /\ \/ /\ p = "S"
        /\ \E q \in Queues, over \in Overwrites :
             snd' = [pc |-> "rinit", result |-> "none", queue |-> q, over |-> over, pos |-> 0]
        /\ Pass("S", 0, <<Frame("ZRQINIT")>>) /\ UNCHANGED rcv
     \/ /\ p = "R"
        /\ rcv' = [StoppedReceiver("none") EXCEPT !.pc = "hello"]
        /\ Pass("R", 0, <<Frame("ZRINIT")>>) /\ UNCHANGED snd
  /\ UNCHANGED <<disk, reported, counted, breaks, faults>>

SReads(pc, kind) == snd.pc = pc /\ Coming("S") = kind /\ UNCHANGED faults

Greeted ==
  /\ SReads("rinit", "ZRINIT")
  /\ snd' = [snd EXCEPT !.pc = "next"]
  /\ Pass("S", 1, <<>>) /\ UNCHANGED reported

Cannot == snd.queue # <<>> /\ Head(snd.queue) \in Unreadable
SkipFile ==
  /\ snd.pc = "next" /\ Cannot
  /\ snd' = [snd EXCEPT !.queue = Tail(@)]
  /\ UNCHANGED <<wire, reported, faults>>

Offer ==
  /\ snd.pc = "next" /\ snd.queue # <<>> /\ ~Cannot
  /\ snd' = [snd EXCEPT !.pc = "rpos"]
  /\ Pass("S", 0, <<FileHeader(snd.over), Info(Head(snd.queue))>>)
  /\ reported' = reported \ {Head(snd.queue)} /\ UNCHANGED faults

Positioned ==
  /\ SReads("rpos", "ZRPOS")
  /\ LET n == Head(wire["S"]).pos IN
       /\ snd' = [snd EXCEPT !.pc = "stream", !.pos = n]
       /\ Pass("S", 1, <<Position("ZDATA", n)>>)
  /\ UNCHANGED reported

\* The stream is written without a look at what comes back.
Streamed(f, n) ==
  IF n < Len(Content[f]) THEN <<Chunk(Content[f][n + 1])>> ELSE <<Frame("end"), Frame("ZEOF")>>
Stream ==
  /\ snd.pc = "stream"
  /\ LET f == Head(snd.queue) IN
       /\ snd' = IF snd.pos < Len(Content[f]) THEN [snd EXCEPT !.pos = @ + 1]
                                               ELSE [snd EXCEPT !.pc = "eof"]
       /\ Pass("S", 0, Streamed(f, snd.pos))
  /\ UNCHANGED <<reported, faults>>

\* Variant of Completed: silence after ZEOF is taken for consent, as it is after ZFIN.
CompletedInSilence ==
  /\ SReads("eof", "ZRINIT") \/ (snd.pc = "eof" /\ TimesOut("S"))
  /\ snd' = [snd EXCEPT !.pc = "next", !.queue = Tail(@)]
  /\ reported' = reported \cup {Head(snd.queue)}
  /\ Pass("S", IF wire["S"] = <<>> THEN 0 ELSE 1, <<>>)

Completed ==
  /\ SReads("eof", "ZRINIT")
  /\ snd' = [snd EXCEPT !.pc = "next", !.queue = Tail(@)]
  /\ reported' = reported \cup {Head(snd.queue)}
  /\ Pass("S", 1, <<>>)

AllOffered ==
  /\ snd.pc = "next" /\ snd.queue = <<>>
  /\ snd' = [snd EXCEPT !.pc = "fin"]
  /\ Pass("S", 0, <<Frame("ZFIN")>>) /\ UNCHANGED <<reported, faults>>

SEnds(r, frames) == snd' = StoppedSender(r) /\ Quit("S", frames) /\ UNCHANGED reported

\* ZFIN, or no answer to it: over and out, and send() has nothing to complain of.
SignOff ==
  /\ SReads("fin", "ZFIN") \/ (snd.pc = "fin" /\ TimesOut("S"))
  /\ SEnds("ended", <<Frame("OO")>>)

\* Variant of GiveUp: it goes on without the answer.
GoOn ==
  /\ snd.pc \in {"rinit", "rpos", "eof"} /\ TimesOut("S")
  /\ snd' = CASE snd.pc = "rinit" -> [snd EXCEPT !.pc = "next"]
              [] snd.pc = "rpos" -> [snd EXCEPT !.pc = "stream", !.pos = 0]
              [] OTHER -> [snd EXCEPT !.pc = "next", !.queue = Tail(@)]
  /\ Pass("S", 0, IF snd.pc = "rpos" THEN <<Position("ZDATA", 0)>> ELSE <<>>)
  /\ UNCHANGED reported
GiveUp == snd.pc \in {"rinit", "rpos", "eof"} /\ TimesOut("S") /\ SEnds("failed", <<>>)

\* Any header but the awaited one, and anything that is no header, is passed over.
SIgnores ==
  /\ SWaits /\ wire["S"] # <<>> /\ Coming("S") \notin {AwaitedBy(snd.pc), "CAN", "badhex"}
  /\ Pass("S", 1, <<>>) /\ UNCHANGED <<snd, reported, faults>>

\* Five CAN raise KeyboardInterrupt, upon which sz and rz send five of their own.
SCancelled ==
  SWaits /\ Coming("S") = "CAN" /\ SEnds("cancelled", <<Frame("CAN")>>) /\ UNCHANGED faults

\* _recv_hex_header() returns one value where _recv_header() unpacks two.
SRaises == SWaits /\ Coming("S") = "badhex" /\ SEnds("raised", <<>>) /\ UNCHANGED faults

SenderStep ==
  /\ \/ Greeted \/ SkipFile \/ Offer \/ Positioned \/ Stream \/ Completed
     \/ AllOffered \/ SignOff \/ GiveUp \/ SIgnores \/ SCancelled \/ SRaises
  /\ SenderOnly

-----------------------------------------------------------------------------
(***************************************************************************)
(* The receiver: ZMODEM.recv() and _recv_file().                           *)
(***************************************************************************)
RReads(pcs, kind) == rcv.pc \in pcs /\ Coming("R") = kind /\ UNCHANGED faults
Goes(pc) == rcv' = [rcv EXCEPT !.pc = pc]
SameFiles == UNCHANGED <<disk, counted>>

\* ZRQINIT while the first ZRINIT is unanswered, or silence: ZRINIT once more.
Invite ==
  /\ \/ RReads({"hello"}, "ZRQINIT") /\ Pass("R", 1, <<Frame("ZRINIT")>>)
     \/ /\ rcv.pc \in {"hello", "loop"} /\ TimesOut("R")
        /\ Pass("R", 0, <<Frame("ZRINIT")>>)
  /\ UNCHANGED rcv /\ SameFiles

FileOffered ==
  /\ RReads({"hello", "loop"}, "ZFILE")
  /\ rcv' = [rcv EXCEPT !.pc = "info", !.over = Head(wire["R"]).over, !.torn = FALSE]
  /\ Pass("R", 1, <<>>) /\ SameFiles

NoOffer ==
  /\ \/ \E k \in {"ZDATA", "ZEOF"} : RReads({"hello", "loop"}, k)
     \/ RReads({"loop"}, "ZRQINIT")
  /\ Goes("loop")
  /\ Pass("R", 1, <<Frame("ZCOMPL"), Frame("ZRINIT")>>) /\ SameFiles

FinReceived ==
  /\ RReads({"hello", "loop"}, "ZFIN")
  /\ Goes("over") /\ Pass("R", 1, <<Frame("ZFIN")>>) /\ SameFiles

\* Variant of RIgnores: CAN is skipped like any other noise between two files.
RIgnoresCancel ==
  /\ \/ rcv.pc \in {"hello", "loop", "file"} /\ Coming("R") \in NoHeaders
     \/ rcv.pc = "loop" /\ Coming("R") = "CAN"
     \/ rcv.pc = "file" /\ Coming("R") \in {"ZRQINIT", "ZFILE", "ZFIN"}
     \/ rcv.pc = "over" /\ Coming("R") \notin {"nothing", "OO", "CAN"}
  /\ Pass("R", 1, <<>>) /\ UNCHANGED <<rcv, faults>> /\ SameFiles

\* _recv_header() skips what is no header; _recv_file() also the headers it does
\* not know; the wait for "OO" everything else.
RIgnores ==
  /\ \/ rcv.pc \in {"hello", "loop", "file"} /\ Coming("R") \in NoHeaders
     \/ rcv.pc = "file" /\ Coming("R") \in {"ZRQINIT", "ZFILE", "ZFIN"}
     \/ rcv.pc = "over" /\ Coming("R") \notin {"nothing", "OO", "CAN"}
  /\ Pass("R", 1, <<>>) /\ UNCHANGED <<rcv, faults>> /\ SameFiles

\* Instead of a whole subpacket comes one without its end, or a header: its bytes
\* are taken for data, up to the end of the next subpacket.
Subpacket(pc) == rcv.pc = pc /\ UNCHANGED faults
Tears ==
  /\ rcv.pc \in {"info", "data"}
  /\ Coming("R") \notin (Subpackets \ {"torn"}) \cup {"nothing", "CAN"}
  /\ rcv' = [rcv EXCEPT !.torn = TRUE]
  /\ Pass("R", 1, <<>>) /\ UNCHANGED faults /\ SameFiles

BadSubpacket ==
  \/ Coming("R") = "badcrc"
  \/ rcv.torn /\ Coming("R") \in {"info", "chunk", "end"}

InfoCorrupt ==
  /\ Subpacket("info") /\ BadSubpacket
  /\ Goes("loop") /\ Pass("R", 1, <<Frame("ZNAK"), Frame("ZRINIT")>>) /\ SameFiles

Refuse ==
  /\ Subpacket("info") /\ ~rcv.torn /\ Coming("R") = "info"
  /\ Head(wire["R"]).file \in Unsafe
  /\ Goes("loop") /\ Pass("R", 1, <<Frame("ZRINIT")>>) /\ SameFiles

\* Without ZF1_ZMCLOB a file that exists is appended to, from its size on.
Kept(f) == IF disk[f] = Absent \/ rcv.over THEN <<>> ELSE disk[f]

\* Variants of OpenFile: a new file is created with its first data; a file that is
\* appended to is asked for from its start.
OpenFileAs(f, created, pos) ==
  /\ Subpacket("info") /\ ~rcv.torn /\ Coming("R") = "info"
  /\ f = Head(wire["R"]).file /\ f \notin Unsafe
  /\ rcv' = [rcv EXCEPT !.pc = "file", !.file = f]
  /\ disk' = [disk EXCEPT ![f] = created]
  /\ counted' = counted \ {f}
  /\ Pass("R", 1, <<Position("ZRPOS", pos)>>)
OpenFileLazily ==
  \E f \in Files :
    OpenFileAs(f, IF disk[f] = Absent THEN Absent ELSE Kept(f), Len(Kept(f)))
OpenFileFromStart == \E f \in Files : OpenFileAs(f, Kept(f), 0)

OpenFile ==
  /\ Subpacket("info") /\ ~rcv.torn /\ Coming("R") = "info"
  /\ LET f == Head(wire["R"]).file IN
       /\ f \notin Unsafe
       /\ rcv' = [rcv EXCEPT !.pc = "file", !.file = f]
       /\ disk' = [disk EXCEPT ![f] = Kept(f)]
       /\ counted' = counted \ {f}
       /\ Pass("R", 1, <<Position("ZRPOS", Len(Kept(f)))>>)

DataComes ==
  /\ RReads({"file"}, "ZDATA")
  /\ rcv' = [rcv EXCEPT !.pc = "data", !.torn = FALSE]
  /\ Pass("R", 1, <<>>) /\ SameFiles

WriteChunk ==
  /\ Subpacket("data") /\ ~rcv.torn /\ Coming("R") = "chunk"
  /\ disk' = [disk EXCEPT ![rcv.file] = Append(@, Head(wire["R"]).unit)]
  /\ Pass("R", 1, <<>>) /\ UNCHANGED <<rcv, counted>>

\* The frame ends; after a wrong CRC, or a silence, without the rest of its data,
\* and without a word to the sender.
DataEnds ==
  /\ \/ Subpacket("data") /\ Coming("R") = "end"
     \/ Subpacket("data") /\ BadSubpacket
  /\ Goes("file") /\ Pass("R", 1, <<>>) /\ SameFiles
DataStalls == rcv.pc = "data" /\ TimesOut("R") /\ Goes("file") /\ UNCHANGED wire /\ SameFiles

\* The file is cut, or filled, to the size that the sender announced.
Sized(c, n) == [i \in 1..n |-> IF i <= Len(c) THEN c[i] ELSE Zero]

\* Variant of CloseFile: the sender is not told that its file is complete.
CloseFileQuietly ==
  /\ \/ RReads({"file"}, "ZEOF") /\ Pass("R", 1, <<>>)
     \/ rcv.pc = "file" /\ TimesOut("R") /\ UNCHANGED wire
  /\ disk' = [disk EXCEPT ![rcv.file] = Sized(@, Len(Content[rcv.file]))]
  /\ counted' = counted \cup {rcv.file}
  /\ rcv' = [rcv EXCEPT !.pc = "loop", !.file = None]

CloseFile ==
  /\ \/ RReads({"file"}, "ZEOF") /\ Pass("R", 1, <<Frame("ZRINIT")>>)
     \/ rcv.pc = "file" /\ TimesOut("R") /\ Pass("R", 0, <<Frame("ZRINIT")>>)
  /\ disk' = [disk EXCEPT ![rcv.file] = Sized(@, Len(Content[rcv.file]))]
  /\ counted' = counted \cup {rcv.file}
  /\ rcv' = [rcv EXCEPT !.pc = "loop", !.file = None]

REnds(r, frames) == rcv' = StoppedReceiver(r) /\ Quit("R", frames) /\ SameFiles

OverAndOut ==
  RReads({"over"}, "OO") \/ (rcv.pc = "over" /\ TimesOut("R"))
RDone == OverAndOut /\ REnds("ended", <<>>)

RCancelled ==
  rcv.pc # "ended" /\ Coming("R") = "CAN" /\ UNCHANGED faults
    /\ REnds("cancelled", <<Frame("CAN")>>)

\* A header with an illegal digit; the length of no data (the silence comes where
\* _recv_data() returns None); an escape that _recv() does not know.
RRaises ==
  /\ \/ RReads({"hello", "loop", "file"}, "badhex")
     \/ rcv.pc = "info" /\ TimesOut("R")
     \/ RReads({"info", "data"}, "badesc")
  /\ REnds("raised", <<>>)

ReceiverStep ==
  /\ \/ Invite \/ FileOffered \/ NoOffer \/ FinReceived \/ RIgnores \/ Tears
     \/ InfoCorrupt \/ Refuse \/ OpenFile \/ DataComes \/ WriteChunk \/ DataEnds
     \/ DataStalls \/ CloseFile \/ RDone \/ RCancelled \/ RRaises
  /\ ReceiverOnly

-----------------------------------------------------------------------------
(***************************************************************************)
(* The user and the line.                                                  *)
(***************************************************************************)
Interrupt(p) ==
  /\ ~Stopped(p) /\ breaks < MaxBreaks /\ breaks' = breaks + 1
  /\ \/ p = "S" /\ snd' = StoppedSender("cancelled") /\ UNCHANGED rcv
     \/ p = "R" /\ rcv' = StoppedReceiver("cancelled") /\ UNCHANGED snd
  /\ Quit(p, <<Frame("CAN")>>)
  /\ UNCHANGED <<disk, reported, counted, launches, faults>>

\* What a damaged frame may be to its reader.
Damaged(k) ==
  CASE k \in Subpackets -> {"badcrc", "torn", "badesc"}
    [] k \in {"OO", "CAN"} -> {"noise"}
    [] OTHER -> {"noise", "badhex"}
Spoil(p) ==
  /\ faults < MaxFaults /\ faults' = faults + 1
  /\ Coming(p) \in Mishaps
  /\ \E k \in Damaged(Coming(p)) : wire' = [wire EXCEPT ![p] = <<Frame(k)>> \o Tail(@)]
  /\ UNCHANGED <<snd, rcv, disk, reported, counted, launches, breaks>>

Terminated ==
  /\ \A p \in Sides : Stopped(p)
  /\ launches = MaxLaunches /\ UNCHANGED vars

Next ==
  \/ SenderStep \/ ReceiverStep \/ Terminated
  \/ \E p \in Sides : Launch(p) \/ Interrupt(p) \/ Spoil(p)

Spec == Init /\ [][Next]_vars

\* Both programs run; nobody has to start or interrupt one, and damage is not owed.
FairSpec == Spec /\ WF_vars(SenderStep) /\ WF_vars(ReceiverStep)

-----------------------------------------------------------------------------
(***************************************************************************)
(* Properties.                                                             *)
(***************************************************************************)
Results == {"none", "ended", "failed", "cancelled", "raised"}
Senders == [pc : {"rinit", "next", "rpos", "stream", "eof", "fin", "ended"},
            result : Results, queue : Seq(Files), over : BOOLEAN, pos : Nat]
Receivers == [pc : {"hello", "loop", "info", "file", "data", "over", "ended"},
              result : Results, over : BOOLEAN, file : Files \cup {None}, torn : BOOLEAN]

\* The type invariant; the last conjuncts say that a write has an open file to go
\* to and that the sender streams a file it has.
TypeOK ==
  /\ snd \in Senders /\ rcv \in Receivers
  /\ wire \in [Sides -> Seq(Frames)]
  /\ disk \in [Files -> Seq(Unit) \cup {Absent}]
  /\ reported \subseteq Files /\ counted \subseteq Files
  /\ launches \in 0..MaxLaunches /\ breaks \in 0..MaxBreaks /\ faults \in 0..MaxFaults
  /\ rcv.pc \in {"file", "data"} => rcv.file # None /\ disk[rcv.file] # Absent
  /\ snd.pc \in {"rpos", "stream", "eof"} => snd.queue # <<>>

IsFront(c, f) == Len(c) <= Len(Content[f]) /\ c = SubSeq(Content[f], 1, Len(c))

\* Every file that recv() counts as received is the file that was sent.
CountedIsWhole == \A f \in counted : disk[f] = Content[f]

\* As long as the line damages nothing, whoever is interrupted and started again
\* and however often: what is on disk is the front of the file, so that it can be
\* resumed, and what recv() counts is the file.
CleanCopies ==
  faults = 0 => /\ CountedIsWhole
                /\ \A f \in Files : disk[f] # Absent => IsFront(disk[f], f)

\* send() counts no file before recv() has: the ZRINIT that it takes for the answer
\* to ZEOF was sent after the file was closed.  This survives one damaged frame or
\* early timeout in a pair of programs, or any number of interruptions and restarts,
\* but not both: a receiver that is started again greets with the same ZRINIT.
ReportedIsCounted == faults = 0 \/ launches <= 2 => reported \subseteq counted

\* A copy contains data of its own file only, although neither ZDATA nor ZEOF says
\* which file it belongs to: one damaged frame or early timeout does not suffice to mix
\* two files, and neither do more of them between two programs that are started once.
OwnData ==
  launches <= 2 \/ faults <= 1 =>
    \A f \in Files : disk[f] # Absent =>
      \A i \in 1..Len(disk[f]) :
        disk[f][i] = Zero \/ \E j \in 1..Len(Content[f]) : disk[f][i] = Content[f][j]

\* An interrupted program does not leave the other one waiting for it: the CAN that
\* it sends reach their reader in whatever loop it is, and end it.
CancelSent(p) == \E i \in 1..Len(wire[p]) : wire[p][i].kind = "CAN"
InterruptEndsBoth ==
  \A p \in Sides : (CancelSent(p) /\ faults = 0) ~> (Stopped(p) \/ faults > 0)

\* The files of q that come before the first one whose name is refused.
Ahead(q) ==
  {q[i] : i \in {n \in 1..Len(q) : \A m \in 1..n : q[m] \notin Unsafe}} \ Unreadable

Undisturbed == faults = 0 /\ breaks = 0
\* Two programs that have been started and are left alone transfer all files up to
\* the first refused one, partial and empty ones included.
Completes ==
  \A q \in Queues :
    (Undisturbed /\ snd.pc = "rinit" /\ snd.queue = q /\ rcv.pc \in {"hello", "loop"})
      ~> (~Undisturbed \/ Ahead(q) \subseteq reported \cap counted)
=============================================================================
