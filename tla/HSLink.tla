------------------------------- MODULE HSLink -------------------------------
(***************************************************************************)
(* The HS/Link session of protocols/hslink: two peers, each an instance of *)
(* HSLinkSession (protocol/hslink.py) on a StdioTransport (transport.py),  *)
(* joined by a full-duplex byte stream.  Both peers send and receive.      *)
(*                                                                         *)
(* A peer is a cooperative loop: transport.idle() drains out_buffer to the *)
(* OS pipe and fills in_buffer, then step() handles the packets of one     *)
(* read() and runs the handshake ping or _pump_sender().  A read() takes   *)
(* at most 4096 bytes, so a step handles any number of waiting packets:    *)
(* here each packet is an action, each pump is an action, and they         *)
(* interleave freely.                                                      *)
(*                                                                         *)
(* Granularity of the wire: a frame is one packet that passed the framer.  *)
(* A frame whose CRC fails disappears (Lose); it is never altered,         *)
(* duplicated or reordered, since the link is a stream.                    *)
(* Chat ('H') changes no session state and is left out.  'F' and 'M' are   *)
(* only sent by 1994 peers, which this closed two-peer model does not have.*)
(***************************************************************************)
EXTENDS LinkPackets

CONSTANTS
  WindowSize,        \* window_size
  PipeSlots,         \* frames the OS pipe and the peer's in_buffer hold
  Lossy, MaxLosses,  \* frame types the line may damage, and how often
  MaxEarly,          \* ARQ timeouts that fire although an answer is coming
  MaxReconnects      \* carrier drops after which both programs start again

ASSUME BoundsAssumption ==
  /\ WindowSize \in Nat \ {0} /\ PipeSlots \in Nat \ {0}
  /\ {MaxLosses, MaxEarly, MaxReconnects} \subseteq Nat

-----------------------------------------------------------------------------
VARIABLES
  state,       \* session state of each peer
  alive,       \* the program is still in loop()
  snd,         \* sender half: files_to_send, current_file, total_blocks, ...
  rcv,         \* receiver half: recv_fd, recv_batch_index, recv_expected_block
  disk,        \* receive directory of each peer
  outbuf,      \* transport.out_buffer, in frames
  inbox,       \* frames in the pipe to a peer or in its in_buffer
  reported,    \* files a peer has logged as "successfully transferred"
  losses, early, reconnects     \* used part of each budget

vars == <<state, alive, snd, rcv, disk, outbuf, inbox, reported,
          losses, early, reconnects>>
budgets == <<losses, early, reconnects>>

NewSender(p) == [queue |-> Queue[p], cur |-> None, total |-> 0, next |-> 0,
                 unacked |-> {}, batch |-> 0, sentZ |-> FALSE]
NewReceiver == [fd |-> None, batch |-> 0, expected |-> 0]

Init ==
  /\ state = [p \in Peers |-> "INIT"]
  /\ alive = [p \in Peers |-> TRUE]
  /\ snd = [p \in Peers |-> NewSender(p)]
  /\ rcv = [p \in Peers |-> NewReceiver]
  /\ disk = OnDisk
  /\ outbuf = [p \in Peers |-> <<>>]
  /\ inbox = [p \in Peers |-> <<>>]
  /\ reported = [p \in Peers |-> {}]
  /\ losses = 0 /\ early = 0 /\ reconnects = 0

Send(p, frames) == outbuf' = [outbuf EXCEPT ![p] = @ \o frames]

(***************************************************************************)
(* StdioTransport.idle() writes what the pipe takes of out_buffer.  It is  *)
(* not called again once step() has reached DONE.                          *)
(***************************************************************************)
Room(p) == Minimum(Len(outbuf[p]), PipeSlots - Len(inbox[Other(p)]))

Idle(p) ==
  /\ alive[p] /\ alive[Other(p)] /\ state[p] # "DONE" /\ Room(p) > 0
  /\ inbox' = [inbox EXCEPT ![Other(p)] = @ \o SubSeq(outbuf[p], 1, Room(p))]
  /\ outbuf' = [outbuf EXCEPT ![p] = SubSeq(@, Room(p) + 1, Len(@))]
  /\ UNCHANGED <<state, alive, snd, rcv, disk, reported, budgets>>

(***************************************************************************)
(* step(): the handshake ping of a peer in INIT, once a second.  A new one *)
(* is sent when the last has left the link, which bounds the backlog.      *)
(***************************************************************************)
Pinging(p) == \E i \in 1..Len(outbuf[p] \o inbox[Other(p)]) :
                (outbuf[p] \o inbox[Other(p)])[i] = RQ

Ping(p) ==
  /\ alive[p] /\ state[p] = "INIT" /\ ~Pinging(p)
  /\ Send(p, <<RQ>>)
  /\ UNCHANGED <<state, alive, snd, rcv, disk, inbox, reported, budgets>>

(***************************************************************************)
(* _pump_sender().  One call opens the next file when none is current,     *)
(* may resend the oldest block on an ARQ timeout, fills the window, and    *)
(* closes the file when nothing of it is left to send or acknowledge.      *)
(***************************************************************************)
Opened(s) ==
  IF s.cur # None THEN s
  ELSE [s EXCEPT !.queue = Tail(@), !.cur = Head(s.queue),
                 !.total = Blocks(Head(s.queue)), !.next = 0, !.unacked = {}]

Filled(s) ==
  LET n == Minimum(s.total - s.next, WindowSize - Cardinality(s.unacked)) IN
  IF n <= 0 THEN s
  ELSE [s EXCEPT !.next = @ + n, !.unacked = @ \cup (s.next .. s.next + n - 1)]

\* Variants: acknowledgements are not awaited; the count is off by one.
FinishedUnacked(s) == s.next >= s.total
FinishedLate(s) == s.next > s.total /\ s.unacked = {}

Finished(s) == s.next >= s.total /\ s.unacked = {}

\* Variant: the batch number is not advanced.
ClosedSameBatch(s) == IF Finished(s) THEN [s EXCEPT !.cur = None] ELSE s

Closed(s) ==
  IF Finished(s) THEN [s EXCEPT !.cur = None, !.batch = @ + 1] ELSE s

PumpFrames(s, resend) ==
  LET o == Opened(s)
      f == Filled(o)
  IN (IF s.cur = None THEN <<Open(o.cur, o.batch)>> ELSE <<>>)
     \o (IF resend THEN <<Data(o.cur, o.batch, Oldest(o.unacked))>> ELSE <<>>)
     \o [i \in 1..(f.next - o.next) |-> Data(o.cur, o.batch, o.next + i - 1)]
     \o (IF Finished(f) THEN <<Close>> ELSE <<>>)

Sending(p) == alive[p] /\ state[p] = "TRANSFERRING" /\ ~snd[p].sentZ

PumpWith(p, resend) ==
  LET filled == Filled(Opened(snd[p])) IN
  /\ Sending(p) /\ (snd[p].cur # None \/ snd[p].queue # <<>>)
  /\ PumpFrames(snd[p], resend) # <<>>
  /\ snd' = [snd EXCEPT ![p] = Closed(filled)]
  /\ Send(p, PumpFrames(snd[p], resend))
  /\ reported' = [reported EXCEPT ![p] =
                    IF Finished(filled) THEN @ \cup {filled.cur} ELSE @]
  /\ UNCHANGED <<state, alive, rcv, disk, inbox, losses, reconnects>>

Pump(p) == PumpWith(p, FALSE) /\ UNCHANGED early

\* Two seconds passed since the last ACK or resend.  On a quiet link an answer
\* has been lost; otherwise it is only late, and this uses the budget.
Quiet == \A p \in Peers : outbuf[p] = <<>> /\ inbox[p] = <<>>

Timeout(p) ==
  /\ Sending(p) /\ snd[p].unacked # {}
  /\ IF Quiet THEN UNCHANGED early ELSE early < MaxEarly /\ early' = early + 1
  /\ PumpWith(p, TRUE)

\* Variant: a single file does not count as having sent something.
AllSentSecond(p) ==
  /\ Sending(p) /\ snd[p].cur = None /\ snd[p].queue = <<>> /\ snd[p].batch > 1
  /\ Send(p, <<Done>>)
  /\ snd' = [snd EXCEPT ![p].sentZ = TRUE]
  /\ UNCHANGED <<state, alive, rcv, disk, inbox, reported, budgets>>

AllSent(p) ==
  /\ Sending(p) /\ snd[p].cur = None /\ snd[p].queue = <<>> /\ snd[p].batch > 0
  /\ Send(p, <<Done>>)
  /\ snd' = [snd EXCEPT ![p].sentZ = TRUE]
  /\ UNCHANGED <<state, alive, rcv, disk, inbox, reported, budgets>>

(***************************************************************************)
(* _handle_packet().  Every handler takes the first waiting frame.         *)
(***************************************************************************)
Arrives(p, type) == alive[p] /\ inbox[p] # <<>> /\ Head(inbox[p]).type = type
Taken(p) == inbox' = [inbox EXCEPT ![p] = Tail(@)]
Transferring(p, type) == Arrives(p, type) /\ state[p] = "TRANSFERRING" /\ Taken(p)
Packet(p) == Head(inbox[p])

Handshake(p) ==
  /\ Arrives(p, "RQ") /\ state[p] = "INIT" /\ Taken(p)
  /\ state' = [state EXCEPT ![p] = "TRANSFERRING"]
  /\ Send(p, IF snd[p].queue = <<>> THEN <<RQ, Done>> ELSE <<RQ>>)
  /\ UNCHANGED <<alive, snd, rcv, disk, reported, budgets>>

\* Variant: the batch number is not compared.
HandleAckAnyBatch(p) ==
  /\ Transferring(p, "A")
  /\ snd' = [snd EXCEPT ![p].unacked = {k \in @ : k > Packet(p).block}]
  /\ UNCHANGED <<state, alive, rcv, disk, outbuf, reported, budgets>>

\* ACK: this block and every older one leave the window.
HandleAck(p) ==
  /\ Transferring(p, "A") /\ Packet(p).batch = snd[p].batch
  /\ snd' = [snd EXCEPT ![p].unacked = {k \in @ : k > Packet(p).block}]
  /\ UNCHANGED <<state, alive, rcv, disk, outbuf, reported, budgets>>

HandleNak(p) ==
  /\ Transferring(p, "N") /\ Packet(p).batch = snd[p].batch
  /\ Packet(p).block \in snd[p].unacked
  /\ Send(p, <<Data(snd[p].cur, snd[p].batch, Packet(p).block)>>)
  /\ UNCHANGED <<state, alive, snd, rcv, disk, reported, budgets>>

HandleSkip(p) ==
  /\ Transferring(p, "K")
  /\ snd' = [snd EXCEPT ![p].unacked = {}, ![p].next = snd[p].total]
  /\ UNCHANGED <<state, alive, rcv, disk, outbuf, reported, budgets>>

\* VERIFY: the leading blocks whose CRC agrees are not sent again.  Without an
\* open current_fd the handler raises, and loop() ends through its finally.
Leave(p) == alive' = [alive EXCEPT ![p] = FALSE] /\ rcv' = [rcv EXCEPT ![p].fd = None]

HandleVerify(p) ==
  LET n == Verified(Packet(p).crcs, snd[p].cur) IN
  /\ Transferring(p, "V")
  /\ IF snd[p].cur = None
     THEN Leave(p) /\ UNCHANGED <<snd, outbuf>>
     ELSE /\ snd' = [snd EXCEPT ![p].next = n, ![p].unacked = {}]
          /\ Send(p, <<Seek(snd[p].batch, n)>>)
          /\ UNCHANGED <<alive, rcv>>
  /\ UNCHANGED <<state, disk, reported, budgets>>

(***************************************************************************)
(* OPEN: the four outcomes of the receiver's inspection of its directory.  *)
(* Skipping leaves recv_fd as it was; resuming opens the file to append.   *)
(***************************************************************************)
Existing(p) == disk[p][Packet(p).name]
SameSize(p) == Existing(p) # Absent /\ Len(Existing(p)) = Packet(p).size
Resumable(p) == /\ Existing(p) # Absent /\ Len(Existing(p)) < Packet(p).size
                /\ FullBlocks(Existing(p)) > 0

OpenUnsafe(p) ==
  /\ Transferring(p, "O") /\ Packet(p).name \in Unsafe
  /\ Send(p, <<Skip>>)
  /\ UNCHANGED <<state, alive, snd, rcv, disk, reported, budgets>>

OpenSkip(p) ==
  /\ Transferring(p, "O") /\ Packet(p).name \notin Unsafe /\ SameSize(p)
  /\ rcv' = [rcv EXCEPT ![p].batch = Packet(p).batch, ![p].expected = 0]
  /\ Send(p, <<Skip>>)
  /\ UNCHANGED <<state, alive, snd, disk, reported, budgets>>

OpenResume(p) ==
  /\ Transferring(p, "O") /\ Packet(p).name \notin Unsafe /\ Resumable(p)
  /\ rcv' = [rcv EXCEPT ![p] = [fd |-> Packet(p).name, batch |-> Packet(p).batch,
                                expected |-> FullBlocks(Existing(p))]]
  /\ Send(p, <<Verify(Existing(p))>>)
  /\ UNCHANGED <<state, alive, snd, disk, reported, budgets>>

\* Variant: the file is not created.
OpenFreshLazily(p) ==
  /\ Transferring(p, "O") /\ Packet(p).name \notin Unsafe
  /\ ~SameSize(p) /\ ~Resumable(p)
  /\ rcv' = [rcv EXCEPT ![p] = [fd |-> Packet(p).name, batch |-> Packet(p).batch,
                                expected |-> 0]]
  /\ UNCHANGED <<state, alive, snd, disk, outbuf, reported, budgets>>

OpenFresh(p) ==
  /\ Transferring(p, "O") /\ Packet(p).name \notin Unsafe
  /\ ~SameSize(p) /\ ~Resumable(p)
  /\ rcv' = [rcv EXCEPT ![p] = [fd |-> Packet(p).name, batch |-> Packet(p).batch,
                                expected |-> 0]]
  /\ disk' = [disk EXCEPT ![p][Packet(p).name] = <<>>]
  /\ UNCHANGED <<state, alive, snd, outbuf, reported, budgets>>

(***************************************************************************)
(* DATA: the expected block is written, if a file is open, and counted;    *)
(* a later one is answered with a NAK for the expected block, an earlier   *)
(* one is acknowledged again.                                              *)
(***************************************************************************)
\* Variant: a block ahead of the expected one is taken as well.
DataAhead(p) ==
  LET m == Packet(p) IN
  /\ Transferring(p, "D")
  /\ m.batch = rcv[p].batch /\ m.block >= rcv[p].expected
  /\ disk' = IF rcv[p].fd = None THEN disk
             ELSE [disk EXCEPT ![p][rcv[p].fd] = @ \o m.data]
  /\ rcv' = [rcv EXCEPT ![p].expected = @ + 1]
  /\ Send(p, <<Ack(m.batch, m.block)>>)
  /\ UNCHANGED <<state, alive, snd, reported, budgets>>

DataExpected(p) ==
  LET m == Packet(p) IN
  /\ Transferring(p, "D")
  /\ m.batch = rcv[p].batch /\ m.block = rcv[p].expected
  /\ disk' = IF rcv[p].fd = None THEN disk
             ELSE [disk EXCEPT ![p][rcv[p].fd] = @ \o m.data]
  /\ rcv' = [rcv EXCEPT ![p].expected = @ + 1]
  /\ Send(p, <<Ack(m.batch, m.block)>>)
  /\ UNCHANGED <<state, alive, snd, reported, budgets>>

DataUnexpected(p) ==
  LET m == Packet(p) IN
  /\ Transferring(p, "D")
  /\ m.batch = rcv[p].batch /\ m.block # rcv[p].expected
  /\ Send(p, IF m.block > rcv[p].expected THEN <<Nak(m.batch, rcv[p].expected)>>
                                          ELSE <<Ack(m.batch, m.block)>>)
  /\ UNCHANGED <<state, alive, snd, rcv, disk, reported, budgets>>

HandleSeek(p) ==
  /\ Transferring(p, "S") /\ Packet(p).batch = rcv[p].batch
  /\ rcv' = [rcv EXCEPT ![p].expected = Packet(p).block]
  /\ UNCHANGED <<state, alive, snd, disk, outbuf, reported, budgets>>

\* Variant: recv_fd stays set.
HandleCloseKeepsOpen(p) ==
  /\ Transferring(p, "C") /\ rcv[p].fd # None
  /\ UNCHANGED <<state, alive, snd, rcv, disk, outbuf, reported, budgets>>

HandleClose(p) ==
  /\ Transferring(p, "C") /\ rcv[p].fd # None
  /\ rcv' = [rcv EXCEPT ![p].fd = None]
  /\ UNCHANGED <<state, alive, snd, disk, outbuf, reported, budgets>>

\* Variant: the peer's Z ends the session although files are still to be sent.
HandleDoneEarly(p) ==
  /\ Transferring(p, "Z")
  /\ state' = [state EXCEPT ![p] = "DONE"]
  /\ Send(p, <<Done>>)
  /\ UNCHANGED <<alive, snd, rcv, disk, reported, budgets>>

HandleDone(p) ==
  /\ Transferring(p, "Z") /\ snd[p].queue = <<>> /\ snd[p].cur = None
  /\ state' = [state EXCEPT ![p] = "DONE"]
  /\ Send(p, <<Done>>)
  /\ UNCHANGED <<alive, snd, rcv, disk, reported, budgets>>

\* The frames a handler returns from without any effect.
Ineffective(p, m) ==
  \/ m.type = "RQ" /\ state[p] # "INIT"
  \/ m.type # "RQ" /\ state[p] # "TRANSFERRING"
  \/ m.type = "A" /\ m.batch # snd[p].batch
  \/ m.type = "N" /\ (m.batch # snd[p].batch \/ m.block \notin snd[p].unacked)
  \/ m.type \in {"D", "S"} /\ m.batch # rcv[p].batch
  \/ m.type = "C" /\ rcv[p].fd = None
  \/ m.type = "Z" /\ (snd[p].queue # <<>> \/ snd[p].cur # None)

Ignore(p) ==
  /\ alive[p] /\ inbox[p] # <<>> /\ Ineffective(p, Packet(p)) /\ Taken(p)
  /\ UNCHANGED <<state, alive, snd, rcv, disk, outbuf, reported, budgets>>

HandleOpen(p) == OpenUnsafe(p) \/ OpenSkip(p) \/ OpenResume(p) \/ OpenFresh(p)

Receive(p) ==
  \/ Handshake(p) \/ HandleAck(p) \/ HandleNak(p) \/ HandleSkip(p)
  \/ HandleVerify(p) \/ HandleOpen(p) \/ DataExpected(p) \/ DataUnexpected(p)
  \/ HandleSeek(p) \/ HandleClose(p) \/ HandleDone(p) \/ Ignore(p)

(***************************************************************************)
(* The end of loop(), and what the environment does.                       *)
(***************************************************************************)
\* state DONE: sleep, set carrier_lost and break, with no further idle(): what
\* is in out_buffer stays there.
Exit(p) ==
  /\ alive[p] /\ state[p] = "DONE"
  /\ Leave(p)
  /\ UNCHANGED <<state, snd, disk, outbuf, inbox, reported, budgets>>

\* The peer has gone.  A write to it fails at once and abandons in_buffer; an
\* end of file is followed by one step(), whose read() leaves what lies beyond
\* 4096 bytes, that is, beyond a data frame.
CarrierLost(p) ==
  /\ alive[p] /\ ~alive[Other(p)]
  /\ \/ inbox[p] = <<>> \/ outbuf[p] # <<>>
     \/ \E i \in 1..Len(inbox[p]) : inbox[p][i].type = "D"
  /\ Leave(p)
  /\ UNCHANGED <<state, snd, disk, outbuf, inbox, reported, budgets>>

\* A damaged frame: the framer's CRC check drops it.
Lose(p) ==
  /\ losses < MaxLosses
  /\ alive[p] /\ inbox[p] # <<>> /\ Packet(p).type \in Lossy
  /\ Taken(p) /\ losses' = losses + 1
  /\ UNCHANGED <<state, alive, snd, rcv, disk, outbuf, reported, early, reconnects>>

\* The carrier drops: both loops end, and both programs are started again with
\* the same arguments in the same directories.
Reconnect ==
  /\ reconnects < MaxReconnects /\ \E p \in Peers : alive[p]
  /\ state' = [p \in Peers |-> "INIT"]
  /\ alive' = [p \in Peers |-> TRUE]
  /\ snd' = [p \in Peers |-> NewSender(p)]
  /\ rcv' = [p \in Peers |-> NewReceiver]
  /\ outbuf' = [p \in Peers |-> <<>>]
  /\ inbox' = [p \in Peers |-> <<>>]
  /\ reconnects' = reconnects + 1
  /\ UNCHANGED <<disk, reported, losses, early>>

Ended == \A p \in Peers : ~alive[p]
Terminated == Ended /\ UNCHANGED vars

Step(p) ==
  \/ Idle(p) \/ Ping(p) \/ Pump(p) \/ Timeout(p) \/ AllSent(p)
  \/ Receive(p) \/ Exit(p) \/ CarrierLost(p)

Next == (\E p \in Peers : Step(p) \/ Lose(p)) \/ Reconnect \/ Terminated

Spec == Init /\ [][Next]_vars

\* Both loops keep turning and time keeps passing; damage is not owed.
Fairness ==
  \A p \in Peers :
    /\ WF_vars(Idle(p)) /\ WF_vars(Ping(p)) /\ WF_vars(Pump(p))
    /\ WF_vars(Quiet /\ Timeout(p)) /\ WF_vars(AllSent(p)) /\ WF_vars(Receive(p))
    /\ WF_vars(Exit(p)) /\ WF_vars(CarrierLost(p))

FairSpec == Spec /\ Fairness

-----------------------------------------------------------------------------
(***************************************************************************)
(* Properties.                                                             *)
(***************************************************************************)
Senders == [queue : Seq(Files), cur : Files \cup {None}, total : Nat, next : Nat,
            unacked : SUBSET Nat, batch : Nat, sentZ : BOOLEAN]
Receivers == [fd : Names \cup {None}, batch : Nat, expected : Nat]

\* The type invariant; the last conjunct says that an open file exists, without
\* which a write in _handle_packet() would have nowhere to go.
TypeOK ==
  /\ state \in [Peers -> {"INIT", "TRANSFERRING", "DONE"}]
  /\ alive \in [Peers -> BOOLEAN]
  /\ snd \in [Peers -> Senders] /\ rcv \in [Peers -> Receivers]
  /\ disk \in [Peers -> [Names -> Seq(Unit) \cup {Absent}]]
  /\ outbuf \in [Peers -> Seq(Frames)] /\ inbox \in [Peers -> Seq(Frames)]
  /\ reported \in [Peers -> SUBSET Files]
  /\ losses \in 0..MaxLosses /\ early \in 0..MaxEarly
  /\ reconnects \in 0..MaxReconnects
  /\ \A p \in Peers : rcv[p].fd # None => disk[p][rcv[p].fd] # Absent

Copy(p, f) == disk[Other(p)][Name[f]]      \* the peer's copy of a file of p
\* When _pump_sender() logs a file as successfully transferred, the receiver's
\* copy is the file, whole and in order, unless the receiver refuses its name.
Delivered ==
  \A p \in Peers : \A f \in reported[p] : Accepted(f) => Copy(p, f) = Content[f]

\* A block that has left unacked_blocks is on the receiver's disk, at its place:
\* the sender forgets no block it could still have to resend.
AckedIsStored ==
  \A p \in Peers : snd[p].cur # None /\ Accepted(snd[p].cur) =>
    \A k \in (0 .. snd[p].next - 1) \ snd[p].unacked :
      /\ Copy(p, snd[p].cur) # Absent
      /\ Chunk(Copy(p, snd[p].cur), k) = Chunk(Content[snd[p].cur], k)

\* recv_expected_block and the file agree: an open file holds the blocks before
\* the expected one, each once, and nothing else.
ExpectedIsWritten ==
  \A p \in Peers : \A f \in FilesOf(p) :
    rcv[Other(p)].fd = Name[f] =>
      Copy(p, f) = SubSeq(Content[f], 1,
        Minimum(Len(Content[f]), rcv[Other(p)].expected * BlockSize))

\* A peer that reaches DONE has sent all its files and received all the peer's:
\* the Z that ends a session never overtakes work in either direction.
DoneMeansExchanged ==
  \A p \in Peers : state[p] = "DONE" =>
    \A q \in Peers : \A f \in FilesOf(q) : f \in reported[q]

\* Once a file has been reported, nothing that is still in flight, and no later
\* session on the same directories, touches the receiver's copy again.
ReportedIsFinal ==
  [][\A p \in Peers : \A f \in reported[p] :
        disk'[Other(p)][Name[f]] = disk[Other(p)][Name[f]]]_vars

\* Every file is eventually reported, whatever the line damages within Lossy.
AllReported == <>(\A p \in Peers : reported[p] = FilesOf(p))

\* Both programs eventually end.
BothEnd == <>[]Ended

\* Every data or OPEN frame on its way carries what its batch and block numbers
\* say: a resend never leaves under the number of another file of the batch.
GenuineFrames ==
  \A p \in Peers :
    /\ \A i \in 1..Len(outbuf[p]) : Genuine(p, outbuf[p][i])
    /\ \A i \in 1..Len(inbox[Other(p)]) : Genuine(p, inbox[Other(p)][i])

Books(p, s) ==
  LET taken == s.batch + (IF s.cur = None THEN 0 ELSE 1) IN
  /\ taken + Len(s.queue) = Len(Queue[p])
  /\ \A i \in 1..Len(s.queue) : s.queue[i] = Queue[p][taken + i]
  /\ s.cur = None => s.unacked = {}
  /\ s.cur # None => s.cur = Queue[p][s.batch + 1] /\ s.total = Blocks(s.cur)
  /\ IsFiniteSet(s.unacked)
  /\ \A k \in s.unacked : k < s.next /\ k < s.total

\* batch_index counts the files already closed, the queue holds the rest in order,
\* and only blocks of the current file that were sent are unacknowledged.
SenderAccounts == \A p \in Peers : Books(p, snd[p])

(***************************************************************************)
(* The session implements FileTransfer for the files the receivers accept. *)
(***************************************************************************)
Transfer == INSTANCE FileTransfer WITH
  Files <- Offered,
  Before <- [f \in Offered |-> OnDisk[Other(Owner(f))][Name[f]]],
  copy <- [f \in Offered |-> Copy(Owner(f), f)],
  reported <- (reported[A] \cup reported[B]) \cap Offered

\* What the two peers do to a file is what FileTransfer allows: its copy grows
\* from the front, and it is reported when whole, and then in the end reported.
ImplementsTransfer == Transfer!FairSpec
=============================================================================
