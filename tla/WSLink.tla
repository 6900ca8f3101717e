------------------------------- MODULE WSLink -------------------------------
(***************************************************************************)
(* The WS/Link session of protocols/wslink: two peers, each an instance of *)
(* WSLinkSession (protocol/wslink.py), joined by an AsyncTransport.  In a  *)
(* session two asyncio tasks, _send_loop() and _recv_loop(), share the     *)
(* state and give way to each other only where they await.  An action is   *)
(* the code from one await to the next, and `sending' and `receiving' say  *)
(* at which await each task stands:                                        *)
(*                                                                         *)
(*   sending    wait    self._send_event.wait(), at most arq_timeout       *)
(*              opening the write of OPEN, in _open_next_file_async()      *)
(*              resent  the write of a block, after an ARQ timeout         *)
(*              flushed the flush of the blocks that filled the window     *)
(*              closing the write of CLOSE                                 *)
(*              ending  the write of TRANSMIT_DONE                         *)
(*   receiving  read    framer.read_packet(), at most idle_timeout         *)
(*              reply   the write of an answer                             *)
(*              verify  the write of VERIFY                                *)
(*                                                                         *)
(* A write hands the frame over at once and then waits in drain() while    *)
(* more than HighWater frames are on their way.  framer.send_packet() only *)
(* appends to _write_buf and never gives way.  Chat is left out.           *)
(***************************************************************************)
EXTENDS LinkPackets

CONSTANTS
  InitialWindow, MaxWindow,    \* initial_window, max_window
  HighWater,                   \* frames on their way beyond which drain() waits
  Lossy, MaxLosses,            \* frame types the line may damage, and how often
  MaxEarly,                    \* ARQ timeouts although an answer is coming
  MaxReconnects                \* dropped connections after which both start again

ASSUME WindowAssumption ==
  /\ InitialWindow \in Nat \ {0} /\ MaxWindow \in Nat \ {0} /\ HighWater \in Nat
  /\ {MaxLosses, MaxEarly, MaxReconnects} \subseteq Nat

VARIABLES
  state,               \* session state of each peer
  sending, receiving,  \* the await at which each task stands
  event,               \* _send_event is set
  snd,                 \* sender state: queue, current file, window
  rcv,                 \* receiver state: recv_file, recv_fd, batch, expected block
  disk,                \* receive directory of each peer
  buf,                 \* framer._write_buf
  wire,                \* frames written by a peer that its peer has not read
  reported,            \* files a peer has logged as "successfully transferred"
  losses, early, reconnects     \* used part of each budget

tasks == <<sending, receiving>>
links == <<buf, wire>>
budgets == <<losses, early, reconnects>>
vars == <<state, tasks, event, snd, rcv, disk, links, reported, budgets>>

NewSender(p) == [queue |-> Queue[p], cur |-> None, total |-> 0, next |-> 0,
                 unacked |-> {}, timed |-> {}, oldest |-> 0, batch |-> 0,
                 sentZ |-> FALSE, window |-> InitialWindow]
NewReceiver == [file |-> None, fd |-> None, batch |-> 0, expected |-> 0]

\* Both sessions have sent READY and READY_RECV and started their tasks.
Start ==
  /\ state = [p \in Peers |-> "INIT"]
  /\ sending = [p \in Peers |-> "wait"] /\ receiving = [p \in Peers |-> "read"]
  /\ event = [p \in Peers |-> FALSE]
  /\ snd = [p \in Peers |-> NewSender(p)] /\ rcv = [p \in Peers |-> NewReceiver]
  /\ buf = [p \in Peers |-> <<>>] /\ wire = [p \in Peers |-> <<RQ>>]

Init ==
  /\ Start /\ disk = OnDisk /\ reported = [p \in Peers |-> {}]
  /\ losses = 0 /\ early = 0 /\ reconnects = 0

Write(p, frames) == wire' = [wire EXCEPT ![p] = @ \o frames]
Drained(p) == Len(wire[p]) <= HighWater
SendGoes(p, place) == sending' = [sending EXCEPT ![p] = place]
RecvGoes(p, place) == receiving' = [receiving EXCEPT ![p] = place]

-----------------------------------------------------------------------------
(***************************************************************************)
(* _send_loop() and _pump_sender().                                        *)
(***************************************************************************)
\* The loop wakes up, by the event or after arq_timeout, clears the event and
\* calls _pump_sender().
Wakes(p) ==
  /\ sending[p] = "wait" /\ state[p] = "TRANSFERRING" /\ ~snd[p].sentZ
  /\ event' = [event EXCEPT ![p] = FALSE]

AtAwait(p, place) == sending[p] = place /\ Drained(p) /\ UNCHANGED event

Unsent(s) == Minimum(s.total - s.next, s.window - Cardinality(s.unacked))
\* Variant: acknowledgements are not awaited.
FinishedUnacked(s) == s.next >= s.total

Finished(s) == s.next >= s.total /\ s.unacked = {}

\* Variant: the window has no lower limit.
HalvedToZero(s) == [s EXCEPT !.window = @ \div 2]

Halved(s) == [s EXCEPT !.window = IF @ \div 2 < 1 THEN 1 ELSE @ \div 2]

\* The end of a file, or of this call.
Finish(p, s) ==
  /\ snd' = [snd EXCEPT ![p] = s]
  /\ IF Finished(s)
     THEN /\ reported' = [reported EXCEPT ![p] = @ \cup {s.cur}]
          /\ Write(p, <<Close>>) /\ SendGoes(p, "closing")
     ELSE /\ SendGoes(p, "wait") /\ UNCHANGED <<wire, reported>>
  /\ UNCHANGED buf

\* Variant: the blocks get no send time.
FillUntimed(p, s) ==
  IF Unsent(s) <= 0 THEN Finish(p, s)
  ELSE LET new == s.next .. s.next + Unsent(s) - 1
           frames == [i \in 1..Unsent(s) |-> Data(s.cur, s.batch, s.next + i - 1)]
       IN /\ snd' = [snd EXCEPT ![p] = [s EXCEPT !.next = @ + Unsent(s),
                        !.unacked = @ \cup new]]
          /\ Write(p, buf[p] \o frames) /\ buf' = [buf EXCEPT ![p] = <<>>]
          /\ SendGoes(p, "flushed") /\ UNCHANGED reported

\* From "Fill Window" on: the blocks are buffered and flushed with whatever
\* the buffer holds.
FillFrom(p, s) ==
  IF Unsent(s) <= 0 THEN Finish(p, s)
  ELSE LET new == s.next .. s.next + Unsent(s) - 1
           frames == [i \in 1..Unsent(s) |-> Data(s.cur, s.batch, s.next + i - 1)]
       IN /\ snd' = [snd EXCEPT ![p] = [s EXCEPT !.next = @ + Unsent(s),
                        !.unacked = @ \cup new, !.timed = @ \cup new]]
          /\ Write(p, buf[p] \o frames) /\ buf' = [buf EXCEPT ![p] = <<>>]
          /\ SendGoes(p, "flushed") /\ UNCHANGED reported

AllSent(p) ==
  /\ Wakes(p) /\ snd[p].cur = None /\ snd[p].queue = <<>>
  /\ IF snd[p].batch > 0
     THEN Write(p, <<Done>>) /\ SendGoes(p, "ending") /\ UNCHANGED snd
     ELSE snd' = [snd EXCEPT ![p].sentZ = TRUE] /\ UNCHANGED <<sending, wire>>
  /\ UNCHANGED <<state, receiving, rcv, disk, buf, reported, budgets>>

DoneSent(p) ==
  /\ AtAwait(p, "ending")
  /\ snd' = [snd EXCEPT ![p].sentZ = TRUE] /\ SendGoes(p, "wait")
  /\ UNCHANGED <<state, receiving, rcv, disk, links, reported, budgets>>

\* OPEN is written before the file is popped into current_file; the popped path
\* is a local variable, here the one missing from the queue.
OpenNext(p) ==
  /\ Wakes(p) /\ snd[p].cur = None /\ snd[p].queue # <<>>
  /\ Write(p, <<Open(Head(snd[p].queue), snd[p].batch)>>)
  /\ SendGoes(p, "opening")
  /\ UNCHANGED <<state, receiving, snd, rcv, disk, buf, reported, budgets>>

Opened(s) == [s EXCEPT !.queue = Tail(@), !.cur = Head(s.queue),
                       !.total = Blocks(Head(s.queue)), !.next = 0,
                       !.unacked = {}, !.timed = {}]

OpenSent(p) ==
  /\ AtAwait(p, "opening") /\ FillFrom(p, Opened(snd[p]))
  /\ UNCHANGED <<state, receiving, rcv, disk, budgets>>

Pump(p) ==
  /\ Wakes(p) /\ snd[p].cur # None /\ FillFrom(p, snd[p])
  /\ UNCHANGED <<state, receiving, rcv, disk, budgets>>

\* The oldest block was sent arq_timeout ago.  With nothing under way its answer
\* is lost; otherwise it is only late, and this uses the budget.
Quiet == \A p \in Peers : wire[p] = <<>> /\ sending[p] = "wait" /\ receiving[p] = "read"

Timeout(p) ==
  LET k == Oldest(snd[p].unacked) IN
  /\ Wakes(p) /\ snd[p].unacked # {} /\ k \in snd[p].timed
  /\ IF Quiet THEN UNCHANGED early ELSE early < MaxEarly /\ early' = early + 1
  /\ snd' = [snd EXCEPT ![p] = [Halved(snd[p]) EXCEPT !.oldest = k]]
  /\ Write(p, <<Data(snd[p].cur, snd[p].batch, k)>>)
  /\ SendGoes(p, "resent")
  /\ UNCHANGED <<state, receiving, rcv, disk, buf, reported, losses, reconnects>>

\* block_send_times gets an entry for the block even if it has been acknowledged
\* during the write.
Resent(p) ==
  /\ AtAwait(p, "resent")
  /\ FillFrom(p, [snd[p] EXCEPT !.timed = @ \cup {snd[p].oldest}, !.oldest = 0])
  /\ UNCHANGED <<state, receiving, rcv, disk, budgets>>

Flushed(p) ==
  /\ AtAwait(p, "flushed") /\ Finish(p, snd[p])
  /\ UNCHANGED <<state, receiving, rcv, disk, budgets>>

CloseSent(p) ==
  /\ AtAwait(p, "closing")
  /\ snd' = [snd EXCEPT ![p].cur = None, ![p].batch = @ + 1]
  /\ SendGoes(p, "wait")
  /\ UNCHANGED <<state, receiving, rcv, disk, links, reported, budgets>>

SendTask(p) ==
  \/ AllSent(p) \/ DoneSent(p) \/ OpenNext(p) \/ OpenSent(p) \/ Pump(p)
  \/ Resent(p) \/ Flushed(p) \/ CloseSent(p)

-----------------------------------------------------------------------------
(***************************************************************************)
(* _recv_loop() and _handle_packet().                                      *)
(***************************************************************************)
Packet(p) == Head(wire[Other(p)])
Arrives(p, type) ==
  /\ receiving[p] = "read" /\ state[p] # "DONE"
  /\ wire[Other(p)] # <<>> /\ Packet(p).type = type

\* The packet leaves the link, an answer enters it, and the task waits at place.
Answer(p, frames, place) ==
  /\ wire' = [wire EXCEPT ![Other(p)] = Tail(@), ![p] = @ \o frames]
  /\ RecvGoes(p, place) /\ UNCHANGED buf
NoAnswer(p) ==
  /\ wire' = [wire EXCEPT ![Other(p)] = Tail(@)] /\ UNCHANGED <<receiving, buf>>
WakeSender(p) == event' = [event EXCEPT ![p] = TRUE]

Transferring(p, type) ==
  /\ Arrives(p, type) /\ state[p] = "TRANSFERRING"
  /\ UNCHANGED <<state, sending, reported, budgets>>

Handshake(p) ==
  /\ Arrives(p, "RQ") /\ state[p] = "INIT" /\ NoAnswer(p) /\ WakeSender(p)
  /\ state' = [state EXCEPT ![p] = "TRANSFERRING"]
  /\ UNCHANGED <<sending, snd, rcv, disk, reported, budgets>>

\* _update_rtt(): a short average grows a window in use, a long one shrinks it.
Windows(s) ==
  {s.window}
    \cup (IF 10 * Cardinality(s.unacked) >= 8 * s.window
          THEN {Minimum(MaxWindow, s.window + 1)} ELSE {})
    \cup {IF (s.window * 9) \div 10 < 1 THEN 1 ELSE (s.window * 9) \div 10}

\* Variants: the sender is woken only when the window has become empty; the batch
\* number is not compared.
HandleAckQuietly(p) ==
  LET s == snd[p]
      k == Packet(p).block
  IN
  /\ Transferring(p, "A") /\ Packet(p).batch = s.batch
  /\ \E w \in IF k \in s.timed THEN Windows(s) ELSE {s.window} :
       snd' = [snd EXCEPT ![p] = [s EXCEPT !.window = w, !.unacked = @ \ {k},
                                           !.timed = @ \ {k}]]
  /\ event' = [event EXCEPT ![p] = @ \/ s.unacked \subseteq {k}]
  /\ NoAnswer(p) /\ UNCHANGED <<rcv, disk>>

HandleAckAnyBatch(p) ==
  LET s == snd[p]
      k == Packet(p).block
  IN
  /\ Transferring(p, "A")
  /\ \E w \in IF k \in s.timed THEN Windows(s) ELSE {s.window} :
       snd' = [snd EXCEPT ![p] = [s EXCEPT !.window = w, !.unacked = @ \ {k},
                                           !.timed = @ \ {k}]]
  /\ NoAnswer(p) /\ WakeSender(p) /\ UNCHANGED <<rcv, disk>>

\* ACK: exactly this block leaves the window.
HandleAck(p) ==
  LET s == snd[p]
      k == Packet(p).block
  IN
  /\ Transferring(p, "A") /\ Packet(p).batch = s.batch
  /\ \E w \in IF k \in s.timed THEN Windows(s) ELSE {s.window} :
       snd' = [snd EXCEPT ![p] = [s EXCEPT !.window = w, !.unacked = @ \ {k},
                                           !.timed = @ \ {k}]]
  /\ NoAnswer(p) /\ WakeSender(p) /\ UNCHANGED <<rcv, disk>>

\* NAK: the block keeps an entry in block_send_times.
HandleNak(p) ==
  /\ Transferring(p, "N") /\ Packet(p).batch = snd[p].batch
  /\ Packet(p).block \in snd[p].unacked
  /\ snd' = [snd EXCEPT ![p] = Halved(@)]
  /\ Answer(p, <<Data(snd[p].cur, snd[p].batch, Packet(p).block)>>, "reply")
  /\ UNCHANGED <<event, rcv, disk>>

HandleSkip(p) ==
  /\ Transferring(p, "K") /\ NoAnswer(p) /\ WakeSender(p)
  /\ snd' = [snd EXCEPT ![p].unacked = {}, ![p].timed = {}, ![p].next = snd[p].total]
  /\ UNCHANGED <<rcv, disk>>

\* VERIFY with an open current_fd; the sender is not woken.
HandleVerify(p) ==
  LET n == Verified(Packet(p).crcs, snd[p].cur) IN
  /\ Transferring(p, "V") /\ snd[p].cur # None
  /\ snd' = [snd EXCEPT ![p].next = n, ![p].unacked = {}, ![p].timed = {}]
  /\ Answer(p, <<Seek(snd[p].batch, n)>>, "reply")
  /\ UNCHANGED <<event, rcv, disk>>

(***************************************************************************)
(* OPEN.  A refusal is buffered, and leaves with the next flush; the other *)
(* answers are written at once.  A resumed file is opened, and its blocks  *)
(* counted, when VERIFY has been written.                                  *)
(***************************************************************************)
Existing(p) == disk[p][Packet(p).name]
SameSize(p) == Existing(p) # Absent /\ Len(Existing(p)) = Packet(p).size
Resumable(p) == /\ Existing(p) # Absent /\ Len(Existing(p)) < Packet(p).size
                /\ FullBlocks(Existing(p)) > 0
Named(p) == [rcv[p] EXCEPT !.file = Packet(p).name, !.batch = Packet(p).batch,
                           !.expected = 0]

OpenUnsafe(p) ==
  /\ Transferring(p, "O") /\ Packet(p).name \in Unsafe
  /\ buf' = [buf EXCEPT ![p] = Append(@, Skip)]
  /\ wire' = [wire EXCEPT ![Other(p)] = Tail(@)]
  /\ UNCHANGED <<receiving, event, snd, rcv, disk>>

OpenSkip(p) ==
  /\ Transferring(p, "O") /\ Packet(p).name \notin Unsafe /\ SameSize(p)
  /\ rcv' = [rcv EXCEPT ![p] = Named(p)]
  /\ Answer(p, <<Skip>>, "reply")
  /\ UNCHANGED <<event, snd, disk>>

OpenResume(p) ==
  /\ Transferring(p, "O") /\ Packet(p).name \notin Unsafe /\ Resumable(p)
  /\ rcv' = [rcv EXCEPT ![p] = Named(p)]
  /\ Answer(p, <<Verify(Existing(p))>>, "verify")
  /\ UNCHANGED <<event, snd, disk>>

OpenFresh(p) ==
  /\ Transferring(p, "O") /\ Packet(p).name \notin Unsafe
  /\ ~SameSize(p) /\ ~Resumable(p)
  /\ rcv' = [rcv EXCEPT ![p] = [Named(p) EXCEPT !.fd = Packet(p).name]]
  /\ disk' = [disk EXCEPT ![p][Packet(p).name] = <<>>]
  /\ NoAnswer(p) /\ UNCHANGED <<event, snd>>

HandleOpen(p) == OpenUnsafe(p) \/ OpenSkip(p) \/ OpenResume(p) \/ OpenFresh(p)

\* Variant: a block ahead of the expected one is taken as well.
DataAhead(p) ==
  LET m == Packet(p) IN
  /\ Transferring(p, "D") /\ m.batch = rcv[p].batch /\ m.block >= rcv[p].expected
  /\ disk' = IF rcv[p].fd = None THEN disk
             ELSE [disk EXCEPT ![p][rcv[p].fd] = @ \o m.data]
  /\ rcv' = [rcv EXCEPT ![p].expected = @ + 1]
  /\ Answer(p, <<Ack(m.batch, m.block)>>, "reply")
  /\ UNCHANGED <<event, snd>>

DataExpected(p) ==
  LET m == Packet(p) IN
  /\ Transferring(p, "D") /\ m.batch = rcv[p].batch /\ m.block = rcv[p].expected
  /\ disk' = IF rcv[p].fd = None THEN disk
             ELSE [disk EXCEPT ![p][rcv[p].fd] = @ \o m.data]
  /\ rcv' = [rcv EXCEPT ![p].expected = @ + 1]
  /\ Answer(p, <<Ack(m.batch, m.block)>>, "reply")
  /\ UNCHANGED <<event, snd>>

DataUnexpected(p) ==
  LET m == Packet(p) IN
  /\ Transferring(p, "D") /\ m.batch = rcv[p].batch /\ m.block # rcv[p].expected
  /\ Answer(p, IF m.block > rcv[p].expected THEN <<Nak(m.batch, rcv[p].expected)>>
                                            ELSE <<Ack(m.batch, m.block)>>, "reply")
  /\ UNCHANGED <<event, snd, rcv, disk>>

HandleSeek(p) ==
  /\ Transferring(p, "S") /\ Packet(p).batch = rcv[p].batch /\ NoAnswer(p)
  /\ rcv' = [rcv EXCEPT ![p].expected = Packet(p).block]
  /\ UNCHANGED <<event, snd, disk>>

\* Variant: recv_fd stays set.
HandleCloseKeepsOpen(p) ==
  /\ Transferring(p, "C") /\ rcv[p].fd # None /\ NoAnswer(p)
  /\ UNCHANGED <<event, snd, rcv, disk>>

HandleClose(p) ==
  /\ Transferring(p, "C") /\ rcv[p].fd # None /\ NoAnswer(p)
  /\ rcv' = [rcv EXCEPT ![p].fd = None, ![p].file = None]
  /\ UNCHANGED <<event, snd, disk>>

\* Packets without effect: Z changes nothing, and so does a VERIFY that finds
\* current_fd missing, or closed (the exception is caught and logged).
Ineffective(p, m) ==
  \/ m.type = "RQ" /\ state[p] # "INIT"
  \/ m.type # "RQ" /\ state[p] # "TRANSFERRING"
  \/ m.type = "A" /\ m.batch # snd[p].batch
  \/ m.type = "N" /\ (m.batch # snd[p].batch \/ m.block \notin snd[p].unacked)
  \/ m.type \in {"D", "S"} /\ m.batch # rcv[p].batch
  \/ m.type = "V" /\ snd[p].cur = None
  \/ m.type = "C" /\ rcv[p].fd = None
  \/ m.type = "Z"

Ignore(p) ==
  /\ receiving[p] = "read" /\ state[p] # "DONE"
  /\ wire[Other(p)] # <<>> /\ Ineffective(p, Packet(p)) /\ NoAnswer(p)
  /\ UNCHANGED <<state, sending, event, snd, rcv, disk, reported, budgets>>

Answered(p) ==
  /\ receiving[p] = "reply" /\ Drained(p) /\ RecvGoes(p, "read")
  /\ UNCHANGED <<state, sending, event, snd, rcv, disk, links, reported, budgets>>

VerifySent(p) ==
  /\ receiving[p] = "verify" /\ Drained(p) /\ RecvGoes(p, "read")
  /\ rcv' = [rcv EXCEPT ![p].fd = rcv[p].file,
                        ![p].expected = FullBlocks(disk[p][rcv[p].file])]
  /\ UNCHANGED <<state, sending, event, snd, disk, links, reported, budgets>>

RecvTask(p) ==
  \/ Handshake(p) \/ HandleAck(p) \/ HandleNak(p) \/ HandleSkip(p)
  \/ HandleVerify(p) \/ HandleOpen(p) \/ DataExpected(p) \/ DataUnexpected(p)
  \/ HandleSeek(p) \/ HandleClose(p) \/ Ignore(p) \/ Answered(p) \/ VerifySent(p)

-----------------------------------------------------------------------------
(***************************************************************************)
(* The end of the tasks, and what the environment does.                    *)
(***************************************************************************)
\* Nothing has come for idle_timeout, many times arq_timeout: both peers have
\* nothing left to do.
IdleTimeout(p) ==
  /\ receiving[p] = "read" /\ state[p] # "DONE" /\ Quiet
  /\ \A q \in Peers : state[q] = "TRANSFERRING" => snd[q].sentZ
  /\ state' = [state EXCEPT ![p] = "DONE"]
  /\ UNCHANGED <<tasks, event, snd, rcv, disk, links, reported, budgets>>

\* The peer's session has ended and its program has closed the connection.
ConnectionClosed(p) ==
  /\ receiving[p] = "read" /\ state[p] # "DONE"
  /\ state[Other(p)] = "DONE" /\ wire[Other(p)] = <<>>
  /\ state' = [state EXCEPT ![p] = "DONE"]
  /\ UNCHANGED <<tasks, event, snd, rcv, disk, links, reported, budgets>>

\* A frame damaged behind its length field: read_packet() returns the type '?',
\* which no handler knows.
Lose(p) ==
  /\ losses < MaxLosses
  /\ receiving[p] = "read" /\ state[p] # "DONE"
  /\ wire[Other(p)] # <<>> /\ Packet(p).type \in Lossy
  /\ NoAnswer(p) /\ losses' = losses + 1
  /\ UNCHANGED <<state, sending, event, snd, rcv, disk, reported, early, reconnects>>

\* The connection drops, and both programs start a new session with the same
\* arguments in the same directories.
Reconnect ==
  /\ reconnects < MaxReconnects /\ \E p \in Peers : state[p] # "DONE"
  /\ state' = [p \in Peers |-> "INIT"]
  /\ sending' = [p \in Peers |-> "wait"] /\ receiving' = [p \in Peers |-> "read"]
  /\ event' = [p \in Peers |-> FALSE]
  /\ snd' = [p \in Peers |-> NewSender(p)] /\ rcv' = [p \in Peers |-> NewReceiver]
  /\ buf' = [p \in Peers |-> <<>>] /\ wire' = [p \in Peers |-> <<RQ>>]
  /\ reconnects' = reconnects + 1
  /\ UNCHANGED <<disk, reported, losses, early>>

Ended == \A p \in Peers : state[p] = "DONE"
Terminated == Ended /\ UNCHANGED vars

Next ==
  \/ \E p \in Peers :
       \/ SendTask(p) \/ Timeout(p) \/ RecvTask(p)
       \/ IdleTimeout(p) \/ ConnectionClosed(p) \/ Lose(p)
  \/ Reconnect \/ Terminated

Spec == Init /\ [][Next]_vars

\* The event loop runs each task that can go on, and time passes.
Fairness ==
  \A p \in Peers :
    /\ WF_vars(SendTask(p)) /\ WF_vars(Quiet /\ Timeout(p)) /\ WF_vars(RecvTask(p))
    /\ WF_vars(IdleTimeout(p)) /\ WF_vars(ConnectionClosed(p))

FairSpec == Spec /\ Fairness

-----------------------------------------------------------------------------
(***************************************************************************)
(* Properties.                                                             *)
(***************************************************************************)
Senders == [queue : Seq(Files), cur : Files \cup {None}, total : Nat, next : Nat,
            unacked : SUBSET Nat, timed : SUBSET Nat, oldest : Nat, batch : Nat,
            sentZ : BOOLEAN, window : Nat \ {0}]
Receivers == [file : Names \cup {None}, fd : Names \cup {None},
              batch : Nat, expected : Nat]

\* The type invariant.  The window never closes altogether, and an open file
\* exists.
TypeOK ==
  /\ state \in [Peers -> {"INIT", "TRANSFERRING", "DONE"}]
  /\ sending \in [Peers -> {"wait", "opening", "resent", "flushed", "closing",
                            "ending"}]
  /\ receiving \in [Peers -> {"read", "reply", "verify"}]
  /\ event \in [Peers -> BOOLEAN]
  /\ snd \in [Peers -> Senders] /\ rcv \in [Peers -> Receivers]
  /\ disk \in [Peers -> [Names -> Seq(Unit) \cup {Absent}]]
  /\ buf \in [Peers -> Seq(Frames)] /\ wire \in [Peers -> Seq(Frames)]
  /\ reported \in [Peers -> SUBSET Files]
  /\ losses \in 0..MaxLosses /\ early \in 0..MaxEarly
  /\ reconnects \in 0..MaxReconnects
  /\ \A p \in Peers : rcv[p].fd # None => disk[p][rcv[p].fd] # Absent

Copy(p, f) == disk[Other(p)][Name[f]]      \* the peer's copy of a file of p

\* When _pump_sender() logs a file as successfully transferred, the receiver's
\* copy is the file, whole and in order, unless the receiver refuses its name.
Delivered ==
  \A p \in Peers : \A f \in reported[p] : Accepted(f) => Copy(p, f) = Content[f]

\* A block that has left unacked_blocks, by its own ACK and in any order, is in
\* its place on the receiver's disk, although a task may have been in the middle
\* of resending it.
AckedIsStored ==
  \A p \in Peers : snd[p].cur # None /\ Accepted(snd[p].cur) =>
    \A k \in (0 .. snd[p].next - 1) \ snd[p].unacked :
      /\ Copy(p, snd[p].cur) # Absent
      /\ Chunk(Copy(p, snd[p].cur), k) = Chunk(Content[snd[p].cur], k)

\* No answer of the peer goes unnoticed: when the send task has gone to sleep
\* while its file can be continued or closed, the event that wakes it is set,
\* whichever await the answer came in.
NoLostWakeup ==
  \A p \in Peers :
    LET s == snd[p] IN
    /\ sending[p] = "wait" /\ state[p] = "TRANSFERRING" /\ s.cur # None
    /\ Unsent(s) > 0 \/ Finished(s)
    => event[p]

\* A block that waits for its ACK has a send time, which its ARQ timeout needs.
UnackedIsTimed == \A p \in Peers : snd[p].unacked \subseteq snd[p].timed

\* The peers never wait for each other to read: while both receive tasks stand
\* in drain() neither reads what keeps the other one there.
NotStuck == ~ \A p \in Peers : receiving[p] # "read" /\ ~Drained(p)

\* Once a file has been reported, nothing that is still in flight, and no later
\* session on the same directories, touches the receiver's copy again.
ReportedIsFinal ==
  [][\A p \in Peers : \A f \in reported[p] :
        disk'[Other(p)][Name[f]] = disk[Other(p)][Name[f]]]_vars

\* Every file is eventually reported, whatever the line damages within Lossy.
AllReported == <>(\A p \in Peers : reported[p] = FilesOf(p))

(***************************************************************************)
(* The session implements FileTransfer for the files the receivers accept. *)
(***************************************************************************)
Transfer == INSTANCE FileTransfer WITH
  Files <- Offered,
  Before <- [f \in Offered |-> OnDisk[Other(Owner(f))][Name[f]]],
  copy <- [f \in Offered |-> Copy(Owner(f), f)],
  reported <- (reported[A] \cup reported[B]) \cap Offered

\* What the two peers do to a file is what FileTransfer allows: its copy grows
\* from the front, and it is reported when whole, and then in the end reported.
ImplementsTransfer == Transfer!FairSpec
=============================================================================
