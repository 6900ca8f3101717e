# Verification of pyRetroProtocols

TLA+ modules, TLC configurations and TLAPS proofs for the file-transfer
protocols of this repository. Paths below are relative to the repository's
`src/`; line numbers without a file are those of
`protocols/hslink/protocol/hslink.py`.

Modelled are the HS/Link session, which carries the most interesting
behaviour (two peers that both send and receive, a sliding window,
retransmission, skipping, crash recovery and a two-sided end), the byte codec
below it, the WS/Link
session, its successor, which adds concurrent tasks to all of that, the ZMODEM
sender and receiver behind `sz` and `rz`, and the three XMODEM dialects.

## 1. Inventory

| Component | State it keeps | Operations | Interacts with | What is hard | What makes it correct |
|---|---|---|---|---|---|
| **HS/Link session** `protocols/hslink/protocol/hslink.py` | `state`; sender: `files_to_send`, `current_file`, `current_fd`, `batch_index`, `total_blocks`, `next_block_num`, `unacked_blocks`, `_sent_z`, `last_arq_time`; receiver: `recv_fd`, `recv_batch_index`, `recv_expected_block` | `loop`, `step`, `_pump_sender`, `_open_next_file`, one branch of `_handle_packet` per packet type | framer, transport, file system, the peer's session | lost frames, late answers, duplicates across files, resume, two directions, end of session | a reported file is whole; no unstored block is forgotten; both programs end with everything exchanged |
| **HS/Link framer** `framer.py`, **structures** `structs/`, `const.py` | partial packet, escape flag | `send_packet`, `read_packets` | session, transport | resynchronisation after damage, buffer cap | what is sent is what is read; damage costs whole frames only |
| **HS/Link transport** `transport.py` | `in_buffer`, `out_buffer`, `carrier_lost` | `idle`, `read`, `write` | OS pipes | back-pressure, end of file, write errors | bytes in order, nothing dropped silently |
| **HS/Link tools** `tools.py` | none | CRC-16/24/32, DOS time | framer, session | ranges and widths | agrees with reference definitions |
| **HS/Link programs** `hs.py`, `hr.py`, `hx.py` | none | parse arguments, run a session | session | a restart after a dropped carrier | |
| **WS/Link session** `protocols/wslink/protocol/wslink.py` | as HS/Link, plus `window_size`, `block_send_times`, `rtt_history`, `_send_event` | `_recv_loop`, `_send_loop`, `_pump_sender`, `_open_next_file_async`, `_handle_packet`, `_update_rtt` | two asyncio tasks that share all of it | every `await` is an interleaving point | as HS/Link; the window stays within its limits |
| **WS/Link framer and transport** | `_write_buf`, `_flush_lock` | buffered and immediate sends, `flush`, `read_packet` | session | order of buffered and immediate frames, mutual back-pressure | frames whole and in order |
| **ZMODEM** `protocols/zmodem/protocol/zmodem.py` | the loop it is in, file, position, CAN count | `send`, `recv`, `_recv_file`, headers and subpackets | serial line, file system, the other program | CRC errors in mid-stream, timeouts on both sides, answers that name no file, interrupted and restarted programs, resume offsets | a counted file is whole; data stays in its file; nobody waits for a program that has gone |
| **XMODEM** `xmodem.py`, `xmodemcrc.py`, `xmodem1k.py` | sequence number, error and cancel counts, CRC mode | `send`, `recv`, `_send_stream`, `_send_packet`, `_send_eot` | serial line | damaged and dropped bytes, lost and late ACKs, duplicates, sequence wrap, two error limits | the stream is received once and in order; success is reported for a whole stream only; both calls return |
| **YMODEM** `ymodem.py` | as XMODEM, file name and size | `send`, `recv`, `_recv_stream` | as XMODEM | `recv` raises on every packet 0 (line 199) | |
| **rz, sz** | terminal mode, snoop buffer | find a ZMODEM signature, run a session | ZMODEM, terminal | a signature across two chunks | |
| **File safety** `protocols/common/file_safety.py` | none | name, size and time checks | receivers | | a path inside the receive directory |
| **Rust core** `crates/pyprotocols-core` | none | framers, escape codecs, CRCs, name checks for the same protocols | Python bindings | agreement with the Python framers | same as its Python counterpart |
| **Legacy** `protocols/hslink/src` | | 1994 assembly, kept for reference | nothing | | |

`PROJECT.json` has the same list with what is modelled of each, and the
hazards: every place in this code where something can go wrong that a test
would hardly reach, with the properties that watch it. The only tests in the
repository are unit tests of the Rust codecs, so no test exercises a session.

## 2. Plan

| Order | Module | Content | State |
|---|---|---|---|
| 1 | `FileTransfer` | abstract specification of a transfer | done |
| 2 | `LinkPackets`; `HSLink`, `MCHSLink` | what HS/Link and WS/Link share: files, blocks and packets; the HS/Link session over framer and transport | done |
| 3 | `LinkPacketsProofs`; `HSLinkProofs` | lemmas on blocks and packets; type correctness, accounts, frames | done |
| 3b | `HSLinkProofs` | the end of a session; delivery and the refinement of `FileTransfer` where OPEN and CLOSE get through | done |
| 4 | `WSLink`, `MCWSLink` | one step per stretch of code between two `await`s; two tasks per peer, buffered frames, window control | done |
| 4b | `WSLinkProofs` | type correctness, accounts, genuine frames, `UnackedIsTimed` and wake-ups of WS/Link, on `LinkPacketsProofs` | done |
| 4c | `WSLinkDeliveryProofs` | delivery and the refinement of `FileTransfer` by WS/Link, under the same conditions as for HS/Link | done |
| 5 | `Framer`, `MCFramer` | byte codec and CRCs of HS/Link over a line that changes, drops and inserts bytes; round trip, resynchronisation | done |
| 6 | `ZModem`, `MCZModem` | `sz` and `rz`, started, interrupted and started again over a line that damages frames | done |
| 6b | `XModem`, `MCXModem` | the three dialects byte by byte over a line that damages and drops bytes; implements `FileTransfer` | done |
| 6c | `XModemProofs`, `XModemOrderProofs` | type correctness, acknowledgements; order of the stored stream, outcomes and the refinement of `FileTransfer` | done |
| 6d | `ZModemProofs` | type correctness, `CleanCopies`, `ReportedIsCounted`, `OwnData` | done |
| 7 | `FramerProofs` | round trip for every payload, one packet per fault, what the CRCs detect | done |

Theorems worth proving, in this order: type correctness and frame integrity of
HS/Link, cumulative acknowledgement safety, delivery and the refinement (done);
acknowledgements, order, outcomes and the refinement of XMODEM (done); the
window of WS/Link that never closes, its send times (`UnackedIsTimed`) under
every sequence of `_update_rtt`, NAK and timeout, and its wake-ups (done);
delivery by WS/Link and its refinement (done); type correctness, clean copies,
counts and data of ZMODEM (done); the round trip of the framer for every payload,
its resynchronisation and its CRCs (done).

## 3. The modules

**`FileTransfer`** says what a transfer promises: the receiver's copy grows from
the front (`Extend`) and may be discarded and begun again (`Begin`) until the
sender reports the file (`Report`), which it may do only when the copy is the
file. Fairness of `Report` adds that a complete copy is reported in the end.

**`LinkPackets`** holds what the two session modules share: the constants that
name peers, files and directories, the cutting of a content into blocks, the
packets, and what makes a packet genuine. WS/Link kept the packet types of
HS/Link and widened their fields, and a model without field widths sees no
difference.

**`HSLink`** is two peers `A` and `B`, each a session on a transport.

| State | Code |
|---|---|
| `state[p]`, `alive[p]` | `self.state`; the program is still in `loop()` |
| `snd[p]` | `queue` files_to_send, `cur` current_file (and current_fd, whose position is `next`), `total` total_blocks, `next` next_block_num, `unacked` the keys of unacked_blocks (a payload follows from its key), `batch` batch_index, `sentZ` _sent_z |
| `rcv[p]` | `fd` recv_fd, `batch` recv_batch_index, `expected` recv_expected_block |
| `disk[p]` | receive directory of p |
| `outbuf[p]`, `inbox[p]` | out_buffer in frames; the OS pipe to p together with p's in_buffer |
| `reported[p]` | files for which `_pump_sender` logged "successfully transferred" |
| `losses`, `early`, `reconnects` | the used part of the budgets `MaxLosses`, `MaxEarly`, `MaxReconnects` |

| Action | Code |
|---|---|
| `Idle` | the write of `StdioTransport.idle` |
| `Ping` | the handshake ping of `step` |
| `Pump`, `Timeout` | one `_pump_sender` call without and with the ARQ resend: open, resend, fill the window and close, all in one step |
| `AllSent` | its Z branch |
| `Handshake`, `HandleAck`, `HandleNak`, `HandleSkip`, `HandleVerify`, `OpenUnsafe`, `OpenSkip`, `OpenResume`, `OpenFresh`, `DataExpected`, `DataUnexpected`, `HandleSeek`, `HandleClose`, `HandleDone` | the branches of `_handle_packet` |
| `Ignore` | every early return of `_handle_packet` |
| `Exit`, `CarrierLost` | the two ends of `loop()` |
| `Lose` | `HSLinkFramer._finalize_packet` returning `None` on a CRC mismatch |
| `Reconnect` | both programs are started again after the carrier dropped |

Abstractions. A unit of content is a number that occurs nowhere else, so that
misplaced data shows. A CRC of a block stands for the block. READY and
READY_RECV travel as one frame. A step handles the packets of one `read()`, any
number of them, so packets are separate actions that interleave with pumps in
either order. A new ping waits until the last has left the link, which bounds
the backlog and loses nothing, as a session handles only the first. Chat, and
the F and M packets that no peer built from this code sends, are left out.

**`Framer`** is one direction of the link below `HSLink`: `send_packet()`, a noisy
line, and `read_packets()`. A byte is the set of its bits, so that exclusive or is
symmetric difference, and escapes and CRCs are the real ones.

| State | Code |
|---|---|
| `sent`, `received` | the packets given to `send_packet()` and yielded by `read_packets()` |
| `wire`, `arrived` | bytes the line has yet to carry; the transport's `in_buffer` |
| `decoder` | `_in_packet`, `_escaped`, `_current_packet`; `_buffer` is empty between two calls |

| Action | Code |
|---|---|
| `send_packet`, `read_packets` | the methods; `Scan` is what one byte does to the decoder, `Genuine` what `_finalize_packet` checks |
| `Carry` | the read of `StdioTransport.idle` |
| `Change`, `Insert`, `Drop` | noise |

A read takes all that has arrived, up to `MaxRead` bytes, so it may cut the stream
anywhere. `HSLink` has the result: a damaged frame is a lost one (`Lose`).

**`WSLink`** is two peers, each with the two asyncio tasks of a `WSLinkSession`
that share its state. Between two `await`s a task cannot be interrupted, so an
action is the code from one `await` to the next, and two variables say where
each task stands.

| State | Code |
|---|---|
| `sending[p]` | the `await` of `_send_loop`: `wait` for the event, or the write of an OPEN (`opening`), a resent block (`resent`), a window (`flushed`), a CLOSE (`closing`) or a Z (`ending`) |
| `receiving[p]` | the `await` of `_recv_loop`: `read`, the write of an answer (`reply`) or of a VERIFY (`verify`), after which the file is opened |
| `event[p]` | `_send_event.is_set()` |
| `snd[p]`, `rcv[p]` | as in `HSLink`, with `window` window_size, `timed` the keys of block_send_times, `oldest` the local oldest_block across the write, `file` recv_file |
| `buf[p]`, `wire[p]` | `_write_buf`; frames written by p and not yet read by its peer, wherever they are |

| Action | Code |
|---|---|
| `OpenNext`, `OpenSent` | `_open_next_file_async` before and after its write; `OpenSent` goes on into the window fill |
| `Pump`, `Timeout`, `Resent`, `Flushed`, `CloseSent` | the stretches of `_pump_sender` |
| `AllSent`, `DoneSent` | its Z branch |
| `Handshake` ... `HandleClose`, `Ignore` | `_handle_packet`, up to the write of an answer |
| `Answered`, `VerifySent` | the rest of the handler, when `drain()` returns |
| `IdleTimeout`, `ConnectionClosed` | the two ends of `_recv_loop` |
| `Lose` | `read_packet` returning type `?` after a CRC mismatch |
| `Reconnect` | a new session on both sides |

A write puts the frame on the link at once; what takes time is `drain()`, which
returns when at most `HighWater` frames are on their way. A transport may also
give way when nothing is full, so a task at a write can be overtaken by the
other one in any case. `send_packet()` is a coroutine without an `await` and
never gives way; the flush lock has one user and is never contended. The value
that `_update_rtt` computes is one of those that some round-trip times give
(`Windows`). Not in the model: damage to the length field of a frame, after
which the reader is out of step with the stream; and a killed program that loses
what Python has buffered of a received file.

**`ZModem`** is the sender `ZMODEM.send()` and the receiver `ZMODEM.recv()`, each
in a program that may be started again after it has ended.

| State | Code |
|---|---|
| `snd` | `pc`, the loop of `send()`: waiting for ZRINIT (`rinit`), between two files (`next`), waiting for ZRPOS (`rpos`), streaming, waiting for the ZRINIT after ZEOF (`eof`) or for ZFIN (`fin`); `queue` the files left, `over` the option `-y`, `pos` the position of the open file; `result` how the program ended |
| `rcv` | `pc`, the loop of `recv()` (`hello`, `loop`, `over`) or `_recv_file()` (`info`, `file`, `data`); `over` force_overwrite, `file` the file that `fp` writes, `torn` a subpacket whose beginning was damaged |
| `wire[p]` | frames on their way to p |
| `disk` | `basedir` |
| `reported`, `counted` | the files in `sent_count` and `file_count`, each since it was last offered or opened |

| Action | Code |
|---|---|
| `Launch` | `sz.py` or `rz.py` up to the first header they write |
| `Greeted`, `SkipFile`, `Offer`, `Positioned`, `Stream`, `Completed`, `AllOffered`, `SignOff`, `GiveUp` | `send()`; `Stream` writes one subpacket, and the last one with ZEOF |
| `Invite`, `FileOffered`, `NoOffer`, `FinReceived`, `RDone` | `recv()` |
| `InfoCorrupt`, `Refuse`, `OpenFile`, `DataComes`, `WriteChunk`, `DataEnds`, `DataStalls`, `CloseFile` | `_recv_file()` and `_recv_data()` |
| `SIgnores`, `RIgnores`, `Tears` | what `_recv_header()` skips, what `_recv_file()` has no branch for, what `_recv_16_data()` takes for data |
| `SCancelled`, `RCancelled`, `Interrupt` | five CAN, `KeyboardInterrupt`, and the five CAN that the programs send because of it |
| `SRaises`, `RRaises` | the places where a damaged byte or a silence raises `TypeError` |
| `Spoil` | a frame is damaged: its CRC fails, its end is lost, or an illegal digit or escape is in it |

A frame is a header or a whole subpacket, since both programs read one at a time
and the model has every loop's reading of every frame, damaged or not. What is
written to a program that does not run is lost to its terminal. Inline
compression changes where subpackets are cut, and a subpacket that fails its CRC
never reaches the decompressor, so it is left out.

**`XModem`** is one `send()` and one `recv()` of the same class, `dialect`.

| State | Code |
|---|---|
| `snd` | `pc`, the loop: `hello` in `send()`, `next` in `_send_stream()`, `ack` in `_send_packet()`, `eot` in `_send_eot()`; `packet` the packets read from the stream, `errors`, `cancel`, `crc` the locals error_count, cancel, crc_mode |
| `rcv` | `pc`, the place of `recv()`: `hello` the handshake, `byte` the wait after a good packet, `packet` from the sequence number on; `errors`, `cancel`, `crc` as above; `size` is packet_size |
| `wire[p]` | bytes on their way to p |
| `stored` | the packets written to the stream; its length gives `sequence` |
| `blank` | packets whose CRC is 0, for which line 219 falls through to the checksum |

| Action | Code |
|---|---|
| `Greeted`, `NotGreeted` | the handshake of `send()` |
| `NextPacket`, `EndOfStream` | the loop of `_send_stream()` |
| `Acknowledged`, `PacketRefused`, `PacketUnanswered` | the answers in `_send_packet()` |
| `EotAcknowledged`, `EotUnanswered` | `_send_eot()` |
| `AskAgain`, `AskCancelled` | the handshake of `recv()` |
| `PacketStarts`, `EndOfTransmission`, `CancelByte`, `ByteRaises` | its loop over `byte` |
| `PacketGood`, `PacketBad`, `PacketRaises` | what follows the sequence number |
| `Fault` | a byte is damaged or dropped |

The line carries bytes here, because a receiver that has lost its place takes
any byte for any other. The bytes of the contents and of the CRC of packet k are
the cells `Cell(k)` and `Crc(k)`, by which the CRC knows a packet that is as it was
sent. Wherever else `recv()` compares a byte, in the handshake, in its loop over `byte`
or as a number, a cell may have any of `Values[k]`, the values that occur in packet
k, or none that means something (`MayBe`). What this leaves open: a body whose CRC
is right counts as good behind the header that was sent, and not behind bytes of
contents or CRC that happen to have the values of the number expected or of its
complement, for which two bytes of the header or all three must be lost; the model
answers NAK there.
The classes differ in the bytes that start a packet, in whether CAN ends the handshake, and in the messages that raise
because their text or a byte has the wrong type or their name does not exist
(`xmodem.py:149`, `xmodemcrc.py:51`, 131 and 158, `xmodem1k.py:50`, 139 and
166). Several definitions stand for the same lines in all three
files; `PROJECT.json` names one of them. XMODEM-1K takes a SOH for a packet of 128
bytes (`ShortSize`), which its sender never sends: a receiver reads one where it has
lost its place. `getc()` and `putc()` belong to the caller and are as
`xmodem.py:11-20` documents them, and accept the `debug` argument that
`_send_packet()` passes.

A definition whose comment says "Variant" is one of the model's definitions
with a plausible bug. No specification uses it; `PROJECT.json` pairs each with
the property that TLC then finds violated.

**`MCHSLink`** and **`MCWSLink`** give the instances: file `a1` of five units (two full blocks and
a short one), `a2` of one block, both sent by A, and `b1` of one block sent by B.
`MCFramer`, `MCZModem` and `MCXModem` give packets and noise, queues and
directories, and the packets with CRC 0 and the values that contents have.

**`LinkPacketsProofs`**, **`HSLinkProofs`**, **`FramerProofs`**,
**`WSLinkProofs`**, **`WSLinkDeliveryProofs`**, **`XModemProofs`**,
**`XModemOrderProofs`** and **`ZModemProofs`** hold the lemmas and theorems of section 6.

## 4. Runs

| Run | Expected | What it asks |
|---|---|---|
| `hslink_lossy` | pass | Both peers send, window 2, the pipe holds three frames, the line may damage any two DATA, ACK or NAK frames, one ARQ timeout is premature. The type invariant; `Delivered`, `AckedIsStored`, `ExpectedIsWritten`, `GenuineFrames`, `DoneMeansExchanged`; the liveness properties `AllReported` and `BothEnd`; and `ImplementsTransfer`, that the session implements `FileTransfer`. |
| `hslink_resume` | pass | The carrier drops up to twice at any point and both programs start again; the receiver already has `a2` and refuses `b1`; one damaged frame, one premature timeout; window 1. `Delivered` and `ReportedIsFinal`. |
| `hslink_window_resume` | violation of `Delivered` | Restart with window 2: the recovered copy is spoilt. |
| `hslink_lost_open` | violation of `Delivered` | One damaged OPEN: data is acknowledged with no file open. |
| `wslink_lossy` | pass | A sends two files, window 2 to 3, two damaged DATA, ACK or NAK frames, two premature timeouts, and writes that wait for the peer to read. The type invariant with the window that never closes; `Delivered`, `AckedIsStored`, `NoLostWakeup`, `UnackedIsTimed`; `AllReported` and `ImplementsTransfer`. |
| `wslink_resume` | pass | Both peers send; the connection drops once at any point; the receiver already has `a2` and refuses `b1`; one damaged frame, one premature timeout; window 1. `Delivered`, `AckedIsStored` and `ReportedIsFinal`. |
| `wslink_stuck` | violation of `NotStuck` | Two crossing files with a window above the high-water mark: both receive tasks wait in `drain()`. |
| `framer_noise` | pass | Three packets, with and without a payload, control characters in it; two bytes changed, dropped or inserted anywhere, with framing characters and zeros among them; reads that cut the stream anywhere. The type invariant, `NothingForged` and `FaultCostsOnePacket`. |
| `zmodem_sessions` | pass | Four programs are started, senders and receivers in any order; one is interrupted; two frames of any kind are damaged in any way, or a program pauses for longer than a timeout. Two queues: an unreadable file, one that is there in part, and another one; or a file followed by a refused one; with and without `-y`. The type invariant, `CleanCopies`, `ReportedIsCounted`, `OwnData`, `InterruptEndsBoth` and `Completes`. |
| `zmodem_damaged` | violation of `CountedIsWhole` | One damaged data subpacket: a file that is not what was sent is counted by both sides. |
| `xmodem_lossy` | pass | Six packets with five sequence numbers, one of which has the value of EOT, and a third packet with every value that means something among its contents, in each dialect, with and without a packet of CRC 0; three bytes anywhere are damaged, become CAN or are dropped, or a program pauses. The type invariant, `StoredInOrder`, `AcksAreBacked`, `OutcomeIsTrue`, `BothReturn`, `CleanCompletes` and `ImplementsTransfer`. |
| `xmodem_damaged` | violation of `Recovers` | One damaged byte of a packet's contents: no retry helps. |

What the passing runs of HS/Link show: as long as the frames that are sent once and never
acknowledged (handshake, OPEN, CLOSE, SKIP, Z) get through, the window, the
cumulative ACKs, the NAKs and the timeouts deliver every file whatever happens
to data and acknowledgements, in both directions at once, and both programs end
with everything exchanged. What the violations show is in `findings`: crash
recovery is right only when one packet at a time is in flight, while
`window_size` is 64 (41); and an OPEN, which is sent once, can when lost make
the sender report a file that the receiver does not have. A SKIP that arrives
late does the same to the file after it, when the skipped one has no blocks.
`Lossy` is a constant: with `"RQ"` or `"Z"` in it a peer
waits for ever, and with `"C"` the burst of a file that is skipped next is
appended to the file before.

What `framer_noise` shows: the decoder is in step again at the next START
whatever noise has left pending, so a damaged byte costs one packet, and nothing
but what was sent reaches the session. One packet does pass that was not sent:
CRC-24 starts from 0 and is blind to zeros in front, so a zero byte inserted
behind START gives the packet a type 0, for which `_handle_packet()` has no branch;
`NothingForged` is about the other types. The Rust decoder
(`crates/pyprotocols-core/src/protocols/hslink.rs:158-160`) takes the byte after
DLE before it looks at it, and an END that noise turns into DLE then costs the
next packet too; Python does not use it, and its END and DLE have other values.

What the passing runs of WS/Link show: no order in which the two tasks of a peer
are resumed loses an acknowledgement, a wake-up or a block, neither when an ACK
arrives while its block is being resent, nor when SKIP or VERIFY arrive while
OPEN is still being written and are overwritten or meet the file before. The
violation is of its own: answers are written by the task that reads, so two
full directions block each other for good. A SKIP for a refused name is left in
the write buffer, and unless the file is the first of its batch or this peer
sends data too, the sender repeats a block of it for ever: `wslink_lossy` has no
refused file, since `AllReported` does not hold with one. WS/Link also shares
two of the weaknesses of HS/Link, a burst before VERIFY (hence `InitialWindow` 1
in `wslink_resume`) and an OPEN that is never acknowledged. After CLOSE nothing
sets `_send_event`, so the next file is opened up to `arq_timeout` later;
`NoLostWakeup` is about the time in which a file is current.

What the passing runs of ZMODEM show: whoever is interrupted, at any moment, and
started again, the receiver's copy stays the front of the file and is resumed
from its end; no single damaged frame or early timeout makes the sender count a
file before the receiver, or data reach another file; CAN ends the other program
in whatever loop it is; and an undisturbed pair completes whichever is started
first. The conditions in the properties are sharp, TLC finds counterexamples
without them. A receiver that raised and was started again greets with the ZRINIT
that a sender still waiting after ZEOF takes for its answer, so `ReportedIsCounted` is about one
fault or about one pair of programs; and as ZDATA names no file, two faults over
three launches can mix two files (`OwnData`). A batch does not get past a file
whose name is refused: the receiver does not answer with ZSKIP, and its ZRINIT
on each timeout resets the sender's, so that they go on for ever; `Completes` is
about the files ahead of it. After damage the receiver never asks for data
again; the violation shows what becomes of the file. (`zmodem.py:179-180` says
that existing files are overwritten; they are appended to, without a look at
what they hold.)

What the passing runs of XMODEM show: whatever the line does, nothing is stored
twice, out of order or made up of two packets, an ACK is never taken for that of
another packet, `send()` returns `True` for a whole stream only, and both calls
come to an end. `recv()` may return a count for a stream that is cut short,
where `xmodem.py:84-86` promises one for success only, because it takes any byte
of value 4 for EOT that comes where the first byte of a packet is expected
(134-141, `xmodem1k.py:126-129`). One fault is enough where the first byte of a
packet is lost and its number is 4, or where the complement comes first and is 4,
as that of 251. A byte of the contents or of the CRC gets there when all three bytes of a
header are lost. `OutcomeIsTrue` makes these two exceptions and no other: a
number after one fault, contents or CRC after three, of the packet stored last
or of the next one. For this the run has packet 4 and, as packet 3, one that
holds every value that means something. Without the second exception TLC finds
the trace with exactly three faults. A transfer that is left alone succeeds. The violation shows that one that is not
fails: after its first NAK a receiver is out of step for good. Two more ways to
fail without any damage are within the passing run: a receiver that asks a
second time before the sender has begun, and a packet of zeros, whose CRC is 0.
A stream without bytes fails as well, as `recv()` knows no EOT in its handshake
(97-123).

A refused file is reported as "successfully transferred" like any other (124
does not know why the window is empty); `Delivered`, `AckedIsStored` and
`ImplementsTransfer` are about the files the receiver accepts.

### Bounds

* `BlockSize` 2 stands for 4096: with five units there are full blocks, a short
  last block and a file of exactly one block.
* `WindowSize` 2 stands for 64: smaller and larger than the number of blocks
  both occur, blocks are lost at either end of the window, and a NAK can name a
  block in the middle of it. `hslink_resume` uses 1, because of the finding above.
* `PipeSlots` 3: an OPEN with its window fills the pipe, so back-pressure
  occurs in both directions.
* `MaxLosses` 2: a block and its resend, or a block and an ACK. `MaxEarly` 1: a
  duplicate of a block that is still in flight, which may also arrive in the
  time of the next file. On a quiet link timeouts are not limited.
* `MaxReconnects` 2: a resumed transfer is itself interrupted and resumed.
* `VerifyLimit` 9 stands for 100 and is not reached.
* `InitialWindow` 2 and `MaxWindow` 3 stand for 16 and 256: the window grows, is
  halved and shrinks, and is at its lower limit 1.
* `HighWater` 2 in `wslink_lossy`: a window of three makes the sender wait in
  `drain()`, and answers make the receiver wait. It is 9 in `wslink_resume`,
  where the window is 1 and nothing waits, and 1 in `wslink_stuck`, with a window
  of 3 in both directions.

* `Framer`: three packets, so that one follows the two that a pair of faults can
  hit; `MaxRead` 2 separates any two bytes; the noise has every character with a
  meaning, a type byte and the zero byte. `CrcSize` 3 is the default that nothing
  changes; with 2 and 4 the run passes as well.
* `ZModem`: `MaxLaunches` 4 is two pairs of programs, or one program that meets
  three others in turn; `MaxFaults` 2 a damaged frame and its damaged or late
  answer; a file of two units is at its start, in its middle and at its end.
* `XModem`: `PacketSize` 3 stands for 128 or 1024 and `Retry` 4 for 16. `SeqMod` 5
  and `N` 6: the numbers wrap, pass 0, the sixth packet has the number of the
  first, and the fourth has the value of EOT, as packets 4 and 251 have among 256
  numbers. `MaxFaults` 3: a packet, its resend and an answer, or the three bytes of
  a header. `Values` gives packet 3 the values of SOH, STX, EOT, CAN and of every
  number; `ShortSize` 1 is less than `PacketSize`. A damaged byte is
  never a number and no control character but CAN: these bytes have no checksum, and an
  ACK made from a NAK deceives any XMODEM. What the theorems of section 6 say
  holds beyond these bounds.

### Fairness

`loop()` calls `idle()` and `step()` every 10 ms without a condition (415-416),
so a peer that can write, ping, pump, handle a packet or leave will do so: weak
fairness of each action of a peer. Time passes, so the ARQ timeout fires on a
link on which nothing moves (`Quiet /\ Timeout`); no fairness makes a timeout
premature, damages a frame or drops the carrier. Quiet means that nothing is
queued or in flight, so a timeout is owed only when an answer is certainly lost.

In `WSLink` the event loop resumes each task whose `await` can return, hence weak
fairness of `SendTask` and of `RecvTask`. The wait for the event ends after
`arq_timeout` even when the event is not set, so `Pump` does not require it; this
is what makes the loss of a wake-up a delay and not a stop. The ARQ timeout is
owed when nothing is on its way, the idle timeout when moreover neither peer has
anything left to send.

In `ZModem` and `XModem` each program runs (weak fairness of `SenderStep` and
`ReceiverStep`), and every `getc()` has a timeout. A timeout needs no fault when
the other side waits as well, or has ended; while it is about to write, it is a
pause and is counted as a fault. Nobody has to start a program, and no damage is
owed.

## 5. Properties

* `Delivered`: at the moment the sender reports a file, and ever after, the
  receiver's copy is the file.
* `AckedIsStored`: a block that has left `unacked_blocks` is in its place in the
  receiver's copy. This is what makes cumulative clearing (200) safe: it would
  be wrong if the receiver acknowledged a block ahead of the expected one, or if
  an ACK of the file before were taken for this one.
* `ExpectedIsWritten`: `recv_expected_block` and the open file agree.
* `GenuineFrames`: each OPEN or DATA frame in flight, resent or not, is the one
  its batch and block numbers stand for.
* `DoneMeansExchanged`: DONE is reached only when both directions are complete.
* `ReportedIsFinal`: no frame in flight and no later session changes a copy
  that has been reported.
* `AllReported`, `BothEnd`: every file is reported, and both programs end.
* `ImplementsTransfer`: refinement of `FileTransfer.FairSpec`; the abstract copy
  of a file is the copy on the disk of the peer of its owner.
* `NoLostWakeup`: a send task that sleeps while its file could go on has its
  event set, whichever `await` the answer came in. It does not hold with VERIFY,
  whose handler (`wslink.py:361-403`) does not set the event, so it is checked
  where no file is resumed.
* `UnackedIsTimed`: every block without ACK has a send time; one without would
  never be resent (`wslink.py:173`).
* `NotStuck`: the receive tasks do not wait for each other in `drain()`.
* `NothingForged`: the packets yielded are some of those sent, in their order,
  each once.
* `FaultCostsOnePacket`: when all has been read, at most one packet is missing for
  each fault; without faults none is.
* `CleanCopies`: where nothing is damaged, a copy is a front of its file through
  any interruptions and restarts, and a counted file is whole
  (`CountedIsWhole`, which one damaged subpacket violates).
* `ReportedIsCounted`: `send()` counts a file only after `recv()` has, although
  the answer it waits for is also the greeting and what a timeout sends.
* `OwnData`: a copy holds data of its own file only, or the zeros of a hole.
* `InterruptEndsBoth`: five CAN end their reader in whatever loop it is.
* `Completes`: two programs that are left alone transfer everything up to the
  first refused file.
* `StoredInOrder`: the received stream is a front of the sent one.
* `AcksAreBacked`: each ACK on its way belongs to a packet that is stored and not
  yet known to be, so it never acknowledges the next one.
* `OutcomeIsTrue`: `True` means a whole stream, and so does a count of bytes,
  unless a fault has made `recv()` read the number of a packet as EOT, or three
  have made it read a byte of contents or CRC as EOT.
* `BothReturn`, `CleanCompletes`, `Recovers`: both calls end; undisturbed
  transfers succeed; disturbed ones too, which is violated.

## 6. Proofs

**HS/Link, whatever is lost.** `HSLinkProofs` proves, for all constants that
satisfy the named assumptions of `LinkPackets` (`PeersAssumption`, two different
peers; `FilesAssumption`, names, contents and queues of the right kind;
`BlocksAssumption`, positive sizes) and of `HSLink` (`BoundsAssumption`):

* `TypeCorrect`: `Spec => []TypeOK`, with the fact that an open receive file
  exists on the disk.
* `AccountsBalance`: `Spec => []SenderAccounts`: the batch index, the current
  file and the queue make up the list the session was started with, and
  `unacked` holds only blocks of the current file that have been sent.
* `FramesGenuine`: `Spec => []GenuineFrames`.

No file, loss, restart or window size is bounded there, and all frames, control
frames included, may be lost.

The argument. `GenuineFrames` is not inductive: a DATA frame is rebuilt from
`cur`, `batch` and a member of `unacked`, so it is genuine only if those agree
with the batch list, which is `SenderAccounts`; and that the blocks are natural
numbers below the size of the file needs the types. The inductive invariant
`Inv` is the conjunction of the three, written per peer. There is one lemma per
action (`IdleOK`, `PumpOK`, `DataOK`, `LoseOK`, ...), each using that appending
frames that are all right keeps a queue right (`SendOK`) and that taking or
moving frames does (`TakenOK`, `IdleOK`); `OpenedOK`, `FilledOK` and `ClosedOK`
follow `_pump_sender` through its three stages. `NextOK` collects them and
`Invariance` applies the induction.

Nothing about loss is assumed either in the theorem about the end of a session:

* `DoneExchanged`: `Spec => []DoneMeansExchanged`.

Its invariant `Ends` says that a peer whose Z is on its way has neither a
current file nor a queue, that a peer in DONE has neither and its peer neither,
and that every file a peer has left behind is reported. Where a Z may be is
`Link(p)`, what p has written and its peer has not handled, in `outbuf` or in
`inbox`: moving frames between the two does not change it. All handlers treat
`Link` in the same way, which `Handles` says once for all of them.

**HS/Link, delivery.** The other theorems of `HSLinkProofs` assume
`Fresh`: one session (`MaxReconnects` is 0); only DATA, ACK and NAK frames are
lost, any number of them; every file has at least one block, is accepted, does
not exist at the receiver, and no two files of one queue have the same name.
`hslink_lossy` is an instance. Each part is needed, not only convenient.
Restarts with a window above one, and a lost OPEN, violate `Delivered`
(`findings`). A SKIP has no number and may skip the file after the one it is
about, hence the accepted files that are not there yet. With a name twice in a
queue, the second file is skipped or appended to the first. An empty file is
closed in the step that writes its OPEN, so that for a moment it is reported and
not there. There are no bounds on files, blocks, window, losses, early timeouts
or the pipe.

* `ExpectedWritten`, `AckedStored`, `FilesDelivered`, `ReportsFinal`: the
  invariants `ExpectedIsWritten`, `AckedIsStored` and `Delivered`, and the
  action property `ReportedIsFinal`.
* `SessionTransfers`: `Spec => Transfer!Spec`, the safety half of
  `ImplementsTransfer`; it assumes `Apart` as well, that no member of `Files` is
  in the queues of both peers (two files that look alike are two members).

The inductive invariant is `Inv /\ Ends /\ Delivery`. `Delivery` has, for each
direction:

* `Greeted` and `Plain`: a receiver in INIT has RQ before anything else, so it
  ignores no OPEN; nobody skips, verifies or resumes.
* `Flow`: the frames on the link are `Tidy`. An OPEN comes before the data of
  its file and after everything of the files before; after a CLOSE no data comes
  without an OPEN in between; so data meets its own file open, and `Pending`
  adds that a resend will, too. Losing a DATA, ACK or NAK frame keeps all of
  this, losing an OPEN or CLOSE would not.
* `Opener`: the receiver is at the last file that it has begun and has its first
  `expected` blocks.
* `Earned` and `Vouched`: every block outside the window, and every block that
  an ACK on its way speaks of, is `Held`: it is below `expected`, or the
  receiver is past that file. This is what makes clearing everything below an
  ACK safe (200): an ACK for block k is written only when all below k are held,
  also when it answers a duplicate.
* `Settled`: what is closed is reported and whole. It follows when the window is
  empty and everything has been sent, from `Earned`.

For the refinement, OPEN is `Begin`, an expected block is `Extend`, and the
close of a file in `_pump_sender` is `Report`, in the step in which the window
is found empty; each other step leaves copies and reports alone.

**WS/Link.** `WSLinkProofs` proves, under `LinkPackets`' assumptions and
`WindowAssumption` (positive windows, natural limits), whatever is lost and
however often both peers start again:

* `TypeCorrect`: `Spec => []TypeOK`. The window is never 0: halving, shrinking by
  a tenth and growing by one are applied from three places, with their floor.
* `UnackedTimed`: `Spec => []UnackedIsTimed`.
* `AccountsBalance` and `FramesGenuine`, as for HS/Link, for frames on the wire
  and in the write buffer.

The inductive invariant `Inv` has the types, `Books` (the accounts with
`unacked` inside `timed`) and `Relies`, which says what the send task may rely
on when the await at which it stands returns, whatever the receive task has
handled in between: during the write of OPEN there is no current file and the
queue is not empty; during a resend, a flush and the write of CLOSE there is a
current file; during the write of CLOSE its window is empty, so that no NAK can
resend a block of a reported file. The receive task has a counterpart: while
VERIFY is being written, the file it is about is on the disk. Each action has
the one lemma that `Books` and `Relies` hold for the sender it leaves behind.

* `Wakeups`: `Spec /\ []NoVerify => []NoLostWakeup`, where `NoVerify` says that
  no VERIFY is on a wire. VERIFY clears the window and moves the sender on
  without waking it, so a sender that resumes a file may sleep until the ARQ
  timeout. `NoLostWakeup` is not inductive: during "flushed" the send task is
  past the place where it fills the window and will only look whether the file
  is finished, so `Noticed` demands the event then as well.

**WS/Link, delivery.** `WSLinkDeliveryProofs` assumes `Fresh`, which says the same
as for HS/Link (one session, only DATA, ACK and NAK frames damaged, accepted new
files of at least one block with different names); `wslink_lossy` is an
instance. For every such instance, whatever await each task stands at:

* `AckedStored`, `FilesDelivered`, `ReportsFinal`: `AckedIsStored`, `Delivered`
  and `ReportedIsFinal`.
* `WakeupsKept`: `Spec => []NoLostWakeup`, now without a condition on the wire,
  since no VERIFY is ever written.
* `SessionTransfers`: `Spec => Transfer!Spec`, with `Apart`, as for HS/Link.

The inductive invariant is `Inv /\ Delivery`, and `Delivery` has the parts of the
one for HS/Link. What differs is that the sender's variables lag behind what it
has written: OPEN is on the wire before there is a current file, and a file is
reported and its CLOSE written while it still is the current one, so that the
receive task can handle anything in between. `Count` (files opened), `Told`
(files reported) and `Sends` (blocks of the last one may follow) therefore read
the await of the send task along with `snd`, and `Flow`, `Opener` and `Settled`
are stated with them: CLOSE can follow the last block of its file and no block
can follow CLOSE, because during that write the window is empty (`Relies`) and
NAK finds nothing to resend. An ACK removes exactly its own block, so `Earned`
needs no order among ACKs. Every stretch of the send task comes down to `Sent`,
what it may write and must leave alone, and every handler to `Answers`;
`SentCourse`, `ReceiveOutgoing` and `ReceiveIncoming` show once for all that
these keep both directions on course. `Ready` is what the two ends of a call,
`FillFrom` and `Finish`, find after any of the awaits before them; from it
`FinishedArrived` gets that an empty window with nothing left to send means a
whole copy, which is the step that the refinement maps to `Report`.

**XMODEM.** The constants are subject to `XPacketAssumption` (any number of
packets, any packet size and any contents, 4 to 256 sequence numbers) and `XRetryAssumption`
(at least one try). Proved without further hypotheses:

* `TypeCorrect`: `Spec => []TypeOK`; no error counter reaches its limit.
* `EveryAckBacked`: `Spec => []AcksAreBacked`. `Backed` counts: packets stored,
  with one for the EOT, are at least the packets the sender has taken for
  acknowledged and the ACKs on their way. `Thins` is what a line that damages
  and drops does to the bytes: it never adds an ACK.

With `CodeLimits`, 256 sequence numbers and `MaxFaults < PacketSize + 3`:

* `StreamInOrder`: `Spec => []StoredInOrder`.
* `OutcomesAreTrue`: `Spec => []OutcomeIsTrue`, whatever values the contents have.
* `XModemTransfers`: `Spec => ImplementsTransfer`.

The inductive invariant is
`TypeInv /\ Backed /\ InOrder /\ Clean /\ Placed /\ Reported`.
`InOrder` says what a receiver that has lost its place can find on the line:
bytes of packet j, the last one stored, and behind them bytes of packet j + 1
(`Carries`). Only number and complement are not under the CRC, so a packet out
of order would need two bytes in succession that make a header of another
packet, and contents and CRC of that one behind them. `Clean` is the lockstep of
a transfer without faults; it gives the exception of `OutcomeIsTrue` its `faults
> 0`. `Placed` measures the line: between the CRC of a packet and the contents
that follow lie the three bytes of a header, and behind a packet that has just
been read the next contents are as far away, less one byte for each fault
(`Spaced`, `HeaderAhead`). So where `recv()` finds contents or CRC in place of a
first byte, there have been three faults, the `faults > 2` of the exception. `Reported`
keeps what `recv()` returned true.

The bound on faults comes from an attempt that failed. The complement of packet
127 is 128, and of packet 255 is 0: with the number of the repetition of the
same packet behind it, it is the header of packet 128 or 256. Only the bytes in
between, more than `PacketSize`, keep them apart, so the line has to drop fewer
than that. The code's 128 or 1024 bytes make this no restriction in practice.

**ZMODEM.** The constants are subject to `ZFilesAssumption` (files, contents and
directories of the right kind), `ZBoundsAssumption` and `ZMishapsAssumption`
(what is damaged is a frame). Proved without further hypotheses:

* `TypeCorrect`: `Spec => []TypeOK`, with the open file that a write goes to and
  the file that the sender streams.

With `FrontDirectories`, that the directory of the receiver holds at first only
what can be resumed, fronts of the files:

* `CopiesClean`: `Spec => []CleanCopies`.
* `ReportsCounted`: `Spec => []ReportedIsCounted`.
* `DataOwn`: `OwnData` as long as two programs at most were started or the number
  of faults is not 1. One fault among three or more programs stays with TLC.

There are two inductive invariants, because the properties hold for two reasons.

`Pair` is about two programs that are each started once (`launches <= 2`),
whatever is damaged, late or interrupted. Then the frames of either direction
keep their order, and a damaged one is one less that means anything. Until the
second program runs, the first one hears nothing (`Alone`); what is written to a
program that does not run is not left for its successor (`Drained`). From then
on the offer on the wire is the only one, no data is behind it, and it is not
answered (`OneOffer`); a ZRPOS on the wire is the answer to the current offer,
and while the sender streams or waits after ZEOF, a ZRINIT that is still to come
was written after the file was closed (`OneAnswer`, `StreamAnswered`); the file
that the receiver writes is the one on offer, so its data is that file's
(`WritesOffered`, `OwnUnits`).

`Clean` is about a line that damages nothing and on which nothing is late, with
any number of programs. Interruptions are what makes it hard: five CAN overtake
nothing, so the program they will end still reads what is before them, answers
it, and its peer's successor hears those answers. What counts of a wire is
therefore the part before the next CAN (`Heeded`), and an end with a CAN on its
way is doomed. `Phases` has three cases. Neither end is doomed (`InStep`): the
two are in one of the situations of an undisturbed transfer, each with its
contents of both wires. The receiver is doomed (`ReceiverDoomed`), or the sender
(`SenderDoomed`): then the other program has ended and may have been started
again, and hears at most greetings, or a ZRPOS or ZFIN that it does not wait
for. Both at once does not happen, since who sends CAN has ended and drained his
wire. `Copies` adds that behind ZDATA the rest of the file is on its way
(`Flow`), which makes every copy a front and a closed one whole. TLC checked
`Clean` as an invariant before it was proved.

**The framer.** The constants are subject to `FramerAssumption`: packets are
sequences of bytes with a type byte that is not zero, as all in `const.py` are,
and the CRC has 2, 3 or 4 bytes. `FramerProofs` proves without further hypotheses:

* `TypeCorrect`: `Spec => []TypeOK`.
* `OnePacketPerFault`: `Spec => []FaultCostsOnePacket`, whatever the packets
  and the noise.
* `RoundTrip`: `faults = 0 /\ Quiet => received = sent` always holds, for every
  payload.
* `IntactLine`: `NothingForged` holds as long as nothing has been damaged.
* `OneByteDetected`: a genuine packet of any length with one byte changed, in its
  data or in its CRC, is not genuine, with each of the three CRCs; and
  `ChangedFrameIsLost`: a frame damaged in this way yields nothing.

The loops over bytes and bits are recursive functions in the model. `SetInduction`
(a set that contains 0 and with each n also n + 1 contains all of Nat) follows
from the well-foundedness of Nat, and gives all that is needed: that a function
defined by recursion exists (`Recursion`), and the laws of the loop, of which the
main one is that bytes may be read in one go or in two (`ScannedConcat`).
`EscapesUndone` and `FramedRead` follow a frame through the decoder, in whatever
state it was.

The invariants are about the future: `Finally` is what the receiver will have when
everything that is on its way has been read as it is now. Sending appends to it,
carrying and reading leave it alone (`QuietSteps`). `Costs` says that at most
`faults` of the packets sent are not in it. That a fault takes one from it is
`NearScanned`: of two decoders that read the same bytes, the first gets at most
the packet it is in (`Pending`) more than the second, since at the next START both
are in the same state. A damaged byte may complete a packet or leave the decoder
in one, but not both (`StepCount`), so the total is one.

`OneByteDetected` needs no algebra: a round is injective, since the bit shifted
out is the one that decides whether the polynomial is added, and shows again at
the other end (`RoundInjective`, `RoundReflectedInjective`). Registers that differ
once therefore differ to the end of the packet (`RecursionDiffers`).

`NothingForged` with noise is no theorem: for every CRC there are packets and
faults that it does not tell apart. It stays with `framer_noise`.

`LinkPacketsProofs` has the lemmas that both session modules need: the types of
blocks, counts and frames; that the oldest block of a non-empty window exists;
that OPEN and DATA frames built from the batch list are genuine; that the first k
blocks of a content (`Front`), with the next one behind them, are the first k + 1
(`FrontNext`), and all of it when there is no next one (`FrontWhole`); and what
keeps the frames of a link `Tidy`: taking one from its head (`TidyTail`,
`TidyOpen`, `TidyClose`) and appending blocks, OPEN or CLOSE (`TidyMore`,
`TidyNew`, `TidyDone`).

Not proved, only model-checked: `NothingForged` over a line that damages bytes;
`OwnData` with one fault among three or more programs; across restarts and skips,
where the window is one, `Delivered` and `ReportedIsFinal` of both links and
`AckedIsStored` of WS/Link (`hslink_resume`, `wslink_resume`). Out of the prover's
reach are the liveness properties (`AllReported`, `BothEnd`, `InterruptEndsBoth`,
`Completes`, `BothReturn`, `CleanCompletes` and the fairness in
`ImplementsTransfer` of the links), which need `ENABLED`.

## 7. Not modelled

The components whose status in `PROJECT.json` is `not_modelled`: the Rust core,
which no Python code uses; the name checks, which are pure functions on strings;
YMODEM, since its
`recv()` raises `TypeError` on every packet 0, which it splits, as bytes, by a
`str` (`ymodem.py:199`); nor are terminal handling, with the search for a ZMODEM
signature in `rz.py`, and the legacy sources. Within ZMODEM: the zlib streams,
binary headers, 32-bit CRCs and ZSKIP, which no peer built from this code sends,
positions beyond 32 bits, the 10 GB cap and errors of the file system. Within
XMODEM: callers whose `getc()` differs from the documented one. Within the framer: the second escape mask, which nothing selects, and the
overflow reset of a megabyte, which no read of at most 4096 bytes reaches; DOS
times, which are only the time stamp of a received file. Within HS/Link: chat, F and M packets, files
added while a session runs, `os.utime`, the integer widths of the packet
structures, names cut to 13 bytes, and file-system errors. Within WS/Link: chat,
`add_files()` during a session, damaged length fields, the frame limit of 1 MB,
widths, and errors of the file system or of a write.

## 8. Running

    tlc -config hslink_lossy.cfg MCHSLink
    tlc -config framer_noise.cfg MCFramer
    tlc -config wslink_lossy.cfg MCWSLink
    tlc -config zmodem_sessions.cfg MCZModem
    tlc -config xmodem_lossy.cfg MCXModem
    tlapm LinkPacketsProofs.tla
    tlapm HSLinkProofs.tla
    tlapm FramerProofs.tla
    tlapm WSLinkProofs.tla
    tlapm WSLinkDeliveryProofs.tla
    tlapm XModemProofs.tla
    tlapm XModemOrderProofs.tla
    tlapm ZModemProofs.tla
