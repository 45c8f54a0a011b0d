# 1MHz WiFi in TLA+

1MHz WiFi gives an Acorn Electron or BBC Micro a network, an FTP client and
tapes from a server, through a Raspberry Pi ("Pi1MHz") on the 1 MHz bus.  The
6502 sees a handful of registers and a 64K aperture (JIM); behind them a fast
interrupt (FIQ) handler, a cooperative foreground loop and the lwIP callbacks run
on the Pi.  An emulator backend in C implements the same device and services.
These modules model the protocols between those parties, check them with TLC on
small instances, and prove the central invariants with TLAPS.

Source paths below are relative to `src/`.

## 1. Inventory

| Component | Code | State | Operations |
|---|---|---|---|
| UEF stream service | `emulator/pi1mhz-mailbox/src/pi1mhz_net_backend.c` (commands 93, 86), `pi-side/pi1mhz/overlay/src/uef_repair.c` | stream buffer, length, cursor, published window, token, generation, guard | PROBE, BEGIN, APPEND, FINALIZE, REWIND, REFILL, REPUBLISH, CLOSE; the legacy whole-window form; guard on/off |
| UEF LOAD and the WiCFS reader | `rom-side/1mhz-wifi/src/uef.asm`, `rom-side/inherited/patches/wicfs-incremental-stream.patch`, `wicfs-guard-in-jim.patch` | open file, upload progress, generation, position in the window | upload loop, Escape, read error, cfsinit, getbyte, refill |
| Mailbox device | `emulator/pi1mhz-mailbox/src/pi1mhz_mailbox.c` | JIM memory, cursor, page, output registers, one posted and one active event | bus access, capture, callbacks, foreground service, time |
| Host network port | `host-tools/src/common/pi1mhz_net.asm` | cursor shadow, timeout flag | probe, select, write, begin, read, dispatch; paged access of `uef.asm` |
| FTP service | `pi-side/pi1mhz/overlay/src/ftp_service.c` | session, operation, ring, reply buffer, two pcbs, request flags | command (FIQ), poll, lwIP callbacks, deadline |
| FTP command | `rom-side/1mhz-wifi/src/ftp.asm` | transfer position | requests, Escape and CANCEL |
| URL and raw handles | `pi1mhz_net_backend.c` (live mode) | descriptor, open progress, response buffer, body count | URL_OPEN, URL_READ, URL_WRITE, URL_CLOSE, raw OPEN and CONNECT |
| ElkWiFi control, WiFi profile | `pi1mhz_net_backend.c` (`do_elkwifi_control`, `wifi_*`) | radio fields, two deadlines, credentials; the profile file | STATUS and other queries, radio on, JOIN, LEAVE, OFF, timed update before each command, save and load |
| Media service and catalogue | `pi-side/pi1mhz/overlay/src/media_service_core.c`, `media_catalogue.c` | session (container, entries, cursors); a static extraction buffer | bind, OPEN, CAT, INFO, READ, CLOSE |
| SSH | `pi1mhz_wolfssh.c`, `do_secure`, `host-tools/src/ssh.asm` | provider stage, socket, wolfSSH objects, secrets, known-hosts file; the program | OPEN, PASSWORD, READ, WRITE, CLOSE; host key check; reset of the host |
| BeebSCSI | `emulator/pi1mhz-mailbox/integrations/elkulator/beebscsi_elkulator.c` | bus phase, counters, buffer, sense, image, interrupt latch | register reads and writes, select, arm, load image, reset |
| AP5 Tube | `.../elkulator/tube/ap5_tube.c` | ULA registers and flags, pins, selection latch, clock | host and parasite accesses, control writes, catch-up, reset |
| Emulator FTP | `pi1mhz_ftp.c` | control and data descriptors, transfer mode | the FTP commands, blocking |
| Emulator glue | `.../elkulator/pi1mhz_elkulator.c` | trace buffers | forwards bus cycles |
| NetTools | `host-tools/src/*.asm` | screen and keyboard | telnet, ssh, sftp, menu |

How they interact.  The 6502 calls the device by bus cycles; a cycle posts an
event into a one-place slot, the FIQ captures it and its callback changes the
registers.  A byte written to the command register starts a service; the
foreground loop answers by putting a result in the register and in JIM.
Everything else (UEF, FTP, URL, SSH) is a service command over that port, with
its arguments and data in JIM.  The FTP service splits its work: the command
handler runs in the FIQ and only sets flags, the poll runs in the foreground and
can be interrupted by it, and lwIP calls back between polls.

What is hard.

* The slot holds one event and registers are stale until a callback ran: the
  6502 has only counted delays and read-back to know when it may go on.
* Replies get lost, so requests are repeated; APPEND and REFILL change state and
  must recognise a repetition.
* The window the 6502 reads changes its shape when the filing-vector guard is
  published, in the middle of a tape.
* The FIQ interrupts the poll between two statements, DNS answers and errors come
  late, buffers fill, connections are freed by lwIP itself.
* Opens are dispatched repeatedly, connect in the background, and the client may
  give up, or be reset, at any point of it.
* Files outlive the process: the WiFi profile is rewritten in place, the known
  hosts through a temporary file, and the process may die in either.
* Two processors, two buffers or two walks over the same data have to keep telling
  the same story: the flags of the Tube, the SCSI buffer and the image, the media
  listing and its extraction.

What makes each component correct: the cursor, the window and the aperture agree
and no tape byte is skipped or repeated (UEF); port routines act as if memory
were plain (device and port); bytes and replies come in order, connections have
an owner, every request ends (FTP); the right peer, the whole body, no lost
descriptor (handles); a file read in pieces is the file (media); a restart joins
what was joined (WiFi); nothing is left open and no key is replaced (SSH); sectors
are exact and the interrupt is seen once (SCSI); eight bounded ordered channels
(Tube).  `PROJECT.json` lists the individual hazards by line.

## 2. Modules

| Module | Role |
|---|---|
| `UefStream` | the Pi side of the UEF tape |
| `UefTape` | abstract: a cassette that is inserted, played, rewound and may fault |
| `UefSession` | composes `UefStream` with the host program over a lossy mailbox; implements `UefTape` |
| `Mailbox` | the device |
| `NetPort` | the 6502's port routines on `Mailbox` |
| `FtpService` | poll, FIQ, lwIP callbacks and host of the FTP client |
| `NetHandles` | one URL or raw handle of the live backend, its client and the network |
| `MediaCatalogue` | the container decoder: what a UEF tape or a DFS disc holds |
| `MediaService` | the media session over `MediaCatalogue` |
| `BeebScsi` | the SCSI host adapter, its device and its host |
| `TubeChannels` | abstract: eight bounded channels that a reset empties |
| `Ap5Tube` | the Tube ULA between two processors; implements `TubeChannels` |
| `WifiControl` | WiFi commands and the profile file |
| `SecureSession` | the shared SSH provider, the known hosts and the SSH program |
| `Backend` | composes the last two in a process that may end at any moment |
| `UefProofs`, `NetPortProofs`, `FtpProofs`, `HandlesProofs`, `MediaProofs`, `ScsiProofs`, `TubeProofs`, `BackendProofs` | theorems |
| `MC*` | constants for TLC |

### UefStream

`buf` is the C buffer itself, so a short stream leaves the tail of a longer one
behind.  One action per operation of the IUEF header; `token` and `generation`
wrap as the 32-bit fields do (`TokenMod`, `GenMod`), and `Refill` accepts the
generations the code accepts, the wildcard included.  `uef_stream_publish` is the
single place where a window is cut, as in the code; `Count` keeps its unsigned
subtraction (a cursor past the end yields the limit, not zero).  The aperture
`jim` is the bytes as laid out, the shape they are laid out in, and the length
trailer; `ForeignUse` lets another filing system overwrite it.  Inflating and the
ZIP checks are the constant `Decode` (which outcome an image has); a CRC is
taken to tell windows of one length apart.  The FILEV repair rewrites a stamp to
a scratch address inside the stream; the patterns it searches are one byte here.

### UefSession and UefTape

The host's place in `uef.asm` and in the patched reader is `hpc`.  The service
driver between the ROM and the Pi is not in the repository: `Ask`, `Retry` and
`Lose` model it from its use (a request is repeated at most `MaxTries` times with
the same generation) and are marked external in the map.  `CfsInit`, `GetByte`
and the refill actions follow `cfsinit`, `getbyte` and `wicfs_refill_if_available`.
The shipped `getbyte` takes `PageRun` bytes (151) of each page and then steps to the
next (`ReaderCell`), whatever the Pi has laid there; the Pi lays `PageRun` bytes a page
with a guard and whole pages without one (`WindowCell`).  `PublishGuard` may be left
out (a Tube is active) or lost, and nothing repeats it (`Retries`).  The refinement
mapping to `UefTape` takes the tape from the stream in the Pi and the output from the
bytes given to the parser while the guard is published, and calls an early end a fault;
without the guard the cassette is stopped, so that nothing is claimed of its bytes.

### Mailbox and NetPort

Time is counted in ticks.  A posted event is captured after `CaptureDelay`, its
callback runs after `CallbackDelay` or `PageDelay`, a service is answered after
`ServiceDelay`, longer if `Stalls`.  A new bus event replaces one not yet captured
(`bus_access`).  A routine of `NetPort` is the sequence of bus accesses it makes,
each with the least delay the code spends before the next one; interrupts may
lengthen it.  Read-back loops (`net_wait_cursor`), the dispatch poll and their
timeouts are actions.  `meant` and `got.due` hold what a memory without delays
would contain and return.  Between routines, `ForeignUse` moves cursor and page
and `ForeignCommand` runs another command, as other ROMs do.  Registers are in
base `Radix` in place of 256.

### FtpService

The struct `ftp` is one record.  `ftp_service_poll` is split where the FIQ may
come between (`ppc`): processing, clearing `request_pending`, publishing the
status.  Each operation state of `ftp_exec_poll` is an action, with lwIP refusing a
write where the code handles it, as often as it likes; `refusals` flips each time
`ftp_write_poll` is refused, so that a refusal is a step that can be seen.  The deadline
is armed and may expire at any time after.  Every callback has its error branch
(`ControlReceiveError`, `DataReceiveError`, a connect that fails), and the data
connection may end or break at any point of the file.  A reply is its code and the number of the command it
answers.  The server answers when it likes, closes, fails or sends data in
segments; the ring refuses what does not fit.

### NetHandles

Non-blocking sockets: connection, failure, arrival of each byte and closing are
actions of the network, and `recv` returns any prefix.  `live_open` is dispatched
until it is answered.  A header ends somewhere inside what arrived, and its
remainder is handed out before the socket is read.  `GiveUp` and `HostReset` are
the client's ways out; the latter leaves the handle as it is, and the next
program inherits it.

### MediaCatalogue and MediaService

The decoder is a set of operators: `media_catalogue` and `media_extract` are two
separate walks in the code and stay so here, each with its own way of grouping
blocks, skipping damage and stopping at its limits.  An image is its chunks and
blocks, or a disc's bytes and directory; what makes a block unreadable is its
`form`.  In `MediaService` the session and the static stream are separate, as in
the C file: `media_service_open` resets one and not the other.  `taken` is the
host's account (bytes of the file it reads, lines listed).  `tidy` says that the
two known ways of disturbing a half-read file (section 5) have not happened since
the last CLOSE; `ReadExact` and `EofWhole` are stated for that case, and switching
files freely is part of it.  The core has no caller in the repository
(`media_service_core.h:17-20`); the model lets a dispatcher call it in any order.

### BeebScsi

The host puts a command, its data and its messages through one register; every
byte is a step, so that resets, selections and the arming of the interrupt fall
between any two.  File operations fail where the code checks them.  A written
byte is its number in the command and an image byte its place, so that contents
show where a byte came from.  Counters are unsigned and wrap at `Word`.

### Ap5Tube and TubeChannels

`ula` is the C struct: flags are kept per side, as in the code.  An access of
either processor, a control write and a reset are actions, and each catches the
clock up first.  The refinement mapping reads the queue of a channel out of ring,
pair or latch; a register that reads empty is no receive.  A program writes a
single latch only when its flag shows space (`SpaceShown`); ring and pairs drop what
does not fit and may be written at any time.  `FlagsAgree` leaves register 3 out,
whose flags do not agree (section 5).

### WifiControl, SecureSession, Backend

`wifi` holds the fields of the backend with the deadlines as time left; `Updated`
is `wifi_update`, which every command runs first.  `Saves` has every outcome of
`wifi_profile_save` with the file it leaves, torn ones included.  `story` is
history for the properties.  `provider` is `struct pi1mhz_wolfssh`;
`pi1mhz_wolfssh_open` has one operator per stage and returns any of the results
that wolfSSH and the sockets leave possible.  `known` is the file of known hosts: the
first key of each server, which is the one compared, and all its keys.
`check_known_host` may fail to open or to read the file, and `write_known_host` may find
it unreadable and replace it by one line; `misread` is history and says that such a
failure has changed an outcome.  The program follows `ssh.asm` between
its dispatches.  `Restart` ends the process, also in the middle of a save, and
creates a new one that sees the files only.

## 3. Runs

| Run | Checks | Shows |
|---|---|---|
| `MCUefStream` | `InStep`, `WindowIsStream`, `GuardKeepsBytes` | for any order of stream requests with any token and generation, cursor, window and aperture agree and a guard change keeps the bytes |
| `MCUefLegacy` | `OnlyUefOffered` | packed images of each outcome and the legacy form: what is offered starts as a UEF |
| `MCUefSession` | `UploadExact`, `EofUnlessLost`, `SessionEnds`, `IsATape` | with more losses than retries, the upload is exact (but for a container refused half inflated), everything ends, and with the guard the whole implements a cassette |
| `MCNetPort` | `BusSettled`, `PortExact`, `ReadExact`, `AnswerFresh` | with the code's delays the port is plain memory and results are those of the command just sent |
| `MCNetSlow` | `SlotFree`, `RoutineEnds` | with slow callbacks and a stalling foreground no write is lost and each routine returns |
| `MCFtpService` | `SocketsOwned`, `DownloadInOrder`, `ReplyInStep`, `RequestEnds` | connections have owners, data and replies are in order, each request ends although the network promises nothing, unless lwIP refuses its writes for ever |
| `MCFtpCancelRace` (violated) | `AbortOnlyOwn` | a cancellation racing the end of its request aborts the next one |
| `MCNetHandles` | `NoLeak`, `RightPeer`, `BodyInOrder`, `EofWhole` | opens, retries, failures, closes and resets |
| `MCMediaService` | `ReadExact`, `EofWhole`, `ListComplete`, `CatalogueTrue` | any order of media requests over sound and damaged containers |
| `MCScsi` | `ReadExact`, `WriteExact`, `StatusTrue`, `IrqLatched`, `CommandEnds` | every command with failing files, resets and arming at any byte |
| `MCTube` | `FlagsAgree`, `ClockExact`, `PromiseKept` | two processors, control writes and resets; the board implements `TubeChannels` |
| `MCBackend` | `JoinedIsStored`, `AssociationFresh`, `SessionOwned`, `KeyOnList`, `KnownKept` | commands, failed saves, unreadable lists, resets, changed keys and restarts |

Bounds and why they are enough.

* UEF: a buffer of two to seven bytes with windows of two (flat) and one
  (guarded) gives streams of several windows in both shapes, a full buffer, and
  window ends that do and do not fall on the stream's end.  `GenMod = 4` makes the
  generation wrap in `MCUefStream`; `UefSession` uses 80, so that the driver never
  meets the wildcard.  A page of three bytes of which two are read makes the two
  layouts differ within a window, and one of the files is a container that is refused
  after part of it was inflated.  Three losses against one retry let one request fail for
  good and another be repeated; two loads and two rewinds let a second tape meet
  the remains of the first.
* Port: base 2 gives an eight-cell services area in which the cursor carries and
  wraps; three routines with foreign use between them; capture 1, callback 1 or 2
  and page 2 ticks against a settle of 3 keep the order of the code's delays.
  `MCNetSlow` makes the callback as slow as the settle and one poll the limit, so
  that the timeouts happen.
* FTP: three requests reach OPEN, a transfer and a READ or what follows it; a file
  of three bytes wraps the ring of two; any number of refusals at any sends (EPSV is
  only reached when the first send is refused).  Of the kinds of command LIST is left
  out, which the code treats as RETR.
* Handles: three opens to two servers; a header that fits the buffer with body
  behind it, and one that does not fit.
* Media: replies hold at most two bytes of a file and a listing line may not fit;
  of the containers one is damaged in each way the decoder tells apart, one only by a
  chunk that turns bad and one only by its cut end (so that each is the only issue), one has
  more files than entries and a file longer than the buffer, one is a disc with a
  file past its end, one is nothing.
* SCSI: two commands, so that the second meets the sense and the latch the first
  left; sectors of two bytes, an image with a short last sector, transfers of up
  to `WholeCount` blocks that cross its end, a `Word` small enough for a count to
  wrap into it.
* Tube: four units of work among sends, control writes, advances and resets; a
  ring of two and a counter of four wrap.  Registers 2 and 4 to the parasite are
  the same code as register 1 and register 4 back the same as register 2, so that
  the instance uses one of each.
* Backend: one time unit per delay, two networks and a password too short for any
  mode, nine characters so that a torn write may leave a valid shorter password;
  two servers and keys, one change of key.  WiFi and SSH share only the process,
  so that a behaviour uses one of them (`Workloads`); the proofs have no such bound.

Deadlock is not checked where the bounds on requests, losses or opens end a
behaviour.  In the port, SCSI, Tube and backend runs it is checked: there time, the
host or the process always can go on.

Fairness.  `UefSession`: the Pi's loop and the driver's retry, and the steps of
the 6502 program; losing messages and the user's actions are free.  `FtpService`:
the poll (called from the main loop), the timer, and the host looking at its
status byte; no fairness for server, DNS or lwIP.  `BeebScsi`: a host that has begun
a command goes on serving the bus, which is what `CommandEnds` is about; it may still
reset or select again.  `NetPort`: the 6502 runs, due
callbacks run, time passes.  Each is weak fairness of something that is executed
unconditionally over and over.

## 4. Theorems

`UefProofs`, for every capacity, window size, token and generation range and
every `Decode` meeting the assumptions; first the Pi alone, under any host (all but
`UefOffered` for `IncrementalSpec`):

* `IncrementalTypeOK`: `[]TypeOK`;
* `CursorInStep`: `[]InStep`;
* `WindowFaithful`: `[]WindowIsStream`;
* `GuardLaysSame`: `GuardKeepsBytes`, an action property;
* `UefOffered`: `Spec => []OnlyUefOffered`, with the legacy form.

`InStep` and `WindowIsStream` are not inductive alone.  The inductive invariant is `TypeOK`,
`InStep`, `WindowIsStream` and `UploadOrStream` together: a guard change lays the
window out from the published offset, which is right only if the cursor stands
behind that window; and APPEND writes into the buffer, which leaves a published
window true only because no stream is ready during an upload.  The lemmas on
`uef_stream_publish` and `uef_stream_republish` carry the argument; each
operation is one step.  `GuardLaysSame` needs two facts more: an empty window is
published only at the end of the stream (`Whole`), and without the legacy form the
aperture never has the legacy shape (`Modern`).  `UefOffered` needs only
`UploadOrStream` beside it (`OfferInv`): the decoder alone decides what becomes a
stream, and an upload in progress is not one.  The proofs assume
`ConstantsAssumption` and `DecodeAssumption` of `UefStream` and nothing else.  The
legacy form is outside `IncrementalSpec` because it does break the other invariants
(section 5).

Then the session, for every set of files and every number of losses, repetitions,
loads and rewinds:

* `UploadIsExact`: `SessionSpec => []UploadExact`;
* `EofIsTheEnd`: `SessionSpec => []EofUnlessLost`;
* `SessionIsATape`: `SessionSpec => IsATape`, the refinement of `UefTape`.

They have one hypothesis, `Unwrapped`: the generation does not come round within a
behaviour; each upload, rewind and repeated rewind costs at most `Capacity + 1` of
them, which with the 2^24 bytes and 2^32 generations of the code leaves room for some
250 rewinds and losses even if every window were one byte.  Beyond it a refill could
name the wildcard.  The instance of `MCUefSession` satisfies it.  What the code does not
promise is in the properties: `UploadExact` excepts a container that was refused after
inflating and whose refusal was lost (`RefusedLate`), and `EofUnlessLost` and `IsATape`
speak of the bytes only while the guard is published (section 5).

The inductive invariant is `SessionInv`.  `LinkOK` ties the request to the host's place
and the repetitions to the losses they need.  `Uploads` says of each place of the upload
that what was asked has been done or has not: an APPEND whose reply was lost is in the
stream once, and is the last one the Pi remembers.  `Reads` says that the tape is in the
Pi, that the parser has its first bytes, that a refill in the air asks for the window
behind them (`Due`), and that the generations spent are paid for (`Paid`).  What the Pi
does for a request is one lemma each (`AppendServed`, `FinalizeServed`, `RewindServed`,
`RefillServed`); that the stream's own invariants go on holding follows from the
first part, since every step of the session is one the stream allows to any host.

`NetPortProofs`, for every base, memory, latency and program:

* `SettledBus`: under `Unhurried` (each counted delay is at least capture plus
  callback), `[]BusSettled`: no write or data read is in flight when the 6502 makes
  an access;
* `SlotAlwaysFree`: under `Brisk` (no latency alone is longer than a counted delay),
  `[]SlotFree`: none is overwritten;
* under `Unhurried` and `Responsive`: `PortIsExact`, `[]PortExact` (between routines
  the memory is what program order makes of it); `ReadIsExact`, `[]ReadExact`;
  `AnswerIsFresh`, `[]AnswerFresh`; and `CursorArrives`, `[]NoTimeout` (the bounded
  waits of `net_wait_cursor` and `net_probe` never run out).

`Responsive` says that the Pi's loop is not held up and that a service answers within
the 300 frames `net_dispatch` polls for (pi1mhz_net.asm:304-308).  Beyond that the
routine returns `NET_LOCAL_TIMEOUT` while the command is still running, and the four
theorems need not hold; that case is the run `MCNetSlow`.  The constants of `MCNetPort`
satisfy both hypotheses.

The first two rest on `TypeHost`: every access a routine still has to make is followed
by the settle or, for the command, by the way to the first poll (`Steady`).  The
inductive invariant of the first, `Paced`, says that whatever is posted or active will
be done within the time the 6502 still waits; that of the second, `Kept`, that what is
posted will be captured by then although a callback may still run.

The other four share `NetInv`.  It is not about the device but about `Eff`, the device
as it will be once the access in flight has had its effect: `Paced` leaves room for one
such access only, so a capture or a callback changes `Device` and leaves `Eff` alone,
and only the 6502's accesses and the service's answer move it.  `Stage(Eff)` then says
how far each routine is: which accesses are still to come, which digits of the cursor
are already right, and that the store still to be made is all that the memory lacks of
`meant`.  For `net_dispatch` it holds the time the service still needs under the polls
still to come (`left <= polls * Frame + wait`), which is why no poll runs out.  The
lemmas on digits (`SpeltDigits`, `WithDigitSpelt`, `WithDigitKeeps`, `SameDigits`) say that
three digit writes in any base compose the cursor and that one write disturbs no other
digit.  `MailboxAssumption` bounds the constants and says that the busy value is not
zero (`PI1MHZ_NET_BUSY` is 0x80), without which a cleared register would read as busy.

`FtpProofs`, for every size of ring, text buffer, segment and READ, any number of
hosts, requests, refusals and errors:

* `FtpSocketsOwned`: `[]SocketsOwned`;
* `FtpReplyInStep`: `[]ReplyInStep`;
* `FtpDownloadInOrder`: `[]DownloadInOrder`.

They share one inductive invariant, `FtpInv`.  `Basic` is about the struct: the pcbs
are those in its slots, and the ring holds the last bytes that came over the data
connection.  `Owed` says for each operation what a clean control connection still has
to say: a command on the wire, a reply not read, a transfer to be completed.  `Flow`
ties request, poll and host together across the places where the FIQ may come
between, and `HostHas` says that what left the ring is with the host or in the
scratch page.

`HandlesProofs`, for every URL, body, header, buffer and read size:

* `HandleNeverLeaks`: `[]NoLeak`; `HandleReachesPeer`: `[]RightPeer`;
* `HandleReadsBody`: `[]BodyInOrder`; `HandleEndsWhole`: `[]EofWhole`.

The invariant is about handle and client together (`Joint`).  While the client alone
has used the handle (`Own`), `Account` says where each byte taken from the socket is:
in the header that is being collected, in the remainder behind it, or with the client.

`ScsiProofs`, for every size of sector, image, word and command:

* `ScsiReadsImage`: `[]ReadExact`; `ScsiWritesSectors`: `[]WriteExact`;
* `ScsiStatusTrue`: `[]StatusTrue`; `ScsiIrqLatched`: `IrqLatched`, an action property.

`Good` relates the device to the command it serves: while one is read, the buffer is
the sector the counters say, and while one is written, the image differs from what it
was in the sectors that are done and nowhere else.  The latch has an invariant of its
own (`IrqInv`): if it is armed and REQ is up, it is set.

`TubeProofs`, for every ring size, counter range and control write:

* `FlagsAlwaysAgree`: `[]FlagsAgree`;
* `UlaKeepsPromise`: `PromiseKept`, the refinement of `TubeChannels`;
* `ClockAlwaysExact`: `[]ClockExact`.

`Sound` says that the indices of the ring are as far apart as its count, that pairs
are never over-full, and that the flags agree; the latter is what lets a program that
looked at its flag (`SpaceShown`) find the latch empty.  One lemma per access gives its
`Effect`: one channel changes, in order, and the others do not.  `ClockInv` adds to
`ClockExact` what is owed for the cycles since the last look.

`MediaProofs`, for every set of containers, reply size and request:

* `MediaReads`: `[]ReadExact`; `MediaEnds`: `[]EofWhole`; both as long as `tidy` holds,
  since a failed extraction or a new container in the middle of a file does break them
  (section 5);
* `MediaLists`: `[]ListComplete`;
* `MediaTypes`: `[]TypeOK`.

The decoder enters only through `ImagesAssumption` (entries are a bounded sequence,
an extracted file a sequence), which TLC evaluates on the instance.  The inductive
invariant adds that what the host holds is a prefix of the file in the static
stream (`Tracks`), that while the host is `tidy` a stream is live exactly when the
host is in the middle of a file (`StreamLive`), and that the listing cursor is the
number of lines the host has (`ListTracks`).

`BackendProofs`, for all requests, delays, servers and keys, and for behaviours that
mix WiFi commands, SSH sessions and restarts (any `Workloads`):

* `NetworkStored`: `[]JoinedIsStored`; `LinkFresh`: `[]AssociationFresh`;
* `SessionsOwned`: `[]SessionOwned`; `ShellKeyListed`: `[]KeyOnList`;
* `KeysKept`: `KnownKept`, an action property, with the one step it excepts: a list
  replaced by one line because it could not be opened (section 5);
* `BackendTypes`: `[]TypeOK`.

For WiFi the invariant adds that the time since the join and the time left to the
DHCP deadline add up to the whole delay (`DeadlineKept`; without it a deadline that
is zero says nothing about the time that passed), that a network in memory is the
one in the file (`MemoryFiled`), that a file names a network (`FileNamed`), and that
what is joined is what is in memory (`JoinedKnown`).  For SSH it says of the provider
and the list together that what is held fits the stage and that an accepted key is
on the list (`Sound`), that the first key of a server is one of its keys (`Listing`),
and that a clean exit left nothing (`Left`).  Each stage
of `pi1mhz_wolfssh_open` has a lemma saying that any answer it may give is an `Answer`;
`Open` follows from those.  The assumptions are `WifiAssumption` and `SecureAssumption`.

The handle, FTP, SCSI and Tube proofs assume `HandlesAssumption`, `FtpAssumption`,
`ScsiAssumption` and `TubeAssumption`, which bound the constants as the code's
`#define`s do, and that the value for "no connection" is not a connection
(`NoneAssumption` of `NetHandles` and `FtpService`).

Only model-checked: liveness and everything under fairness, which is not in reach
of the prover (`SessionEnds`, `RoutineEnds`, `RequestEnds`, `CommandEnds`); and
`CatalogueTrue`, which compares two recursive walks over the data and would need
induction on them.
What recursive or inductive computations yield (inflating, the walks of the decoder,
the chunk walk of the repair) is out of reach as well.

## 5. Disagreements with the documentation

With a run (quoted in `PROJECT.json`): `AbortOnlyOwn`.

Seen while modelling, without a run of their own; line numbers are those of the
file named.

UEF and FTP:

* A refill that fails for good is reported to the parser as the end of the tape
  (`wicfs-incremental-stream.patch:46` and `:53`, "Carry set means genuine end of
  stream"); `EofUnlessLost` states what does hold.
* A read error during an upload returns without CLOSE and leaves the upload open
  on the Pi (`uef.asm:166`, against `docs/commands.md:376-377`).
* A transfer falls through to the send of a plain command: RETR or STOR goes out at
  once and its reply ends the request; EPSV is reached only if that send is refused
  (`ftp_service.c:645-650`, against `docs/commands.md:102-103`).
* A write that `altcp_write` refuses is tried again without a deadline
  (`ftp_service.c:775-776`), so that a request may stay pending for ever; against
  `pi-side/pi1mhz/TECHNICAL.md:60-61`, "Every asynchronous operation has a deadline or a
  lower-layer bounded state machine".  `RequestEnds` excepts it (`RefusedForEver`).
* After REFILL and a legacy import, a guard change lays out the window at the
  published offset of the earlier stream (`pi1mhz_net_backend.c:883`):
  `GuardKeepsBytes`, `InStep` and `WindowIsStream` hold for `IncrementalSpec` and
  not for `Spec`.
* `guard_stamp` also covers the page with the length trailer, and only a ready
  stream has it written again (`:807`, against the comment at `:110`).
* A FINALIZE refused after inflating leaves the inflated bytes and the active
  upload; a second FINALIZE, which the driver sends when the refusal was lost, accepts
  them as a raw UEF (`:1026-1028`).  `docs/commands.md:337-341` says that deflate errors
  and CRC mismatches are "rejected before WiCFS is installed".  `UploadExact` excepts it.
* Without a guard the Pi lays whole pages (`:838-848`), and `getbyte` steps to the next
  page after 151 bytes all the same (`wicfs-guard-in-jim.patch:114-123`): a machine with
  an active Tube, or one whose guard request was lost, reads the first 151 bytes of each
  page and then, to make up the number, bytes behind the window.  The comment at
  `:858-860` knows the danger ("the host would read it misaligned"); the test of
  `getbyte` (`test_wicfs_runtime_contract.py:827-832`) always has the guard layout, and
  `docs/commands.md:382-384` has programs loaded with a Tube fitted.
* An inflate that fills the buffer reports INVALID where the comment near `:639`
  expects TOO LARGE (`OverflowText`).
* A DNS answer to a cancelled OPEN is taken by the next session
  (`ftp_service.c:396`).
* A READ that has to wait overwrites its own maximum with zero and ends the
  download early (`ftp_service.c:740`).
* After a host reset, TCP opens continue the connection of the program before.

Media:

* `media_service_open` does not clear `stream_valid`: bound in the middle of a read,
  a new container's READ continues with the bytes of the old one
  (`media_service_core.c:134`).
* A READ that is refused for another file has already set `stream_length` to zero
  while the stream stays valid, so that the half-read file ends early.
* `media_catalogue.h:16-18` promises a non-zero count of issues for a malformed
  container; a data chunk whose first bytes are no block is passed over uncounted
  (`media_catalogue.c:154`).
* The OPEN reply holds the number of files in one byte (`media_service_core.c:46`).

SCSI and Tube:

* MODE SELECT with a length of zero wraps the count of bytes to take
  (`beebscsi_elkulator.c:315` and `:385`, against `TECHNICAL.md:25-26`): 2^32 of them,
  which is `Word` in the run, so that the command ends there; a geometry
  file longer than 33 bytes is cut and accepted (`:167`, against `TECHNICAL.md:34`,
  "Files from 22 through 33 bytes are accepted").
* VERIFY(10) takes its sector from the field of the six-byte form; an unknown
  operation fails without setting the sense.
* Register 3 of the Tube: after a reset the host's flags show data where there is
  none, and a transfer in one direction sets and clears both flags of a side
  (`ap5_tube.c:130`, `:180`, `:337`).  The parasite restarts when bits other than P
  are cleared while P is set, not when P is (`:381`); T is compared with a bit that
  is never stored (`:373`).

WiFi and SSH:

* JOIN is not guarded by the presence of a radio, as the other commands are.
* A failed save leaves the new network in memory beside the association with the
  old one; a refused JOIN has already replaced the stored security mode.
* A torn profile whose password was cut at eight or more characters loads.
* After a reset of the host, SSH_OPEN for another server answers OK from the
  session that is still up (`pi1mhz_wolfssh.c:429`, against
  `host-tools/docs/secure_service_abi.md:49-52`, where it "starts or polls" the
  connection asked for).  No property is stated about it.
* `write_known_host` takes any list it cannot open for one that is not there and
  renames a file of one line over it: the keys of all other servers are lost
  (`pi1mhz_wolfssh.c:171-184`).  `KnownKept` allows this step and no other.
* `check_known_host` reports a list it cannot open as a changed key, and one it cannot
  read to the end as an unknown key (`:198-209`): with bit 0 a changed key is then
  accepted and a second line written, against `secure_service_abi.md:67`, "A changed
  key fails closed and is never overridden by bit 0".
* The key that is written after the user's yes is the one presented on the retry, not
  the one whose fingerprint was shown (against `secure_service_abi.md:64-65`, "the exact
  key is appended").

## 6. Not modelled

In the modelled components: the mailbox's output enables, mirror range,
host-clock profiles and zero-latency test mode; the fixture mode of the backend
(canned bytes, the SFTP commands among them); the optional tail trim; the legacy
upload loop, launch selection and the CFS block parser of the ROM; names, local
files and screen output of the FTP command; text of replies; the network scan (LAP)
and its field options, which only format text; terminal bytes of SSH and what the
cryptography does; the patch of a RAM byte at a cold boot of the parasite; in
`NetHandles` a host with several addresses (the code tries the next when one fails at
once, which is one attempt here) and a request too long for its buffer.  The FILEV
repair is the effect it has on a stream, not its walk over chunks and its CRC (section 7).

Wholly: the emulator's FTP client, a blocking counterpart of `FtpService` for use
without a Pi; the emulator glue, which forwards bus cycles and traces; NetTools
screens and the SFTP loops; vrEmu6502 (vendored); patches against a ROM or an
emulator that is not in the repository; build and analysis scripts.

## 7. Plan

Done, in order of importance: `UefStream`, `UefTape` and `UefSession` (the tape, end to
end, with its refinement); `Mailbox` and `NetPort` (the port everything goes through);
`FtpService`; `NetHandles`; `WifiControl`, `SecureSession` and `Backend`; `MediaCatalogue` and
`MediaService`; `BeebScsi`; `Ap5Tube` and `TubeChannels`.

Left:

1. `UefRepair`: the chunk walk and CRC repair as an algorithm against a reference.
2. `WicfsVectors`: installing, retiring and resetting the filing vectors, with the
   record kept in JIM and a BREAK between any two steps (the inherited patches
   `wicfs-transactional-state`, `wicfs-stream-finish`, `wicfs-run-owner`).
3. `EmuFtp`: the blocking FTP client with its descriptors, short sends and time-outs.
4. More of the ROM and tools: legacy upload, SFTP loops; the device's enables,
   mirror and clock profiles.

Theorems left: `CatalogueTrue` is the one invariant of a run that no theorem states
(section 4 says why); every new module above brings its own.
