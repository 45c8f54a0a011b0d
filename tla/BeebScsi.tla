------------------------------ MODULE BeebScsi ------------------------------
(***************************************************************************)
(* The SCSI host adapter of integrations/elkulator/beebscsi_elkulator.c: a  *)
(* host moves a command, its data and its status byte by byte through one   *)
(* register; the device serves them from an image file.                     *)
(*                                                                         *)
(* A command's bytes are its operation, its sector (three bytes taken as    *)
(* one) and its count, then padding.  The k-th data byte a host writes in a *)
(* command is the number k, and byte p of the initial image is -p - 1: where*)
(* a byte ends up shows where it came from.  The echo of the last value     *)
(* written, trace output and the no-op registers are left out.              *)
(***************************************************************************)
EXTENDS Integers, Sequences

CONSTANTS
  SectorSize,    \* 256: bytes of a sector, and of the buffer
  ImageSize,     \* bytes of the image; its last sector may be short
  Short, Long,   \* bytes of a command, and of one with operation 20 to 3F
  WholeCount,    \* 256: blocks of a count of zero
  SenseSize,     \* 4: bytes of a sense or translate answer
  GeometrySize,  \* 33: bytes of a geometry
  ModeSize,      \* 22: bytes of a MODE SENSE answer unless asked otherwise
  Track,         \* 33 * 255: sectors of a cylinder of a derived geometry
  Word,          \* 2^32: an unsigned wraps here
  Operations, Sectors, Counts,    \* what a host puts in its commands
  Sidecars,      \* what reading a geometry file may come to
  MaxCommands    \* bound: commands a host begins

ASSUME ScsiAssumption ==
  /\ {ImageSize, Short, Long, WholeCount, SenseSize, GeometrySize, ModeSize, Track}
       \subseteq Nat \ {0}
  /\ SectorSize \in Nat /\ SenseSize <= SectorSize /\ GeometrySize <= SectorSize
  /\ 1 < SenseSize /\ 1 < GeometrySize /\ ModeSize <= GeometrySize
  /\ Word \in Nat /\ SectorSize < Word /\ 2 < Short /\ Short <= Long /\ Long < Word
  /\ Sectors \subseteq Nat /\ Counts \subseteq 0..(WholeCount - 1) /\ WholeCount <= Word
  /\ Sidecars \subseteq {"none", "good", "short", "unreadable"} /\ MaxCommands \in Nat

VARIABLES
  scsi,   \* the static state of the device, and published_irq
  job     \* the number of commands begun, and the one being served: what the
          \* host asked, the data bytes it has moved, the last one it read, and
          \* the image as it found it

vars == <<scsi, job>>

Upto(k, n) == IF k < n THEN k ELSE n
Zeros == [i \in 1..SectorSize |-> 0]
NoCommand == [op |-> "none", sector |-> 0, count |-> 0]
NoJob == [begun |-> 0, op |-> "none", sector |-> 0, blocks |-> 0, moved |-> 0, read |-> 0,
          before |-> <<>>, torn |-> FALSE]

Init ==
  /\ scsi = [phase |-> "BUS_FREE", selected |-> FALSE, message_phase |-> FALSE,
             command_phase |-> FALSE, input_phase |-> FALSE, busy |-> FALSE,
             request |-> FALSE, irq_armed |-> FALSE, irq_pending |-> FALSE,
             published |-> FALSE, command |-> NoCommand, buffer |-> Zeros,
             geometry |-> <<>>, status |-> TRUE, blocks |-> 0, next_sector |-> 0,
             offset |-> 0, length |-> 0, sense_code |-> 0, sense_sector |-> 0,
             image |-> <<>>, writable |-> FALSE, error |-> FALSE,
             initialised |-> FALSE]
  /\ job = NoJob

-----------------------------------------------------------------------------
(* The bus lines.                                                           *)

Mounted(s) == s.image # <<>>

publish_irq(s) == [s EXCEPT !.published = Mounted(s) /\ s.irq_pending]

\* Mutant: an armed latch misses a rising REQ.
MissesRequest(s, active) == publish_irq([s EXCEPT !.request = active])

\* REQ sets the latch when it is armed, and never clears it.
set_request(s, active) ==
  publish_irq([s EXCEPT !.request = active,
                        !.irq_pending = @ \/ (s.irq_armed /\ active)])

\* The lines the host tells the phases by.
Lines(s, command, input, message) ==
  [s EXCEPT !.command_phase = command, !.input_phase = input, !.message_phase = message]

bus_free(s) ==
  [set_request([Lines(s, FALSE, FALSE, FALSE) EXCEPT !.selected = FALSE, !.busy = FALSE],
               FALSE) EXCEPT !.phase = "BUS_FREE"]

status_phase(s, good) ==
  [set_request([Lines(s, TRUE, TRUE, FALSE) EXCEPT !.phase = "STATUS"], TRUE)
     EXCEPT !.status = good]

read_phase(s, length) ==
  [set_request([Lines(s, FALSE, TRUE, FALSE) EXCEPT !.phase = "SCSI_READ"], TRUE)
     EXCEPT !.offset = 0, !.length = length, !.status = TRUE]

write_phase(s, length) ==
  set_request([Lines(s, FALSE, FALSE, FALSE) EXCEPT
                 !.phase = "SCSI_WRITE", !.offset = 0, !.length = length], TRUE)

-----------------------------------------------------------------------------
(* The image file.                                                          *)

\* The first access opens the image and reads or derives its geometry.  A .dsc
\* that is too short, or one named explicitly and missing, unmounts it again.
Cylinders == Upto(1 + ((ImageSize - 1) \div (SectorSize * Track)), 65535)
Derived == [i \in 1..GeometrySize |-> IF i = 1 THEN Cylinders
                                      ELSE IF i = 2 THEN 255 ELSE 0]

initialise(lun, writable, dsc) ==
  /\ ~scsi.initialised
  /\ LET start == [scsi EXCEPT !.initialised = TRUE, !.writable = writable]
         fresh == [i \in 1..ImageSize |-> -i]
     IN  scsi' = IF lun = "absent" \/ dsc \in {"short", "unreadable"} THEN start
                 ELSE bus_free([start EXCEPT !.image = fresh,
                                  !.geometry = IF dsc = "none" THEN Derived ELSE Zeros])
  /\ UNCHANGED job

\* A sector's bytes, the missing ones of a short last sector zero.
SectorBytes(image, sector) ==
  [i \in 1..SectorSize |-> IF sector * SectorSize + i \in DOMAIN image
                             THEN image[sector * SectorSize + i] ELSE 0]

\* What read_sector may leave: ok and the state.  The seek may fail, which leaves
\* the buffer alone; a read error marks the
\* stream for good, and a short sector of a marked stream counts as an error too.
read_sector(s, sector) ==
  LET whole == (sector + 1) * SectorSize <= ImageSize
      got   == [s EXCEPT !.buffer = SectorBytes(s.image, sector)]
  IN  IF sector * SectorSize >= ImageSize THEN {[ok |-> FALSE, s |-> s]}
      ELSE {[ok |-> FALSE, s |-> s], [ok |-> whole \/ ~s.error, s |-> got],
            [ok |-> FALSE, s |-> [s EXCEPT !.buffer = Zeros, !.error = TRUE]]}

\* Mutant: the buffer lands one sector further.
PutBeyond(image, sector, buffer, n) ==
  [p \in DOMAIN image |->
     IF p - sector * SectorSize \in 2..(n + 1) THEN buffer[p - sector * SectorSize - 1]
     ELSE image[p]]

\* The first n bytes of the buffer written at a sector.
Put(image, sector, buffer, n) ==
  [p \in DOMAIN image |->
     IF p - sector * SectorSize \in 1..n THEN buffer[p - sector * SectorSize]
     ELSE image[p]]

\* What write_sector may leave: it needs a whole sector; the seek may fail; a write
\* that fails may have reached the file in part.
write_sector(s, sector) ==
  LET Written(n) == [s EXCEPT !.image = Put(s.image, sector, s.buffer, n)]
  IN  IF ~s.writable \/ (sector + 1) * SectorSize > ImageSize
        THEN {[ok |-> FALSE, s |-> s]}
      ELSE {[ok |-> TRUE, s |-> Written(SectorSize)], [ok |-> FALSE, s |-> s]}
             \cup {[ok |-> FALSE, s |-> [Written(n) EXCEPT !.error = TRUE]] :
                     n \in 0..SectorSize}

-----------------------------------------------------------------------------
(* Commands.  Each operator is the set of states its function may leave.     *)

\* Mutant: a failure leaves the sense of an earlier one.
FailedQuiet(s, sector) == status_phase(s, FALSE)

Failed(s, sector) ==
  status_phase([s EXCEPT !.sense_code = 33, !.sense_sector = sector], FALSE)

Blocks(command) == IF command.count = 0 THEN WholeCount ELSE command.count
OrElse(count, default) == IF count = 0 THEN default ELSE count

Filled(s, values) ==
  [s EXCEPT !.buffer = [i \in 1..SectorSize |-> IF i \in DOMAIN values THEN values[i]
                                                ELSE s.buffer[i]]]

execute_command(s) ==
  LET sector == s.command.sector
      count  == s.command.count
      One    == [s EXCEPT !.blocks = 1]
  IN  CASE s.command.op = "test" -> {status_phase(s, Mounted(s))}
        [] s.command.op = "start" -> {status_phase(s, TRUE)}
        [] s.command.op = "sense" ->
             LET n     == Upto(OrElse(count, SenseSize), SectorSize)
                 clear == Filled(One, [i \in 1..n |-> 0])
             IN  {read_phase([Filled(clear, <<s.sense_code, s.sense_sector>>)
                                EXCEPT !.sense_code = 0, !.sense_sector = 0], n)}
        [] s.command.op = "translate" ->
             {read_phase(Filled(One, <<sector, 0>>), SenseSize)}
        [] s.command.op = "mode_sense" ->
             LET n == Upto(OrElse(count, ModeSize), GeometrySize)
             IN  {read_phase(Filled(One, SubSeq(s.geometry, 1, n)), n)}
        [] s.command.op = "mode_select" -> {write_phase(One, count)}
        [] s.command.op = "verify" ->
             {IF sector * SectorSize < ImageSize THEN status_phase(s, TRUE)
              ELSE Failed(s, sector)}
        [] s.command.op = "read" ->
             {IF r.ok THEN read_phase([r.s EXCEPT !.next_sector = sector + 1], SectorSize)
              ELSE Failed(r.s, sector) :
                r \in read_sector([s EXCEPT !.blocks = Blocks(s.command)], sector)}
        [] s.command.op = "write" ->
             {[write_phase([s EXCEPT !.blocks = Blocks(s.command),
                                     !.next_sector = sector], SectorSize)
                 EXCEPT !.status = TRUE]}
        [] OTHER -> {status_phase(s, FALSE)}

\* Another block of a transfer.
NextBlock(s) == set_request([s EXCEPT !.offset = 0, !.length = SectorSize], TRUE)

\* The operations of ten bytes, 0x20 to 0x3f: VERIFY, and others it does not know.
TenBytes == {"verify", "other10"}

CommandByte(s, value) ==
  CASE s.offset = 0 -> [s.command EXCEPT !.op = value]
    [] s.offset = 1 -> [s.command EXCEPT !.sector = value]
    [] s.offset = 2 -> [s.command EXCEPT !.count = value]
    [] OTHER -> s.command

\* One byte less to go; the counter is unsigned.
Counted(s) ==
  set_request([s EXCEPT !.offset = @ + 1, !.length = (@ - 1) % Word], FALSE)

\* The end of a block the host wrote.
BlockWritten(s) ==
  LET Then(t) == IF t.blocks = 1 THEN status_phase([t EXCEPT !.blocks = 0], TRUE)
                 ELSE NextBlock([t EXCEPT !.blocks = @ - 1])
  IN  IF s.command.op = "write"
        THEN {IF w.ok THEN Then([w.s EXCEPT !.next_sector = @ + 1])
              ELSE Failed(w.s, s.next_sector) : w \in write_sector(s, s.next_sector)}
        ELSE {Then(s)}

\* Mutant: the sector number is advanced before it is used.
BlockReadAhead(s) ==
  IF s.blocks = 1 THEN {status_phase([s EXCEPT !.blocks = 0], TRUE)}
  ELSE {IF r.ok THEN NextBlock(r.s) ELSE Failed(r.s, s.next_sector) :
          r \in read_sector([s EXCEPT !.blocks = @ - 1, !.next_sector = @ + 1],
                            s.next_sector + 1)}

\* The end of a block the host read.
BlockRead(s) ==
  IF s.blocks = 1 THEN {status_phase([s EXCEPT !.blocks = 0], TRUE)}
  ELSE {IF r.ok THEN NextBlock(r.s) ELSE Failed(r.s, s.next_sector) :
          r \in read_sector([s EXCEPT !.blocks = @ - 1, !.next_sector = @ + 1],
                            s.next_sector)}

\* A write to the data or the select register; the line is set first.
write_data(s, value) ==
  CASE s.phase = "BUS_FREE" ->
         {IF s.selected THEN [s EXCEPT !.busy = TRUE, !.phase = "SELECTION"] ELSE s}
    [] s.phase = "SELECTION" ->
         {IF s.selected THEN s
          ELSE [Lines(s, TRUE, FALSE, FALSE) EXCEPT !.phase = "COMMAND", !.offset = 0,
                                                    !.length = Short]}
    [] s.phase = "COMMAND" ->
         LET long == s.offset = 0 /\ value \in TenBytes
             t    == Counted([s EXCEPT !.command = CommandByte(s, value),
                                       !.length = IF long THEN Long ELSE @])
         IN  IF t.length = 0 THEN execute_command(t) ELSE {t}
    [] s.phase = "SCSI_WRITE" ->
         LET t == Counted([s EXCEPT !.buffer = IF s.offset < SectorSize
                                                 THEN [@ EXCEPT ![s.offset + 1] = value]
                                               ELSE @])
         IN  IF t.length = 0 THEN BlockWritten(t) ELSE {t}
    [] OTHER -> {bus_free(s)}

\* Mutant: the message byte does not end the connection.
ReadKeepsMessage(s) ==
  CASE s.phase = "STATUS" ->
         {set_request([set_request(s, FALSE) EXCEPT !.phase = "MESSAGE",
                                                    !.message_phase = TRUE], TRUE)}
    [] s.phase = "MESSAGE" -> {set_request(s, FALSE)}
    [] s.phase = "SCSI_READ" -> LET t == Counted(s)
                                IN  IF t.length = 0 THEN BlockRead(t) ELSE {t}
    [] OTHER -> {IF s.phase = "BUS_FREE" THEN s ELSE bus_free(s)}

\* A read of the data register.
read_data(s) ==
  CASE s.phase = "STATUS" ->
         {set_request([set_request(s, FALSE) EXCEPT !.phase = "MESSAGE",
                                                    !.message_phase = TRUE], TRUE)}
    [] s.phase = "MESSAGE" -> {bus_free(set_request(s, FALSE))}
    [] s.phase = "SCSI_READ" -> LET t == Counted(s)
                                IN  IF t.length = 0 THEN BlockRead(t) ELSE {t}
    [] OTHER -> {IF s.phase = "BUS_FREE" THEN s ELSE bus_free(s)}

-----------------------------------------------------------------------------
(* What the host sees, and what it does.                                     *)

\* The account of the command: it starts when the last command byte is written,
\* and every data byte moved counts.
Account(s, t) ==
  CASE s.phase = "COMMAND" /\ t.phase \notin {"COMMAND", "BUS_FREE"} ->
         [NoJob EXCEPT !.begun = job.begun,
                       !.op = t.command.op, !.sector = t.command.sector,
                       !.blocks = IF t.command.op \in {"read", "write"}
                                    THEN Blocks(t.command) ELSE 1,
                       !.before = s.image]
    [] s.phase = "SELECTION" /\ t.phase = "COMMAND" ->
         [NoJob EXCEPT !.begun = job.begun + 1]
    [] s.phase = "SCSI_WRITE" /\ t.phase # "BUS_FREE" ->
         [job EXCEPT !.moved = @ + 1, !.torn = @ \/ (t.error /\ ~t.status)]
    [] s.phase = "SCSI_READ" /\ t.phase # "BUS_FREE" ->
         [job EXCEPT !.moved = @ + 1, !.read = s.buffer[s.offset + 1]]
    [] OTHER -> job

\* Fields an operation ignores a host leaves zero.
Uses(s, field) ==
  s.command.op \in IF field = "sector" THEN {"read", "write", "verify", "translate"}
                   ELSE {"read", "write", "sense", "mode_sense", "mode_select"}

Values(s) ==
  CASE s.phase = "COMMAND" /\ s.offset = 0 -> Operations
    [] s.phase = "COMMAND" /\ s.offset = 1 /\ Uses(s, "sector") -> Sectors
    [] s.phase = "COMMAND" /\ s.offset = 2 /\ Uses(s, "count") -> Counts
    [] s.phase = "SCSI_WRITE" -> {job.moved + 1}
    [] OTHER -> {0}

Step(s, after) == \E t \in after : scsi' = publish_irq(t) /\ job' = Account(s, t)

\* Registers 0 and 2: data with the select line up or down.
WriteData(selected) ==
  /\ Mounted(scsi)
  /\ scsi.phase = "BUS_FREE" => job.begun < MaxCommands
  /\ \E value \in Values(scsi) :
       Step(scsi, write_data([scsi EXCEPT !.selected = selected], value))

ReadData == Mounted(scsi) /\ Step(scsi, read_data(scsi))

\* Register 3: D0 arms the latch, or disarms and clears it.
WriteArm(armed) ==
  /\ Mounted(scsi)
  /\ scsi' = publish_irq([scsi EXCEPT !.selected = TRUE, !.irq_armed = armed,
                            !.irq_pending = armed /\ (@ \/ scsi.request)])
  /\ UNCHANGED job

beebscsi_elkulator_reset ==
  /\ Mounted(scsi)
  /\ scsi' = publish_irq(bus_free([scsi EXCEPT !.sense_code = 0, !.sense_sector = 0,
                                    !.irq_armed = FALSE, !.irq_pending = FALSE]))
  /\ UNCHANGED job

\* An emulator without an image never routes an access here.
Unmounted == scsi.initialised /\ ~Mounted(scsi) /\ UNCHANGED vars

Next ==
  \/ \E lun \in {"present", "absent"}, writable \in BOOLEAN,
        dsc \in Sidecars : initialise(lun, writable, dsc)
  \/ \E selected \in BOOLEAN : WriteData(selected)
  \/ ReadData
  \/ \E armed \in BOOLEAN : WriteArm(armed)
  \/ beebscsi_elkulator_reset
  \/ Unmounted

Spec == Init /\ [][Next]_vars

\* A host that keeps doing what the bus asks for: it reads in an input phase,
\* drops the select line, and writes otherwise.
Serve == IF scsi.input_phase THEN ReadData
         ELSE scsi.phase # "BUS_FREE" /\ WriteData(FALSE)
FairSpec == Spec /\ WF_vars(Serve)

-----------------------------------------------------------------------------
(* Properties.                                                              *)

\* The byte a READ delivers is the next one of the image from the sector asked
\* for on, across block boundaries; past the end of a short last sector, zero
\* (TECHNICAL.md:24-25, "A non-empty short final sector is zero-padded").
ReadExact ==
  job.op = "read" /\ job.moved > 0 =>
    LET at == job.sector * SectorSize + job.moved
    IN  job.read = IF at \in DOMAIN scsi.image THEN scsi.image[at] ELSE 0

\* Whatever the host does to a WRITE, the image differs from what it was in
\* whole sectors only, from the first asked for on, each with its own bytes;
\* a sector whose write failed in the file system may be torn.
WriteExact ==
  job.op # "none" =>
    LET from == job.sector * SectorSize
        done == IF job.op # "write" THEN 0
                ELSE job.moved \div SectorSize
                       - (IF ~scsi.status /\ job.moved > 0 THEN 1 ELSE 0)
        torn == (from + done * SectorSize + 1)..(from + (done + 1) * SectorSize)
    IN  \A p \in DOMAIN scsi.image :
          \/ job.torn /\ p \in torn
          \/ scsi.image[p] = IF p - from \in 1..done * SectorSize THEN p - from
                             ELSE job.before[p]

\* Good status means every block asked for was moved; after a failure the sense
\* names the first sector that was not.
StatusTrue ==
  scsi.phase = "STATUS" /\ job.op \in {"read", "write"} =>
    LET whole == job.moved \div SectorSize
    IN  IF scsi.status THEN job.moved = job.blocks * SectorSize
        ELSE /\ scsi.sense_code # 0
             /\ scsi.sense_sector
                  = job.sector + whole - (IF job.op = "write" THEN 1 ELSE 0)

\* "an asserted REQ sets the second stage, which remains latched after REQ falls
\* until D0 clears the first stage or reset occurs" (TECHNICAL.md:28-30): the latch
\* is set whenever REQ meets it armed, at whatever byte it was armed, keeps its
\* interrupt while it stays armed, and the emulator has been told.
IrqLatched ==
  /\ [](/\ scsi.irq_armed /\ scsi.request => scsi.irq_pending
        /\ scsi.irq_pending => scsi.irq_armed
        /\ scsi.published = scsi.irq_pending)
  /\ [][scsi.irq_pending /\ scsi'.irq_armed => scsi'.irq_pending]_vars

\* A host that does what the bus asks gets back to a free bus, from any phase.
CommandEnds == scsi.phase # "BUS_FREE" ~> scsi.phase = "BUS_FREE"

=============================================================================
