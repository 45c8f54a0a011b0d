----------------------------- MODULE ScsiProofs -----------------------------
(***************************************************************************)
(* The SCSI adapter, for every size of sector, image, command and count,    *)
(* and for a host that may access any register at any time.                 *)
(*                                                                         *)
(* Good says, for the device and the command it serves, where a transfer    *)
(* stands: how many blocks are done, which sector the buffer belongs to,    *)
(* what of it the host has moved, and what the image has become of what it  *)
(* was.  A command that was broken off keeps the parts that no longer move. *)
(***************************************************************************)
EXTENDS BeebScsi, SequenceTheorems, TLAPS

Phases == {"BUS_FREE", "SELECTION", "COMMAND", "SCSI_READ", "SCSI_WRITE", "STATUS", "MESSAGE"}
Ops == {"none"} \cup Operations
Commands == [op : Ops, sector : Nat, count : 0..(WholeCount - 1)]
Buffers == [1..SectorSize -> Int]
Images == [1..ImageSize -> Int]

States ==
  [phase : Phases, selected : BOOLEAN, message_phase : BOOLEAN, command_phase : BOOLEAN,
   input_phase : BOOLEAN, busy : BOOLEAN, request : BOOLEAN, irq_armed : BOOLEAN,
   irq_pending : BOOLEAN, published : BOOLEAN, command : Commands, buffer : Buffers,
   geometry : Seq(Int), status : BOOLEAN, blocks : Nat, next_sector : Nat, offset : Nat,
   length : Nat, sense_code : Nat, sense_sector : Nat, image : {<<>>} \cup Images,
   writable : BOOLEAN, error : BOOLEAN, initialised : BOOLEAN]

Jobs == [begun : Nat, op : Ops, sector : Nat, blocks : Nat, moved : Nat, read : Int,
         before : {<<>>} \cup Images, torn : BOOLEAN]

-----------------------------------------------------------------------------
(* The interrupt latch.                                                     *)

Latch(s) == /\ s.irq_armed /\ s.request => s.irq_pending
            /\ s.irq_pending => s.irq_armed

\* A step that leaves D0 alone may set the latch, never clear it.
Latches(s, t) ==
  /\ t.irq_armed = s.irq_armed /\ t.initialised = s.initialised
  /\ s.irq_pending => t.irq_pending
  /\ Latch(s) => Latch(t)

IrqInv ==
  /\ scsi \in States /\ Latch(scsi) /\ scsi.published = scsi.irq_pending
  /\ ~Mounted(scsi) => scsi.phase = "BUS_FREE" /\ ~scsi.irq_armed /\ ~scsi.request
  /\ Mounted(scsi) => scsi.initialised

-----------------------------------------------------------------------------
(* The command being served.                                                *)

\* Blocks of a transfer that are done.
Done(s, j) == j.blocks - s.blocks

Reads(s, j) ==
  s.phase = "SCSI_READ" =>
    /\ j.op = s.command.op /\ j.op # "write"
    /\ s.length >= 1 /\ s.offset + s.length <= SectorSize
    /\ IF j.op # "read" THEN s.blocks = 1
       ELSE /\ s.blocks >= 1 /\ s.blocks <= j.blocks
            /\ s.offset + s.length = SectorSize
            /\ j.moved = Done(s, j) * SectorSize + s.offset
            /\ s.next_sector = j.sector + Done(s, j) + 1
            /\ s.buffer = SectorBytes(s.image, j.sector + Done(s, j))

\* The image once n bytes have reached it.
Became(s, j, n) ==
  \A p \in 1..ImageSize :
    s.image[p] = IF p - j.sector * SectorSize \in 1..n THEN p - j.sector * SectorSize
                 ELSE j.before[p]

Writes(s, j) ==
  s.phase = "SCSI_WRITE" =>
    /\ j.op = s.command.op /\ j.op # "read"
    /\ IF j.op # "write" THEN s.blocks = 1 /\ s.length < Word
       ELSE /\ s.blocks >= 1 /\ s.blocks <= j.blocks /\ s.length >= 1
            /\ s.offset + s.length = SectorSize
            /\ j.moved = Done(s, j) * SectorSize + s.offset
            /\ s.next_sector = j.sector + Done(s, j)
            /\ \A i \in 1..s.offset : s.buffer[i] = Done(s, j) * SectorSize + i
            /\ s.status /\ ~j.torn
            /\ Became(s, j, Done(s, j) * SectorSize)

\* The properties, of a state and a command.
ReadOK(s, j) ==
  j.op = "read" /\ j.moved > 0 =>
    LET at == j.sector * SectorSize + j.moved
    IN  j.read = IF at \in DOMAIN s.image THEN s.image[at] ELSE 0

WriteOK(s, j) ==
  j.op # "none" =>
    LET from == j.sector * SectorSize
        done == IF j.op # "write" THEN 0
                ELSE j.moved \div SectorSize - (IF ~s.status /\ j.moved > 0 THEN 1 ELSE 0)
        torn == (from + done * SectorSize + 1)..(from + (done + 1) * SectorSize)
    IN  \A p \in DOMAIN s.image :
          \/ j.torn /\ p \in torn
          \/ s.image[p] = IF p - from \in 1..done * SectorSize THEN p - from ELSE j.before[p]

StatusOK(s, j) ==
  s.phase = "STATUS" /\ j.op \in {"read", "write"} =>
    LET whole == j.moved \div SectorSize
    IN  IF s.status THEN j.moved = j.blocks * SectorSize
        ELSE /\ s.sense_code # 0
             /\ s.sense_sector = j.sector + whole - (IF j.op = "write" THEN 1 ELSE 0)

Good(s, j) ==
  /\ s \in States /\ j \in Jobs
  /\ s.image # <<>> => Len(s.geometry) >= GeometrySize
  /\ s.image = <<>> => s.phase = "BUS_FREE" /\ j.op = "none"
  /\ s.phase = "COMMAND" => j.op = "none" /\ s.length \in 1..Long
  /\ j.op \notin {"none", "write"} => s.image = j.before
  /\ Reads(s, j) /\ Writes(s, j)
  /\ ReadOK(s, j) /\ WriteOK(s, j) /\ StatusOK(s, j)

ScsiInv == Good(scsi, job)

-----------------------------------------------------------------------------
(* The bus lines: what each operator leaves alone.                          *)

\* What no operation on the lines touches.
Kept(s, t) ==
  /\ t.command = s.command /\ t.buffer = s.buffer /\ t.geometry = s.geometry
  /\ t.blocks = s.blocks /\ t.next_sector = s.next_sector /\ t.image = s.image
  /\ t.sense_code = s.sense_code /\ t.sense_sector = s.sense_sector
  /\ t.error = s.error /\ t.writable = s.writable /\ t.initialised = s.initialised

\* ... and where the transfer stands.
Same(s, t) == Kept(s, t) /\ t.phase = s.phase /\ t.status = s.status
              /\ t.offset = s.offset /\ t.length = s.length

\* Publishing tells the emulator of the latch and changes nothing else.
LEMMA Publishes ==
  ASSUME NEW s \in States
  PROVE  LET t == publish_irq(s) IN
         /\ t \in States /\ Same(s, t) /\ t.irq_armed = s.irq_armed /\ t.irq_pending = s.irq_pending
         /\ t.request = s.request /\ t.initialised = s.initialised /\ t.published = (Mounted(s) /\ s.irq_pending)
<1> DEFINE b == Mounted(s) /\ s.irq_pending
           t == [s EXCEPT !.published = b]
<1>1. b \in BOOLEAN
  BY DEF States
<1> HIDE DEF b
<1>2. t \in States
  BY <1>1 DEF States
<1>3. /\ Same(s, t) /\ t.irq_armed = s.irq_armed /\ t.irq_pending = s.irq_pending
      /\ t.request = s.request /\ t.initialised = s.initialised /\ t.published = b
  BY DEF States, Same, Kept
<1> QED BY <1>2, <1>3 DEF publish_irq, b

\* REQ may set the latch.
LEMMA Requests ==
  ASSUME NEW s \in States, NEW active \in BOOLEAN
  PROVE  LET t == set_request(s, active) IN
         t \in States /\ Same(s, t) /\ Latches(s, t) /\ t.request = active
<1> DEFINE b == s.irq_pending \/ (s.irq_armed /\ active)
           u == [s EXCEPT !.request = active, !.irq_pending = b]
           t == publish_irq(u)
<1>1. b \in BOOLEAN
  BY DEF States
<1> HIDE DEF b
<1>2. u \in States
  BY <1>1 DEF States
<1>3. /\ Same(s, u) /\ u.irq_armed = s.irq_armed /\ u.irq_pending = b /\ u.request = active
      /\ u.initialised = s.initialised
  BY DEF States, Same, Kept
<1> HIDE DEF u
<1>4. /\ t \in States /\ Same(u, t) /\ t.irq_armed = u.irq_armed /\ t.irq_pending = u.irq_pending
      /\ t.request = u.request /\ t.initialised = u.initialised
  BY <1>2, Publishes
<1>5. Latches(s, t)
  BY <1>3, <1>4 DEF Latches, Latch, b
<1>6. Same(s, t)
  BY <1>3, <1>4 DEF Same, Kept
<1>7. set_request(s, active) = t
  BY DEF set_request, t, u, b
<1> QED BY <1>3, <1>4, <1>5, <1>6, <1>7

\* The lines of a phase, whatever they are.
LEMMA LinesKept ==
  ASSUME NEW s \in States, NEW c \in BOOLEAN, NEW i \in BOOLEAN, NEW m \in BOOLEAN
  PROVE  LET t == Lines(s, c, i, m) IN
         /\ t \in States /\ Same(s, t) /\ t.irq_armed = s.irq_armed
         /\ t.irq_pending = s.irq_pending /\ t.request = s.request /\ t.initialised = s.initialised
<1>1. Lines(s, c, i, m) \in States
  BY DEF Lines, States
<1> QED BY <1>1 DEF Lines, States, Same, Kept

\* The free bus.
LEMMA Frees ==
  ASSUME NEW s \in States
  PROVE  LET t == bus_free(s) IN
         /\ t \in States /\ Kept(s, t) /\ Latches(s, t) /\ t.phase = "BUS_FREE" /\ ~t.request
         /\ t.status = s.status /\ t.offset = s.offset /\ t.length = s.length
<1> DEFINE u == Lines(s, FALSE, FALSE, FALSE)
           v == [u EXCEPT !.selected = FALSE, !.busy = FALSE]
           w == set_request(v, FALSE)
           t == [w EXCEPT !.phase = "BUS_FREE"]
<1>1. /\ u \in States /\ Same(s, u) /\ u.irq_armed = s.irq_armed
      /\ u.irq_pending = s.irq_pending /\ u.request = s.request /\ u.initialised = s.initialised
  BY LinesKept
<1> HIDE DEF u
<1>2. /\ v \in States /\ Same(u, v) /\ v.irq_armed = u.irq_armed
      /\ v.irq_pending = u.irq_pending /\ v.request = u.request /\ v.initialised = u.initialised
  BY <1>1, ZenonT(60) DEF States, Same, Kept
<1> HIDE DEF v
<1>3. w \in States /\ Same(v, w) /\ Latches(v, w) /\ w.request = FALSE
  BY <1>2, Requests
<1> HIDE DEF w
<1>4. t \in States /\ t.phase = "BUS_FREE" /\ ~t.request
  BY <1>3 DEF States, Phases
<1>5. Kept(w, t) /\ t.status = w.status /\ t.offset = w.offset /\ t.length = w.length
      /\ t.irq_armed = w.irq_armed /\ t.irq_pending = w.irq_pending /\ t.request = w.request /\ t.initialised = w.initialised
  BY <1>3 DEF States, Kept
<1> HIDE DEF t
<1>6. Latches(s, t)
  BY <1>1, <1>2, <1>3, <1>5 DEF Latches, Latch
<1>7. Kept(s, t) /\ t.status = s.status /\ t.offset = s.offset /\ t.length = s.length
  BY <1>1, <1>2, <1>3, <1>5 DEF Same, Kept
<1>8. bus_free(s) = t
  BY DEF bus_free, t, w, v, u
<1> QED BY <1>4, <1>6, <1>7, <1>8

\* The phases of a command's data and status.
LEMMA EntersStatus ==
  ASSUME NEW s \in States, NEW good \in BOOLEAN
  PROVE  LET t == status_phase(s, good) IN
         /\ t \in States /\ Kept(s, t) /\ Latches(s, t) /\ t.phase = "STATUS" /\ t.status = good
<1> DEFINE u == Lines(s, TRUE, TRUE, FALSE)
           v == [u EXCEPT !.phase = "STATUS"]
           w == set_request(v, TRUE)
           t == [w EXCEPT !.status = good]
<1>1. /\ u \in States /\ Same(s, u) /\ u.irq_armed = s.irq_armed
      /\ u.irq_pending = s.irq_pending /\ u.request = s.request /\ u.initialised = s.initialised
  BY LinesKept
<1> HIDE DEF u
<1>2. /\ v \in States /\ Kept(u, v) /\ v.phase = "STATUS" /\ v.irq_armed = u.irq_armed
      /\ v.irq_pending = u.irq_pending /\ v.request = u.request /\ v.initialised = u.initialised
  BY <1>1 DEF States, Kept, Phases
<1> HIDE DEF v
<1>3. w \in States /\ Same(v, w) /\ Latches(v, w)
  BY <1>2, Requests
<1> HIDE DEF w
<1>4. t \in States /\ Kept(w, t) /\ t.phase = w.phase /\ t.status = good
      /\ t.irq_armed = w.irq_armed /\ t.irq_pending = w.irq_pending /\ t.request = w.request /\ t.initialised = w.initialised
  BY <1>3 DEF States, Kept
<1> HIDE DEF t
<1>5. Latches(s, t)
  BY <1>1, <1>2, <1>3, <1>4 DEF Latches, Latch
<1>6. Kept(s, t) /\ t.phase = "STATUS"
  BY <1>1, <1>2, <1>3, <1>4 DEF Same, Kept
<1>7. status_phase(s, good) = t
  BY DEF status_phase, t, w, v, u
<1> QED BY <1>4, <1>5, <1>6, <1>7

\* The phase in which the host reads.
LEMMA EntersRead ==
  ASSUME NEW s \in States, NEW length \in Nat
  PROVE  LET t == read_phase(s, length) IN
         /\ t \in States /\ Kept(s, t) /\ Latches(s, t) /\ t.phase = "SCSI_READ" /\ t.status
         /\ t.offset = 0 /\ t.length = length
<1> DEFINE u == Lines(s, FALSE, TRUE, FALSE)
           v == [u EXCEPT !.phase = "SCSI_READ"]
           w == set_request(v, TRUE)
           t == [w EXCEPT !.offset = 0, !.length = length, !.status = TRUE]
<1>1. /\ u \in States /\ Same(s, u) /\ u.irq_armed = s.irq_armed
      /\ u.irq_pending = s.irq_pending /\ u.request = s.request /\ u.initialised = s.initialised
  BY LinesKept
<1> HIDE DEF u
<1>2. /\ v \in States /\ Kept(u, v) /\ v.phase = "SCSI_READ" /\ v.irq_armed = u.irq_armed
      /\ v.irq_pending = u.irq_pending /\ v.request = u.request /\ v.initialised = u.initialised
  BY <1>1 DEF States, Kept, Phases
<1> HIDE DEF v
<1>3. w \in States /\ Same(v, w) /\ Latches(v, w)
  BY <1>2, Requests
<1> HIDE DEF w
<1>4. t \in States /\ Kept(w, t) /\ t.phase = w.phase /\ t.status /\ t.offset = 0 /\ t.length = length
      /\ t.irq_armed = w.irq_armed /\ t.irq_pending = w.irq_pending /\ t.request = w.request /\ t.initialised = w.initialised
  BY <1>3 DEF States, Kept
<1> HIDE DEF t
<1>5. Latches(s, t)
  BY <1>1, <1>2, <1>3, <1>4 DEF Latches, Latch
<1>6. Kept(s, t) /\ t.phase = "SCSI_READ"
  BY <1>1, <1>2, <1>3, <1>4 DEF Same, Kept
<1>7. read_phase(s, length) = t
  BY DEF read_phase, t, w, v, u
<1> QED BY <1>4, <1>5, <1>6, <1>7

\* The phase in which the host writes.
LEMMA EntersWrite ==
  ASSUME NEW s \in States, NEW length \in Nat
  PROVE  LET t == write_phase(s, length) IN
         /\ t \in States /\ Kept(s, t) /\ Latches(s, t) /\ t.phase = "SCSI_WRITE"
         /\ t.status = s.status /\ t.offset = 0 /\ t.length = length
<1> DEFINE u == Lines(s, FALSE, FALSE, FALSE)
           v == [u EXCEPT !.phase = "SCSI_WRITE", !.offset = 0, !.length = length]
           t == set_request(v, TRUE)
<1>1. /\ u \in States /\ Same(s, u) /\ u.irq_armed = s.irq_armed
      /\ u.irq_pending = s.irq_pending /\ u.request = s.request /\ u.initialised = s.initialised
  BY LinesKept
<1> HIDE DEF u
<1>2. /\ v \in States /\ Kept(u, v) /\ v.phase = "SCSI_WRITE" /\ v.offset = 0 /\ v.length = length
      /\ v.irq_armed = u.irq_armed /\ v.irq_pending = u.irq_pending /\ v.request = u.request /\ v.initialised = u.initialised
      /\ v.status = u.status
  BY <1>1 DEF States, Kept, Phases
<1> HIDE DEF v
<1>3. t \in States /\ Same(v, t) /\ Latches(v, t)
  BY <1>2, Requests
<1> HIDE DEF t
<1>4. Latches(s, t)
  BY <1>1, <1>2, <1>3 DEF Latches, Latch
<1>5. /\ Kept(s, t) /\ t.phase = "SCSI_WRITE" /\ t.offset = 0 /\ t.length = length
      /\ t.status = s.status
  BY <1>1, <1>2, <1>3 DEF Same, Kept
<1>6. write_phase(s, length) = t
  BY DEF write_phase, t, v, u
<1> QED BY <1>3, <1>4, <1>5, <1>6

\* One byte counted; the count wraps below zero.
LEMMA Counts1 ==
  ASSUME NEW s \in States
  PROVE  LET t == Counted(s) IN
         /\ t \in States /\ Kept(s, t) /\ Latches(s, t) /\ t.phase = s.phase /\ t.status = s.status
         /\ t.offset = s.offset + 1 /\ t.length = (s.length - 1) % Word /\ t.length < Word
         /\ s.length >= 1 /\ s.length < Word => t.length = s.length - 1
<1> DEFINE n == (s.length - 1) % Word
           o == s.offset + 1
           u == [s EXCEPT !.offset = o, !.length = n]
           t == set_request(u, FALSE)
<1>1. s.length \in Nat /\ s.offset \in Nat /\ Word \in Nat /\ 0 < Word
  BY ScsiAssumption, SMTT(30) DEF States
<1>2. n \in Nat /\ o \in Nat /\ n < Word /\ (s.length >= 1 /\ s.length < Word => n = s.length - 1)
  BY <1>1
<1> HIDE DEF n, o
<1>3. /\ u \in States /\ Kept(s, u) /\ u.phase = s.phase /\ u.status = s.status
      /\ u.offset = o /\ u.length = n /\ u.irq_armed = s.irq_armed
      /\ u.irq_pending = s.irq_pending /\ u.request = s.request /\ u.initialised = s.initialised
  BY <1>2 DEF States, Kept
<1> HIDE DEF u
<1>4. t \in States /\ Same(u, t) /\ Latches(u, t) /\ t.request = FALSE
  BY <1>3, Requests
<1> HIDE DEF t
<1>5. Latches(s, t)
  BY <1>3, <1>4 DEF Latches, Latch
<1>6. /\ Kept(s, t) /\ t.phase = s.phase /\ t.status = s.status /\ t.offset = o /\ t.length = n
  BY <1>3, <1>4 DEF Same, Kept
<1>7. Counted(s) = t
  BY DEF Counted, t, u, n, o
<1> QED BY <1>2, <1>4, <1>5, <1>6, <1>7 DEF n, o

\* A new block of a transfer.
LEMMA StartsBlock ==
  ASSUME NEW s \in States
  PROVE  LET t == NextBlock(s) IN
         /\ t \in States /\ Kept(s, t) /\ Latches(s, t) /\ t.phase = s.phase /\ t.status = s.status
         /\ t.offset = 0 /\ t.length = SectorSize
<1> DEFINE u == [s EXCEPT !.offset = 0, !.length = SectorSize]
           t == set_request(u, TRUE)
<1>1. SectorSize \in Nat
  BY ScsiAssumption
<1>3. /\ u \in States /\ Kept(s, u) /\ u.phase = s.phase /\ u.status = s.status
      /\ u.offset = 0 /\ u.length = SectorSize /\ u.irq_armed = s.irq_armed
      /\ u.irq_pending = s.irq_pending /\ u.request = s.request /\ u.initialised = s.initialised
  BY <1>1 DEF States, Kept
<1> HIDE DEF u
<1>4. t \in States /\ Same(u, t) /\ Latches(u, t)
  BY <1>3, Requests
<1> HIDE DEF t
<1>5. Latches(s, t)
  BY <1>3, <1>4 DEF Latches, Latch
<1>6. /\ Kept(s, t) /\ t.phase = s.phase /\ t.status = s.status /\ t.offset = 0 /\ t.length = SectorSize
  BY <1>3, <1>4 DEF Same, Kept
<1>7. NextBlock(s) = t
  BY DEF NextBlock, t, u
<1> QED BY <1>4, <1>5, <1>6, <1>7

\* A failure leaves its sense.
LEMMA Fails ==
  ASSUME NEW s \in States, NEW sector \in Nat
  PROVE  LET t == Failed(s, sector) IN
         /\ t \in States /\ Latches(s, t) /\ t.phase = "STATUS" /\ ~t.status
         /\ t.sense_code # 0 /\ t.sense_sector = sector
         /\ t.image = s.image /\ t.geometry = s.geometry /\ t.command = s.command /\ t.error = s.error
<1> DEFINE u == [s EXCEPT !.sense_code = 33, !.sense_sector = sector]
           t == status_phase(u, FALSE)
<1>1. /\ u \in States /\ u.sense_code = 33 /\ u.sense_sector = sector
      /\ u.image = s.image /\ u.geometry = s.geometry /\ u.command = s.command /\ u.error = s.error
      /\ u.irq_armed = s.irq_armed /\ u.irq_pending = s.irq_pending /\ u.request = s.request /\ u.initialised = s.initialised
  BY DEF States
<1> HIDE DEF u
<1>2. t \in States /\ Kept(u, t) /\ Latches(u, t) /\ t.phase = "STATUS" /\ t.status = FALSE
  BY <1>1, EntersStatus
<1> HIDE DEF t
<1>3. Latches(s, t)
  BY <1>1, <1>2 DEF Latches, Latch
<1>4. Failed(s, sector) = t
  BY DEF Failed, t, u
<1> QED BY <1>1, <1>2, <1>3, <1>4 DEF Kept

-----------------------------------------------------------------------------
(* The image file.                                                          *)

\* What reaching the file leaves alone.
Apart(s, t) ==
  /\ t.phase = s.phase /\ t.command = s.command /\ t.geometry = s.geometry /\ t.status = s.status
  /\ t.blocks = s.blocks /\ t.next_sector = s.next_sector /\ t.offset = s.offset
  /\ t.length = s.length /\ t.irq_armed = s.irq_armed /\ t.irq_pending = s.irq_pending
  /\ t.request = s.request /\ t.initialised = s.initialised

\* A sector's bytes are a buffer.
LEMMA SectorIsBuffer ==
  ASSUME NEW image \in Images, NEW sector \in Nat
  PROVE  SectorBytes(image, sector) \in Buffers
<1>1. SectorSize \in Nat /\ ImageSize \in Nat
  BY ScsiAssumption
<1>2. sector * SectorSize \in Nat
  BY <1>1
<1> DEFINE at(i) == sector * SectorSize + i
<1>3. \A i \in 1..SectorSize : (IF at(i) \in DOMAIN image THEN image[at(i)] ELSE 0) \in Int
  BY DEF Images
<1> HIDE DEF at
<1>4. [i \in 1..SectorSize |-> IF at(i) \in DOMAIN image THEN image[at(i)] ELSE 0] \in Buffers
  BY <1>3 DEF Buffers
<1> QED BY <1>4 DEF SectorBytes, at

\* read_sector fills the buffer with the sector, or fails.
LEMMA ReadsSector ==
  ASSUME NEW s \in States, s.image # <<>>, NEW sector \in Nat, NEW r \in read_sector(s, sector)
  PROVE  /\ r.s \in States /\ Apart(s, r.s) /\ r.s.image = s.image
         /\ r.ok => r.s.buffer = SectorBytes(s.image, sector)
<1> DEFINE bytes == SectorBytes(s.image, sector)
           got == [s EXCEPT !.buffer = bytes]
           bad == [s EXCEPT !.buffer = Zeros, !.error = TRUE]
<1>1. s.image \in Images
  BY DEF States
<1>2. bytes \in Buffers /\ Zeros \in Buffers
  <2>1. bytes \in Buffers
    BY <1>1, SectorIsBuffer
  <2>2. Zeros \in Buffers
    BY DEF Zeros, Buffers
  <2> QED BY <2>1, <2>2
<1> HIDE DEF bytes
<1>3. got \in States /\ Apart(s, got) /\ got.image = s.image /\ got.buffer = bytes
  BY <1>2 DEF States, Apart
<1>4. bad \in States /\ Apart(s, bad) /\ bad.image = s.image
  BY <1>2 DEF States, Apart
<1>5. Apart(s, s)
  BY DEF Apart
<1> HIDE DEF got, bad
<1> DEFINE b == (sector + 1) * SectorSize <= ImageSize \/ ~s.error
<1>6. \/ r = [ok |-> FALSE, s |-> s]
      \/ r = [ok |-> b, s |-> got]
      \/ r = [ok |-> FALSE, s |-> bad]
  BY DEF read_sector, got, bad, bytes
<1> HIDE DEF b
<1>7. CASE r = [ok |-> FALSE, s |-> s]
  <2>1. ~r.ok /\ r.s = s
    BY <1>7
  <2> QED BY <1>5, <2>1
<1>8. CASE r = [ok |-> b, s |-> got]
  <2>1. r.s = got
    BY <1>8
  <2> QED BY <1>3, <2>1 DEF bytes
<1>9. CASE r = [ok |-> FALSE, s |-> bad]
  <2>1. ~r.ok /\ r.s = bad
    BY <1>9
  <2> QED BY <1>4, <2>1
<1> QED BY <1>6, <1>7, <1>8, <1>9

\* write_sector puts the buffer, or fails having put some of it.
LEMMA WritesSector ==
  ASSUME NEW s \in States, s.image # <<>>, NEW sector \in Nat, NEW w \in write_sector(s, sector)
  PROVE  /\ w.s \in States /\ Apart(s, w.s) /\ w.s.image # <<>>
         /\ w.ok => w.s.image = Put(s.image, sector, s.buffer, SectorSize) /\ w.s.error = s.error
         /\ ~w.ok => \/ w.s.image = s.image
                     \/ /\ w.s.error
                        /\ \E n \in 0..SectorSize : w.s.image = Put(s.image, sector, s.buffer, n)
<1>1. s.image \in Images /\ s.buffer \in Buffers /\ SectorSize \in Nat /\ ImageSize \in Nat \ {0}
  BY ScsiAssumption DEF States
<1>2. ASSUME NEW n \in 0..SectorSize PROVE Put(s.image, sector, s.buffer, n) \in Images
  <2> DEFINE at(p) == p - sector * SectorSize
             q == s.image
             buf == s.buffer
  <2>1. DOMAIN q = 1..ImageSize /\ \A p \in 1..ImageSize : q[p] \in Int
    BY <1>1 DEF Images
  <2>2. \A i \in 1..n : buf[i] \in Int
    <3>1. \A i \in 1..n : i \in 1..SectorSize
      BY <1>1
    <3> QED BY <1>1, <3>1 DEF Buffers
  <2> HIDE DEF at, q, buf
  <2>3. \A p \in 1..ImageSize : (IF at(p) \in 1..n THEN buf[at(p)] ELSE q[p]) \in Int
    BY <2>1, <2>2
  <2>4. [p \in 1..ImageSize |-> IF at(p) \in 1..n THEN buf[at(p)] ELSE q[p]] \in Images
    BY <2>3 DEF Images
  <2> QED BY <2>1, <2>4 DEF Put, at, q, buf
<1>3. ASSUME NEW image \in Images PROVE image # <<>>
  <2>1. DOMAIN image = 1..ImageSize /\ 1 \in 1..ImageSize
    BY <1>1 DEF Images
  <2>2. DOMAIN <<>> = {}
    OBVIOUS
  <2> QED BY <2>1, <2>2
<1> DEFINE put(n) == Put(s.image, sector, s.buffer, n)
           good == [s EXCEPT !.image = put(SectorSize)]
           bad(n) == [[s EXCEPT !.image = put(n)] EXCEPT !.error = TRUE]
<1>4. \/ w = [ok |-> FALSE, s |-> s]
      \/ w = [ok |-> TRUE, s |-> good]
      \/ \E n \in 0..SectorSize : w = [ok |-> FALSE, s |-> bad(n)]
  BY DEF write_sector
<1>5. SectorSize \in 0..SectorSize
  BY <1>1
<1>6. \A n \in 0..SectorSize : put(n) \in Images
  BY <1>2
<1> HIDE DEF put
<1>7. CASE w = [ok |-> FALSE, s |-> s]
  <2>1. ~w.ok /\ w.s = s
    BY <1>7
  <2> QED BY <2>1 DEF Apart
<1>8. CASE w = [ok |-> TRUE, s |-> good]
  <2>1. w.ok /\ w.s = good
    BY <1>8
  <2>2. good \in States /\ Apart(s, good) /\ good.image = put(SectorSize) /\ good.error = s.error
    BY <1>5, <1>6 DEF States, Apart
  <2>3. good.image # <<>>
    BY <1>3, <1>5, <1>6, <2>2
  <2> QED BY <2>1, <2>2, <2>3 DEF put
<1>9. ASSUME NEW n \in 0..SectorSize, w = [ok |-> FALSE, s |-> bad(n)]
      PROVE  /\ w.s \in States /\ Apart(s, w.s) /\ w.s.image # <<>> /\ ~w.ok
             /\ w.s.error /\ w.s.image = put(n)
  <2>1. ~w.ok /\ w.s = bad(n)
    BY <1>9
  <2>2. bad(n) \in States /\ Apart(s, bad(n)) /\ bad(n).image = put(n) /\ bad(n).error
    BY <1>6, <1>9 DEF States, Apart
  <2>3. bad(n).image # <<>>
    BY <1>3, <1>6, <1>9, <2>2
  <2> QED BY <2>1, <2>2, <2>3
<1> QED BY <1>4, <1>7, <1>8, <1>9 DEF put

-----------------------------------------------------------------------------
(* Good, where nothing moves and where a command begins.                    *)

\* The sizes.
LEMMA Sizes ==
  /\ SectorSize \in Nat /\ SectorSize > 1 /\ SectorSize < Word /\ ImageSize \in Nat \ {0}
  /\ Word \in Nat /\ Long \in Nat /\ Long < Word /\ Short \in 1..Long /\ WholeCount \in Nat \ {0}
  /\ WholeCount <= Word /\ SenseSize \in Nat \ {0} /\ GeometrySize \in Nat \ {0}
  /\ ModeSize \in Nat \ {0} /\ SenseSize <= SectorSize /\ GeometrySize <= SectorSize
  /\ Short > 2
BY ScsiAssumption

\* Nothing that Good looks at has changed.
LEMMA StaysGood ==
  ASSUME NEW s, NEW j, Good(s, j), NEW t \in States, Same(s, t)
  PROVE  Good(t, j)
<1>1. /\ t.phase = s.phase /\ t.image = s.image /\ t.geometry = s.geometry /\ t.status = s.status
      /\ t.command = s.command /\ t.buffer = s.buffer /\ t.blocks = s.blocks
      /\ t.next_sector = s.next_sector /\ t.offset = s.offset /\ t.length = s.length
      /\ t.sense_code = s.sense_code /\ t.sense_sector = s.sense_sector
  BY DEF Same, Kept
<1>2. Reads(t, j)
  BY <1>1 DEF Good, Reads, Done
<1>3. Writes(t, j)
  BY <1>1 DEF Good, Writes, Done, Became
<1>4. ReadOK(t, j)
  BY <1>1 DEF Good, ReadOK
<1>5. WriteOK(t, j)
  BY <1>1 DEF Good, WriteOK
<1>6. StatusOK(t, j)
  BY <1>1 DEF Good, StatusOK
<1> QED BY <1>1, <1>2, <1>3, <1>4, <1>5, <1>6 DEF Good

\* No data moves in the other phases: a command ended there, or was broken off.
LEMMA RestsGood ==
  ASSUME NEW s, NEW j, Good(s, j), NEW t \in States, t.phase \in {"BUS_FREE", "SELECTION", "MESSAGE"},
         t.image = s.image, t.geometry = s.geometry, t.status = s.status,
         s.image = <<>> => t.phase = "BUS_FREE"
  PROVE  Good(t, j)
<1>2. Reads(t, j) /\ Writes(t, j) /\ StatusOK(t, j)
  BY DEF Reads, Writes, StatusOK
<1>4. ReadOK(t, j)
  BY DEF Good, ReadOK
<1>5. WriteOK(t, j)
  BY DEF Good, WriteOK
<1> QED BY <1>2, <1>4, <1>5 DEF Good

\* The account of a command s has just been given, the b-th of the host.
Begun(s, b) ==
  [NoJob EXCEPT !.begun = b, !.op = s.command.op, !.sector = s.command.sector,
                !.blocks = IF s.command.op \in {"read", "write"} THEN Blocks(s.command) ELSE 1,
                !.before = s.image]

\* The account of a command that has just begun.
LEMMA BegunIs ==
  ASSUME NEW s \in States, NEW b \in Nat
  PROVE  LET j == Begun(s, b) IN
         /\ j \in Jobs /\ j.op = s.command.op /\ j.sector = s.command.sector /\ j.moved = 0
         /\ j.before = s.image /\ ~j.torn
         /\ s.command.op \in {"read", "write"} => j.blocks = Blocks(s.command)
         /\ Blocks(s.command) \in Nat \ {0}
<1> DEFINE n == IF s.command.op \in {"read", "write"} THEN Blocks(s.command) ELSE 1
<1>1. s.command \in Commands
  BY DEF States
<1>2. s.command.op \in Ops /\ s.command.sector \in Nat /\ s.command.count \in 0..(WholeCount - 1)
  BY <1>1 DEF Commands
<1>3. Blocks(s.command) \in Nat \ {0}
  BY <1>2, Sizes DEF Blocks
<1>4. n \in Nat
  BY <1>3
<1> HIDE DEF n
<1>5. s.image \in {<<>>} \cup Images
  BY DEF States
<1> DEFINE j == [begun |-> b, op |-> s.command.op, sector |-> s.command.sector, blocks |-> n,
                 moved |-> 0, read |-> 0, before |-> s.image, torn |-> FALSE]
<1>6. Begun(s, b) = j
  <2>1. Begun(s, b) = [NoJob EXCEPT !.begun = b, !.op = s.command.op, !.sector = s.command.sector,
                                    !.blocks = n, !.before = s.image]
    BY DEF Begun, n
  <2> QED BY <2>1 DEF NoJob
<1>7. j \in Jobs
  BY <1>2, <1>4, <1>5 DEF Jobs
<1> QED BY <1>3, <1>6, <1>7 DEF n

\* A command that has moved nothing.
LEMMA StartsGood ==
  ASSUME NEW s \in States, NEW b \in Nat, s.image # <<>>, Len(s.geometry) >= GeometrySize,
         NEW t \in States, t.image = s.image, t.geometry = s.geometry,
         t.phase \in {"STATUS", "SCSI_READ", "SCSI_WRITE"},
         Reads(t, Begun(s, b)), Writes(t, Begun(s, b)), StatusOK(t, Begun(s, b))
  PROVE  Good(t, Begun(s, b))
<1> DEFINE j == Begun(s, b)
<1>1. j \in Jobs /\ j.moved = 0 /\ j.before = s.image /\ ~j.torn /\ j.sector \in Nat
  BY BegunIs DEF Jobs
<1> HIDE DEF j
<1>2. ReadOK(t, j)
  BY <1>1 DEF ReadOK
<1>3. WriteOK(t, j)
  <2>1. 0 \div SectorSize = 0 /\ 0 * SectorSize = 0
    BY Sizes
  <2>2. t.image = j.before
    BY <1>1
  <2>3. \A p : p \notin 1..0
    OBVIOUS
  <2> DEFINE done == IF j.op # "write" THEN 0
                     ELSE j.moved \div SectorSize - (IF ~t.status /\ j.moved > 0 THEN 1 ELSE 0)
  <2>4. done = 0
    BY <1>1, <2>1
  <2> HIDE DEF done
  <2>5. \A p \in DOMAIN t.image : p - j.sector * SectorSize \notin 1..(done * SectorSize)
    BY <2>1, <2>3, <2>4
  <2> QED BY <2>2, <2>5 DEF WriteOK, done
<1> QED BY <1>1, <1>2, <1>3 DEF Good, j

\* Values laid into the buffer.
LEMMA Fills ==
  ASSUME NEW s \in States, NEW values, \A i \in DOMAIN values : values[i] \in Int
  PROVE  LET t == Filled(s, values) IN t \in States /\ Apart(s, t) /\ t.image = s.image
<1> DEFINE buf == [i \in 1..SectorSize |-> IF i \in DOMAIN values THEN values[i] ELSE s.buffer[i]]
           t == [s EXCEPT !.buffer = buf]
<1>1. \A i \in 1..SectorSize : s.buffer[i] \in Int
  BY DEF States, Buffers
<1>2. buf \in Buffers
  BY <1>1 DEF Buffers
<1> HIDE DEF buf
<1>3. t \in States /\ Apart(s, t) /\ t.image = s.image
  BY <1>2 DEF States, Apart
<1> QED BY <1>3 DEF Filled, buf

\* An answer of n bytes from the buffer.
LEMMA Answers ==
  ASSUME NEW s \in States, s.image # <<>>, Len(s.geometry) >= GeometrySize, NEW b \in Nat,
         s.command.op \notin {"read", "write"},
         NEW v \in States, v.image = s.image, v.geometry = s.geometry, v.command = s.command,
         v.blocks = 1, v.irq_armed = s.irq_armed, v.irq_pending = s.irq_pending, v.request = s.request, v.initialised = s.initialised,
         NEW n \in 1..SectorSize
  PROVE  LET t == read_phase(v, n) IN
         /\ t \in States /\ Latches(s, t) /\ t.phase = "SCSI_READ" /\ t.command = s.command
         /\ t.image = s.image /\ t.geometry = s.geometry /\ Good(t, Begun(s, b))
<1> DEFINE t == read_phase(v, n)
           j == Begun(s, b)
<1>0. n \in Nat /\ n >= 1 /\ n <= SectorSize /\ 0 + n <= SectorSize
  BY Sizes
<1>1. /\ t \in States /\ Kept(v, t) /\ Latches(v, t) /\ t.phase = "SCSI_READ"
      /\ t.offset = 0 /\ t.length = n
  BY <1>0, EntersRead
<1> HIDE DEF t
<1>2. t.command = s.command /\ t.image = s.image /\ t.geometry = s.geometry /\ t.blocks = 1
  BY <1>1 DEF Kept
<1>3. Latches(s, t)
  BY <1>1 DEF Latches, Latch
<1>4. j.op = s.command.op
  BY BegunIs
<1> HIDE DEF j
<1>5. Reads(t, j) /\ Writes(t, j) /\ StatusOK(t, j)
  BY <1>0, <1>1, <1>2, <1>4 DEF Reads, Writes, StatusOK
<1>6. Good(t, j)
  BY <1>1, <1>2, <1>5, StartsGood DEF j
<1> QED BY <1>1, <1>2, <1>3, <1>6 DEF t, j

\* A status for a command that moves no data.
LEMMA Reports ==
  ASSUME NEW s \in States, s.image # <<>>, Len(s.geometry) >= GeometrySize, NEW b \in Nat,
         NEW t \in States, Latches(s, t), t.phase = "STATUS",
         t.image = s.image, t.geometry = s.geometry, t.command = s.command,
         s.command.op \notin {"read", "write"}
           \/ (~t.status /\ t.sense_code # 0 /\ t.sense_sector = s.command.sector
               /\ s.command.op = "read")
  PROVE  Good(t, Begun(s, b))
<1> DEFINE j == Begun(s, b)
<1>1. j.op = s.command.op /\ j.moved = 0 /\ j.sector = s.command.sector /\ j.sector \in Nat
  BY BegunIs DEF Jobs
<1>2. 0 \div SectorSize = 0
  BY Sizes
<1> HIDE DEF j
<1>3. Reads(t, j) /\ Writes(t, j)
  BY DEF Reads, Writes
<1>4. StatusOK(t, j)
  <2>1. CASE s.command.op \notin {"read", "write"}
    BY <1>1, <2>1 DEF StatusOK
  <2>2. CASE ~t.status /\ t.sense_code # 0 /\ t.sense_sector = s.command.sector /\ s.command.op = "read"
    <3>1. j.sector + 0 - 0 = j.sector
      BY <1>1
    <3> QED BY <1>1, <1>2, <2>2, <3>1 DEF StatusOK
  <2> QED BY <2>1, <2>2
<1> QED BY <1>3, <1>4, StartsGood DEF j

\* What a command begins with: the state it leaves serves it.
Starts(s, t, b) ==
  /\ t \in States /\ Latches(s, t) /\ t.command = s.command /\ t.image = s.image
  /\ t.phase \in {"STATUS", "SCSI_READ", "SCSI_WRITE"}
  /\ Good(t, Begun(s, b))

\* A READ begins with its first sector in the buffer, or fails with its sense.
LEMMA StartsRead ==
  ASSUME NEW s \in States, s.image # <<>>, Len(s.geometry) >= GeometrySize, NEW b \in Nat,
         s.command.op = "read",
         NEW r \in read_sector([s EXCEPT !.blocks = Blocks(s.command)], s.command.sector), NEW t,
         t = IF r.ok THEN read_phase([r.s EXCEPT !.next_sector = s.command.sector + 1], SectorSize)
             ELSE Failed(r.s, s.command.sector)
  PROVE  Starts(s, t, b)
<1> DEFINE sector == s.command.sector
           n == Blocks(s.command)
           u == [s EXCEPT !.blocks = n]
           j == Begun(s, b)
<1>1. /\ j \in Jobs /\ j.op = "read" /\ j.sector = sector /\ j.moved = 0
      /\ j.before = s.image /\ j.blocks = n /\ n \in Nat \ {0} /\ sector \in Nat
  BY BegunIs DEF Jobs
<1> HIDE DEF n, j, sector
<1>2. /\ u \in States /\ u.blocks = n /\ u.image = s.image /\ u.command = s.command
      /\ u.geometry = s.geometry /\ u.irq_armed = s.irq_armed /\ u.irq_pending = s.irq_pending
      /\ u.request = s.request /\ u.initialised = s.initialised
  BY <1>1 DEF States
<1>3. r \in read_sector(u, sector)
  BY DEF u, n, sector
<1> HIDE DEF u
<1>4. /\ r.s \in States /\ Apart(u, r.s) /\ r.s.image = s.image
      /\ r.ok => r.s.buffer = SectorBytes(s.image, sector)
  BY <1>1, <1>2, <1>3, ReadsSector
<1>5. /\ r.s.command = s.command /\ r.s.geometry = s.geometry /\ r.s.blocks = n
      /\ r.s.irq_armed = s.irq_armed /\ r.s.irq_pending = s.irq_pending /\ r.s.request = s.request /\ r.s.initialised = s.initialised
  BY <1>2, <1>4 DEF Apart
<1> DEFINE x == r.s
<1> HIDE DEF x
<1>6. CASE r.ok
  <2> DEFINE v == [x EXCEPT !.next_sector = sector + 1]
  <2>1. /\ v \in States /\ v.next_sector = sector + 1 /\ v.command = x.command /\ v.image = x.image
        /\ v.geometry = x.geometry /\ v.blocks = x.blocks /\ v.buffer = x.buffer
        /\ v.irq_armed = x.irq_armed /\ v.irq_pending = x.irq_pending /\ v.request = x.request /\ v.initialised = x.initialised
    <3>1. sector + 1 \in Nat /\ x \in States
      BY <1>1, <1>4 DEF x
    <3> QED BY <3>1 DEF States
  <2>2. t = read_phase(v, SectorSize)
    BY <1>6 DEF v, x, sector
  <2> HIDE DEF v
  <2>3. /\ t \in States /\ Kept(v, t) /\ Latches(v, t) /\ t.phase = "SCSI_READ" /\ t.status
        /\ t.offset = 0 /\ t.length = SectorSize
    <3> DEFINE z == read_phase(v, SectorSize)
    <3>1. /\ z \in States /\ Kept(v, z) /\ Latches(v, z) /\ z.phase = "SCSI_READ" /\ z.status
          /\ z.offset = 0 /\ z.length = SectorSize
      BY <2>1, EntersRead, Sizes
    <3> HIDE DEF z
    <3> QED BY <2>2, <3>1 DEF z
  <2>4. Latches(s, t)
    BY <1>5, <2>1, <2>3 DEF Latches, Latch, x
  <2>5. /\ t.command = s.command /\ t.image = s.image /\ t.geometry = s.geometry /\ t.blocks = n
        /\ t.next_sector = sector + 1 /\ t.buffer = SectorBytes(s.image, sector)
    BY <1>4, <1>5, <1>6, <2>1, <2>3 DEF Kept, x
  <2>6. Done(t, j) = 0 /\ 0 * SectorSize = 0 /\ sector + 0 = sector
    BY <1>1, <2>5, Sizes, SMTT(30) DEF Done
  <2>7. Reads(t, j)
    <3>1. n >= 1 /\ n <= n /\ SectorSize >= 1 /\ 0 + SectorSize = SectorSize /\ 0 + 0 = 0
          /\ sector + 0 + 1 = sector + 1 /\ SectorSize <= SectorSize
      BY <1>1, Sizes, SMTT(30)
    <3> QED BY <1>1, <2>3, <2>5, <2>6, <3>1 DEF Reads
  <2>8. Writes(t, j) /\ StatusOK(t, j)
    BY <2>3 DEF Writes, StatusOK
  <2>9. Good(t, j)
    BY <2>3, <2>5, <2>7, <2>8, StartsGood DEF j
  <2> QED BY <2>3, <2>4, <2>5, <2>9 DEF Starts, j
<1>7. CASE ~r.ok
  <2>1. t = Failed(x, sector) /\ x \in States
    BY <1>4, <1>7 DEF x, sector
  <2>2. /\ t \in States /\ Latches(x, t) /\ t.phase = "STATUS" /\ ~t.status
        /\ t.sense_code # 0 /\ t.sense_sector = sector
        /\ t.image = x.image /\ t.geometry = x.geometry /\ t.command = x.command
    BY <1>1, <2>1, Fails, SMTT(30)
  <2>3. Latches(s, t)
    BY <1>5, <2>2 DEF Latches, Latch, x
  <2>4. t.image = s.image /\ t.geometry = s.geometry /\ t.command = s.command
    BY <1>4, <1>5, <2>2 DEF x
  <2>5. Good(t, j)
    <3>1. t.sense_sector = s.command.sector
      BY <2>2 DEF sector
    <3> QED BY <2>2, <2>3, <2>4, <3>1, Reports DEF j
  <2> QED BY <2>2, <2>3, <2>4, <2>5 DEF Starts, j
<1> QED BY <1>6, <1>7

\* A WRITE and a MODE SELECT begin with an empty buffer.
LEMMA StartsWrite ==
  ASSUME NEW s \in States, s.image # <<>>, Len(s.geometry) >= GeometrySize, NEW b \in Nat, NEW t,
         \/ /\ s.command.op = "write"
            /\ t = [write_phase([s EXCEPT !.blocks = Blocks(s.command),
                                          !.next_sector = s.command.sector], SectorSize)
                      EXCEPT !.status = TRUE]
         \/ /\ s.command.op = "mode_select"
            /\ t = write_phase([s EXCEPT !.blocks = 1], s.command.count)
  PROVE  Starts(s, t, b)
<1> DEFINE sector == s.command.sector
           count == s.command.count
           n == Blocks(s.command)
           j == Begun(s, b)
<1>1. /\ j \in Jobs /\ j.op = s.command.op /\ j.sector = sector /\ j.moved = 0
      /\ j.before = s.image /\ (s.command.op = "write" => j.blocks = n) /\ n \in Nat \ {0}
      /\ sector \in Nat /\ ~j.torn
  BY BegunIs DEF Jobs
<1>2. count \in 0..(WholeCount - 1)
  BY DEF States, Commands
<1> HIDE DEF n, j, sector, count
<1>3. CASE s.command.op = "write"
  <2> DEFINE u == [s EXCEPT !.blocks = n, !.next_sector = sector]
             w == write_phase(u, SectorSize)
  <2>1. /\ u \in States /\ u.blocks = n /\ u.image = s.image /\ u.command = s.command
        /\ u.next_sector = sector
        /\ u.geometry = s.geometry /\ u.irq_armed = s.irq_armed /\ u.irq_pending = s.irq_pending
        /\ u.request = s.request /\ u.initialised = s.initialised
    BY <1>1 DEF States
  <2>2. t = [w EXCEPT !.status = TRUE]
    BY <1>3 DEF w, u, n, sector
  <2> HIDE DEF u
  <2>3. /\ w \in States /\ Kept(u, w) /\ Latches(u, w) /\ w.phase = "SCSI_WRITE"
        /\ w.offset = 0 /\ w.length = SectorSize
    BY <2>1, EntersWrite, Sizes
  <2> HIDE DEF w
  <2>4. /\ t \in States /\ Kept(w, t) /\ t.phase = "SCSI_WRITE" /\ t.status
        /\ t.offset = 0 /\ t.length = SectorSize
        /\ t.irq_armed = w.irq_armed /\ t.irq_pending = w.irq_pending /\ t.request = w.request /\ t.initialised = w.initialised
    BY <2>2, <2>3 DEF States, Kept
  <2>5. Latches(s, t)
    BY <2>1, <2>3, <2>4 DEF Latches, Latch
  <2>6. /\ t.command = s.command /\ t.image = s.image /\ t.geometry = s.geometry /\ t.blocks = n
        /\ t.next_sector = sector
    BY <2>1, <2>3, <2>4 DEF Kept
  <2>7. Done(t, j) = 0 /\ 0 * SectorSize = 0 /\ sector + 0 = sector
    BY <1>1, <1>3, <2>6, Sizes DEF Done
  <2>8. Became(t, j, 0)
    <3>1. \A p : p \notin 1..0
      OBVIOUS
    <3> QED BY <1>1, <2>6, <3>1 DEF Became
  <2>9. Writes(t, j)
    <3>1. n >= 1 /\ n <= n /\ SectorSize >= 1 /\ 0 + SectorSize = SectorSize /\ 0 + 0 = 0
      BY <1>1, Sizes
    <3>2. \A i \in 1..0 : t.buffer[i] = 0 + i
      OBVIOUS
    <3> QED BY <1>1, <1>3, <2>4, <2>6, <2>7, <2>8, <3>1, <3>2 DEF Writes
  <2>10. Reads(t, j) /\ StatusOK(t, j)
    BY <2>4 DEF Reads, StatusOK
  <2>11. Good(t, j)
    BY <2>4, <2>6, <2>9, <2>10, StartsGood DEF j
  <2> QED BY <2>4, <2>5, <2>6, <2>11 DEF Starts, j
<1>4. CASE s.command.op = "mode_select"
  <2> DEFINE u == [s EXCEPT !.blocks = 1]
  <2>1. /\ u \in States /\ u.blocks = 1 /\ u.image = s.image /\ u.command = s.command
        /\ u.geometry = s.geometry /\ u.irq_armed = s.irq_armed /\ u.irq_pending = s.irq_pending
        /\ u.request = s.request /\ u.initialised = s.initialised
    BY <1>1 DEF States
  <2>2. t = write_phase(u, count)
    BY <1>4 DEF u, count
  <2> HIDE DEF u
  <2>3. count \in Nat /\ count < Word
    BY <1>2, Sizes
  <2>4. /\ t \in States /\ Kept(u, t) /\ Latches(u, t) /\ t.phase = "SCSI_WRITE" /\ t.length = count
    BY <2>1, <2>2, <2>3, EntersWrite
  <2>5. Latches(s, t)
    BY <2>1, <2>4 DEF Latches, Latch
  <2>6. t.command = s.command /\ t.image = s.image /\ t.geometry = s.geometry /\ t.blocks = 1
    BY <2>1, <2>4 DEF Kept
  <2>7. Writes(t, j) /\ Reads(t, j) /\ StatusOK(t, j)
    BY <1>1, <1>4, <2>3, <2>4, <2>6 DEF Writes, Reads, StatusOK
  <2>8. Good(t, j)
    BY <2>4, <2>6, <2>7, StartsGood DEF j
  <2> QED BY <2>4, <2>5, <2>6, <2>8 DEF Starts, j
<1> QED BY <1>3, <1>4

\* Every command leaves a state that serves it.
LEMMA ExecuteStarts ==
  ASSUME NEW s \in States, s.image # <<>>, Len(s.geometry) >= GeometrySize, NEW b \in Nat,
         NEW t \in execute_command(s)
  PROVE  Starts(s, t, b)
<1> DEFINE op == s.command.op
           sector == s.command.sector
           count == s.command.count
           One == [s EXCEPT !.blocks = 1]
<1>0. s.command \in Commands /\ sector \in Nat /\ count \in 0..(WholeCount - 1)
  BY DEF States, Commands
<1>1. /\ One \in States /\ One.image = s.image /\ One.geometry = s.geometry /\ One.command = s.command
      /\ One.blocks = 1 /\ One.irq_armed = s.irq_armed /\ One.irq_pending = s.irq_pending
      /\ One.request = s.request /\ One.initialised = s.initialised
  BY DEF States
<1>2. ASSUME NEW good \in BOOLEAN, t = status_phase(s, good), op \notin {"read", "write"}
      PROVE  Starts(s, t, b)
  <2>1. t \in States /\ Kept(s, t) /\ Latches(s, t) /\ t.phase = "STATUS"
    BY <1>2, EntersStatus
  <2>2. t.image = s.image /\ t.geometry = s.geometry /\ t.command = s.command
    BY <2>1 DEF Kept
  <2>3. Good(t, Begun(s, b))
    BY <1>2, <2>1, <2>2, Reports
  <2> QED BY <2>1, <2>2, <2>3 DEF Starts
<1>3. ASSUME NEW v \in States, v.image = s.image, v.geometry = s.geometry, v.command = s.command,
             v.blocks = 1, v.irq_armed = s.irq_armed, v.irq_pending = s.irq_pending,
             v.request = s.request, v.initialised = s.initialised, NEW n \in 1..SectorSize, t = read_phase(v, n),
             op \notin {"read", "write"}
      PROVE  Starts(s, t, b)
  BY <1>3, Answers DEF Starts
<1>4. ASSUME NEW values, \A i \in DOMAIN values : values[i] \in Int,
             NEW n \in 1..SectorSize, t = read_phase(Filled(One, values), n), op \notin {"read", "write"}
      PROVE  Starts(s, t, b)
  <2> DEFINE v == Filled(One, values)
  <2> HIDE DEF One
  <2>1. v \in States /\ Apart(One, v) /\ v.image = One.image
    BY <1>1, <1>4, Fills
  <2>2. t = read_phase(v, n)
    BY <1>4
  <2> HIDE DEF v
  <2> QED BY <1>1, <1>3, <1>4, <2>1, <2>2 DEF Apart
<1>5. CASE op = "test" \/ op = "start"
  <2>1. Mounted(s) \in BOOLEAN
    BY DEF Mounted
  <2>2. t = status_phase(s, Mounted(s)) \/ t = status_phase(s, TRUE)
    BY <1>5 DEF execute_command
  <2> QED BY <1>2, <1>5, <2>1, <2>2
<1>6. CASE op = "sense"
  <2> DEFINE n == Upto(OrElse(count, SenseSize), SectorSize)
             blank == [i \in 1..n |-> 0]
             u == Filled(One, blank)
             v == Filled(u, <<s.sense_code, s.sense_sector>>)
             w == [v EXCEPT !.sense_code = 0, !.sense_sector = 0]
  <2>1. t = read_phase(w, n)
    BY <1>6 DEF execute_command
  <2>2. n \in 1..SectorSize
    BY <1>0, Sizes DEF Upto, OrElse
  <2>3. \A i \in DOMAIN blank : blank[i] \in Int
    OBVIOUS
  <2> HIDE DEF n, blank, One
  <2>4. u \in States /\ Apart(One, u) /\ u.image = One.image
    BY <1>1, <2>3, Fills
  <2> HIDE DEF u
  <2>5. \A i \in DOMAIN <<s.sense_code, s.sense_sector>> : <<s.sense_code, s.sense_sector>>[i] \in Int
    BY DEF States
  <2>6. v \in States /\ Apart(u, v) /\ v.image = u.image
    BY <2>4, <2>5, Fills
  <2> HIDE DEF v
  <2>7. w \in States /\ Apart(v, w) /\ w.image = v.image
    BY <2>6 DEF States, Apart
  <2> HIDE DEF w
  <2>8. /\ w.image = s.image /\ w.geometry = s.geometry /\ w.command = s.command
        /\ w.blocks = 1 /\ w.irq_armed = s.irq_armed /\ w.irq_pending = s.irq_pending
        /\ w.request = s.request /\ w.initialised = s.initialised
    BY <1>1, <2>4, <2>6, <2>7 DEF Apart
  <2> QED BY <1>3, <1>6, <2>1, <2>2, <2>7, <2>8
<1>7. CASE op = "translate"
  <2>1. t = read_phase(Filled(One, <<sector, 0>>), SenseSize)
    BY <1>7 DEF execute_command
  <2>2. \A i \in DOMAIN <<sector, 0>> : <<sector, 0>>[i] \in Int
    BY <1>0
  <2>3. SenseSize \in 1..SectorSize
    BY Sizes
  <2> QED BY <1>4, <1>7, <2>1, <2>2, <2>3
<1>8. CASE op = "mode_sense"
  <2> DEFINE n == Upto(OrElse(count, ModeSize), GeometrySize)
             q == s.geometry
             part == SubSeq(q, 1, n)
  <2>1. t = read_phase(Filled(One, part), n)
    BY <1>8 DEF execute_command
  <2>2. n \in 1..SectorSize /\ n <= GeometrySize
    BY <1>0, Sizes DEF Upto, OrElse
  <2>3. q \in Seq(Int) /\ Len(q) \in Nat /\ GeometrySize <= Len(q)
    BY DEF States
  <2> HIDE DEF n, q
  <2>4. \A i \in 1..n : q[i] \in Int
    <3>1. \A i \in 1..n : i \in 1..Len(q)
      BY <2>2, <2>3, Sizes
    <3> QED BY <2>3, <3>1, ElementOfSeq
  <2>5. n \in Int /\ 1 \in Int
    BY <2>2
  <2>6. part \in Seq(Int)
    BY <2>4, <2>5, SubSeqProperties
  <2> HIDE DEF part
  <2>7. \A i \in DOMAIN part : part[i] \in Int
    BY <2>6
  <2> QED BY <1>4, <1>8, <2>1, <2>2, <2>7
<1>9. CASE op = "mode_select"
  <2>1. t = write_phase(One, count)
    BY <1>9 DEF execute_command
  <2> QED BY <1>9, <2>1, StartsWrite
<1>10. CASE op = "verify"
  <2>1. t = status_phase(s, TRUE) \/ t = Failed(s, sector)
    BY <1>10 DEF execute_command
  <2>2. CASE t = Failed(s, sector)
    <3>1. /\ t \in States /\ Latches(s, t) /\ t.phase = "STATUS"
          /\ t.image = s.image /\ t.geometry = s.geometry /\ t.command = s.command
      BY <1>0, <2>2, Fails
    <3>2. Good(t, Begun(s, b))
      BY <1>10, <3>1, Reports
    <3> QED BY <3>1, <3>2 DEF Starts
  <2> QED BY <1>2, <1>10, <2>1, <2>2
<1>11. CASE op = "read"
  <2>1. \E r \in read_sector([s EXCEPT !.blocks = Blocks(s.command)], s.command.sector) :
          t = IF r.ok THEN read_phase([r.s EXCEPT !.next_sector = s.command.sector + 1], SectorSize)
              ELSE Failed(r.s, s.command.sector)
    BY <1>11 DEF execute_command
  <2> QED BY <1>11, <2>1, StartsRead
<1>12. CASE op = "write"
  <2>1. t = [write_phase([s EXCEPT !.blocks = Blocks(s.command),
                                   !.next_sector = s.command.sector], SectorSize)
               EXCEPT !.status = TRUE]
    BY <1>12 DEF execute_command
  <2> QED BY <1>12, <2>1, StartsWrite
<1>13. CASE op \notin {"test", "start", "sense", "translate", "mode_sense", "mode_select", "verify",
                       "read", "write"}
  <2>1. t = status_phase(s, FALSE)
    BY <1>13 DEF execute_command
  <2> QED BY <1>2, <1>13, <2>1
<1> QED BY <1>5, <1>6, <1>7, <1>8, <1>9, <1>10, <1>11, <1>12, <1>13

-----------------------------------------------------------------------------
(* A byte read.                                                             *)

\* A command that does not write leaves the image as it found it.
LEMMA NotWritten ==
  ASSUME NEW s, NEW j, j.op # "write", j.op # "none" => s.image = j.before, j.sector \in Nat
  PROVE  WriteOK(s, j)
<1>1. 0 * SectorSize = 0
  BY Sizes
<1>2. \A p \in DOMAIN s.image : p - j.sector * SectorSize \notin 1..(0 * SectorSize)
  <2>1. \A p : p \notin 1..0
    OBVIOUS
  <2> QED BY <1>1, <2>1
<1> QED BY <1>2 DEF WriteOK

\* The account of one more byte read.
More(s, j) == [j EXCEPT !.moved = @ + 1, !.read = s.buffer[s.offset + 1]]

\* The byte is the next one of the image.
LEMMA ReadsNext ==
  ASSUME NEW s, NEW j, Good(s, j), s.phase = "SCSI_READ"
  PROVE  LET k == More(s, j) IN
         /\ k \in Jobs /\ k.op = j.op /\ k.sector = j.sector /\ k.blocks = j.blocks
         /\ k.before = j.before /\ k.moved = j.moved + 1 /\ s.image # <<>>
         /\ ReadOK(s, k) /\ WriteOK(s, k)
<1> DEFINE k == More(s, j)
           o == s.offset + 1
           D == Done(s, j)
           at == j.sector * SectorSize + (j.moved + 1)
<1>0. /\ s \in States /\ j \in Jobs /\ s.offset \in Nat /\ s.length \in Nat /\ j.moved \in Nat
      /\ j.sector \in Nat /\ s.blocks \in Nat /\ j.blocks \in Nat /\ s.image # <<>> /\ s.buffer \in Buffers
      /\ Reads(s, j)
  BY DEF Good, States, Jobs
<1>1. o \in 1..SectorSize
  BY <1>0, Sizes DEF Reads
<1>2. s.buffer[o] \in Int
  BY <1>0, <1>1 DEF Buffers
<1> HIDE DEF o
<1>3. /\ k \in Jobs /\ k.op = j.op /\ k.sector = j.sector /\ k.blocks = j.blocks
      /\ k.before = j.before /\ k.moved = j.moved + 1 /\ k.read = s.buffer[o]
  <2> DEFINE x == s.buffer[o]
             m == j.moved + 1
  <2>1. x \in Int /\ m \in Nat
    BY <1>0, <1>2
  <2>2. k = [j EXCEPT !.moved = m, !.read = x]
    BY DEF More, o
  <2> HIDE DEF x, m
  <2>3. /\ k \in Jobs /\ k.op = j.op /\ k.sector = j.sector /\ k.blocks = j.blocks
        /\ k.before = j.before /\ k.moved = m /\ k.read = x
    BY <1>0, <2>1, <2>2 DEF Jobs
  <2> QED BY <2>3 DEF m, x
<1> HIDE DEF k
<1>4. ReadOK(s, k)
  <2> SUFFICES ASSUME k.op = "read"
               PROVE  k.read = IF at \in DOMAIN s.image THEN s.image[at] ELSE 0
    BY <1>3 DEF ReadOK
  <2>1. /\ s.blocks >= 1 /\ s.blocks <= j.blocks
        /\ j.moved = D * SectorSize + s.offset
        /\ s.buffer = SectorBytes(s.image, j.sector + D)
    BY <1>0, <1>3 DEF Reads
  <2>2. D \in Nat
    BY <1>0, <2>1 DEF Done
  <2> HIDE DEF D
  <2>3. (j.sector + D) * SectorSize + o = at
    <3>1. (j.sector + D) * SectorSize = j.sector * SectorSize + D * SectorSize
      BY <1>0, <2>2, Sizes
    <3>2. j.sector * SectorSize \in Nat /\ D * SectorSize \in Nat
      BY <1>0, <2>2, Sizes
    <3> DEFINE x == j.sector * SectorSize
               y == D * SectorSize
               z == (j.sector + D) * SectorSize
    <3> HIDE DEF x, y, z
    <3>3. x \in Nat /\ y \in Nat /\ z = x + y /\ j.moved = y + s.offset
      BY <2>1, <3>1, <3>2 DEF x, y, z
    <3>4. z + (s.offset + 1) = x + (j.moved + 1)
      BY <1>0, <3>3
    <3> QED BY <3>4 DEF o, x, z
  <2> HIDE DEF at
  <2>4. SectorBytes(s.image, j.sector + D)[o]
          = IF (j.sector + D) * SectorSize + o \in DOMAIN s.image
            THEN s.image[(j.sector + D) * SectorSize + o] ELSE 0
    BY <1>1 DEF SectorBytes
  <2> QED BY <1>3, <2>1, <2>3, <2>4
<1>5. WriteOK(s, k)
  <2>1. j.op # "write" /\ (j.op # "none" => s.image = j.before)
    BY <1>0 DEF Good, Reads
  <2> QED BY <1>0, <1>3, <2>1, NotWritten
<1> QED BY <1>0, <1>3, <1>4, <1>5 DEF k

\* The rest of Good after a byte was read.
LEMMA ReadGood ==
  ASSUME NEW s, NEW j, Good(s, j), s.phase = "SCSI_READ", NEW t \in States, t.image = s.image,
         t.geometry = s.geometry, t.phase \in {"SCSI_READ", "STATUS"},
         Reads(t, More(s, j)), StatusOK(t, More(s, j))
  PROVE  Good(t, More(s, j))
<1> DEFINE k == More(s, j)
<1>1. /\ k \in Jobs /\ k.op = j.op /\ k.before = j.before /\ k.sector = j.sector /\ s.image # <<>>
      /\ ReadOK(s, k) /\ WriteOK(s, k)
  BY ReadsNext
<1>2. j.op # "write" /\ (j.op # "none" => s.image = j.before) /\ j.sector \in Nat
  BY DEF Good, Reads, Jobs
<1> HIDE DEF k
<1>3. ReadOK(t, k)
  BY <1>1 DEF ReadOK
<1>4. WriteOK(t, k)
  BY <1>1, <1>2, NotWritten
<1>5. Writes(t, k)
  BY DEF Writes
<1> QED BY <1>1, <1>2, <1>3, <1>4, <1>5 DEF Good, k

\* Counting in blocks.
LEMMA InBlocks ==
  ASSUME NEW d \in Nat
  PROVE  /\ d * SectorSize \in Nat /\ (d + 1) * SectorSize = d * SectorSize + SectorSize
         /\ (d * SectorSize) \div SectorSize = d
         /\ \A o \in 0..(SectorSize - 1) : (d * SectorSize + o) \div SectorSize = d
         /\ d >= 1 => d * SectorSize > 0
<1>1. SectorSize \in Nat /\ SectorSize > 0
  BY Sizes
<1>2. d * SectorSize \in Nat /\ (d * SectorSize) \div SectorSize = d
  BY <1>1
<1>3. (d + 1) * SectorSize = d * SectorSize + SectorSize
  BY <1>1
<1>4. ASSUME NEW o \in 0..(SectorSize - 1) PROVE (d * SectorSize + o) \div SectorSize = d
  BY <1>1
<1>5. d >= 1 => d * SectorSize > 0
  BY <1>1
<1> QED BY <1>2, <1>3, <1>4, <1>5

\* One byte of a read: in a block, at its end with another block to come, or the
\* last.
LEMMA ReadsByte ==
  ASSUME NEW s, NEW j, Good(s, j), s.phase = "SCSI_READ", NEW t,
         t \in IF Counted(s).length = 0 THEN BlockRead(Counted(s)) ELSE {Counted(s)}
  PROVE  /\ t \in States /\ Latches(s, t) /\ t.phase \in {"SCSI_READ", "STATUS"}
         /\ Good(t, More(s, j))
<1> DEFINE u == Counted(s)
           k == More(s, j)
           D == Done(s, j)
<1>0. /\ s \in States /\ j \in Jobs /\ s.offset \in Nat /\ s.length \in Nat /\ j.moved \in Nat
      /\ j.sector \in Nat /\ s.blocks \in Nat /\ j.blocks \in Nat /\ s.image # <<>>
      /\ Reads(s, j) /\ s.next_sector \in Nat
  BY DEF Good, States, Jobs
<1>1. s.length >= 1 /\ s.length < Word /\ s.offset + s.length <= SectorSize
      /\ j.op = s.command.op /\ j.op # "write"
  BY <1>0, Sizes DEF Reads
<1>2. /\ u \in States /\ Kept(s, u) /\ Latches(s, u) /\ u.phase = s.phase /\ u.status = s.status
      /\ u.offset = s.offset + 1 /\ u.length = s.length - 1
  BY <1>0, <1>1, Counts1
<1>3. /\ k \in Jobs /\ k.op = j.op /\ k.sector = j.sector /\ k.blocks = j.blocks
      /\ k.moved = j.moved + 1
  BY ReadsNext
<1>4. ASSUME j.op = "read"
      PROVE  /\ s.blocks >= 1 /\ s.blocks <= j.blocks /\ s.offset + s.length = SectorSize
             /\ j.moved = D * SectorSize + s.offset /\ D \in Nat
             /\ s.next_sector = j.sector + D + 1
             /\ s.buffer = SectorBytes(s.image, j.sector + D)
  BY <1>0, <1>4 DEF Reads, Done
<1>5. t \in IF u.length = 0 THEN BlockRead(u) ELSE {u}
  OBVIOUS
<1> HIDE DEF u, k
<1>6. CASE u.length # 0
  <2>1. t = u
    BY <1>5, <1>6
  <2>2. /\ t.image = s.image /\ t.geometry = s.geometry /\ t.command = s.command /\ t.blocks = s.blocks
        /\ t.next_sector = s.next_sector /\ t.buffer = s.buffer
    BY <1>2, <2>1 DEF Kept
  <2>3. t.length >= 1 /\ t.offset + t.length = s.offset + s.length
    BY <1>0, <1>1, <1>2, <1>6, <2>1, SMTT(30)
  <2>4. Done(t, k) = D
    BY <1>3, <2>2 DEF Done
  <2>5. Reads(t, k)
    <3>1. CASE j.op # "read"
      BY <1>0, <1>1, <1>2, <1>3, <2>1, <2>2, <2>3, <3>1 DEF Reads
    <3>2. CASE j.op = "read"
      <4>1. k.moved = D * SectorSize + t.offset
        <5> DEFINE x == D * SectorSize
        <5>1. x \in Nat /\ j.moved = x + s.offset
          BY <1>4, <3>2, InBlocks
        <5> HIDE DEF x
        <5>2. j.moved + 1 = x + (s.offset + 1)
          BY <1>0, <5>1
        <5> QED BY <1>2, <1>3, <2>1, <5>2 DEF x
      <4> QED BY <1>1, <1>2, <1>3, <1>4, <2>1, <2>2, <2>3, <2>4, <3>2, <4>1 DEF Reads
    <3> QED BY <3>1, <3>2
  <2>6. StatusOK(t, k)
    BY <1>2, <2>1 DEF StatusOK
  <2>7. Good(t, k)
    BY <1>2, <2>1, <2>2, <2>5, <2>6, ReadGood DEF k
  <2> QED BY <1>2, <2>1, <2>7 DEF k
<1>7. CASE u.length = 0 /\ s.blocks = 1
  <2> DEFINE v == [u EXCEPT !.blocks = 0]
  <2>1. t = status_phase(v, TRUE)
    BY <1>2, <1>5, <1>7 DEF BlockRead, Kept
  <2>2. /\ v \in States /\ v.image = u.image /\ v.geometry = u.geometry
        /\ v.irq_armed = u.irq_armed /\ v.irq_pending = u.irq_pending /\ v.request = u.request /\ v.initialised = u.initialised
    BY <1>2 DEF States
  <2> HIDE DEF v
  <2>3. t \in States /\ Kept(v, t) /\ Latches(v, t) /\ t.phase = "STATUS" /\ t.status = TRUE
    BY <2>1, <2>2, EntersStatus
  <2>4. Latches(s, t)
    BY <1>2, <2>2, <2>3 DEF Latches, Latch
  <2>5. t.image = s.image /\ t.geometry = s.geometry
    BY <1>2, <2>2, <2>3 DEF Kept
  <2>6. StatusOK(t, k)
    <3>1. CASE j.op # "read"
      BY <1>1, <1>3, <3>1 DEF StatusOK
    <3>2. CASE j.op = "read"
      <4>1. s.offset + 1 = SectorSize /\ D \in Nat /\ j.blocks = D + 1
        BY <1>0, <1>2, <1>4, <1>7, <3>2, Sizes, SMTT(30) DEF Done
      <4>2. (D + 1) * SectorSize = D * SectorSize + SectorSize /\ D * SectorSize \in Nat
        BY <4>1, InBlocks
      <4>3. k.moved = j.blocks * SectorSize
        <5> DEFINE x == D * SectorSize
        <5>1. x \in Nat /\ j.moved = x + s.offset
          BY <1>4, <3>2, <4>2
        <5> HIDE DEF x
        <5>2. j.moved + 1 = x + SectorSize
          BY <1>0, <4>1, <5>1
        <5> QED BY <1>3, <4>1, <4>2, <5>2 DEF x
      <4> QED BY <1>3, <2>3, <4>3 DEF StatusOK
    <3> QED BY <3>1, <3>2
  <2>7. Reads(t, k)
    BY <2>3 DEF Reads
  <2>8. Good(t, k)
    BY <2>3, <2>5, <2>6, <2>7, ReadGood DEF k
  <2> QED BY <2>3, <2>4, <2>8 DEF k
<1>8. CASE u.length = 0 /\ s.blocks # 1
  <2>0. j.op = "read" /\ u.blocks = s.blocks /\ u.next_sector = s.next_sector
    BY <1>0, <1>2, <1>8 DEF Reads, Kept
  <2> DEFINE n == s.blocks - 1
             m == s.next_sector + 1
             v == [u EXCEPT !.blocks = n, !.next_sector = m]
  <2>1. n \in Nat /\ m \in Nat /\ n >= 1 /\ n <= j.blocks /\ j.blocks - n = D + 1
    <3>1. s.blocks >= 1 /\ s.blocks <= j.blocks
      BY <1>4, <2>0
    <3> QED BY <1>0, <1>8, <3>1 DEF Done
  <2>2. \E r \in read_sector(v, s.next_sector) :
          t = IF r.ok THEN NextBlock(r.s) ELSE Failed(r.s, s.next_sector)
    BY <1>5, <1>8, <2>0 DEF BlockRead
  <2> HIDE DEF n, m
  <2>3. /\ v \in States /\ v.image = u.image /\ v.geometry = u.geometry /\ v.command = u.command
        /\ v.blocks = n /\ v.next_sector = m /\ v.phase = u.phase
        /\ v.irq_armed = u.irq_armed /\ v.irq_pending = u.irq_pending /\ v.request = u.request /\ v.initialised = u.initialised
    BY <1>2, <2>1 DEF States
  <2> HIDE DEF v
  <2>4. PICK r \in read_sector(v, s.next_sector) :
          t = IF r.ok THEN NextBlock(r.s) ELSE Failed(r.s, s.next_sector)
    BY <2>2
  <2>5. /\ v.image = s.image /\ v.geometry = s.geometry /\ v.command = s.command
        /\ v.image # <<>>
    BY <1>0, <1>2, <2>3 DEF Kept
  <2>6. /\ r.s \in States /\ Apart(v, r.s) /\ r.s.image = s.image
        /\ r.ok => r.s.buffer = SectorBytes(s.image, s.next_sector)
    BY <1>0, <2>3, <2>4, <2>5, ReadsSector
  <2>7. /\ r.s.geometry = s.geometry /\ r.s.command = s.command /\ r.s.blocks = n
        /\ r.s.next_sector = m /\ r.s.phase = "SCSI_READ" /\ r.s.irq_armed = u.irq_armed
        /\ r.s.irq_pending = u.irq_pending /\ r.s.request = u.request /\ r.s.initialised = u.initialised
    BY <1>2, <2>3, <2>5, <2>6 DEF Apart
  <2> DEFINE x == r.s
  <2> HIDE DEF x
  <2>8. /\ D \in Nat /\ s.offset + 1 = SectorSize /\ s.next_sector = j.sector + D + 1
    BY <1>0, <1>2, <1>4, <1>8, <2>0, Sizes
  <2>9. k.moved = (D + 1) * SectorSize
    <3> DEFINE y == D * SectorSize
    <3>1. y \in Nat /\ j.moved = y + s.offset /\ (D + 1) * SectorSize = y + SectorSize
      BY <1>4, <2>0, <2>8, InBlocks
    <3> HIDE DEF y
    <3>2. j.moved + 1 = y + SectorSize
      BY <1>0, <2>8, <3>1
    <3> QED BY <1>3, <3>1, <3>2
  <2>10. CASE r.ok
    <3>1. t = NextBlock(x) /\ x \in States
      BY <2>4, <2>6, <2>10 DEF x
    <3>2. /\ t \in States /\ Kept(x, t) /\ Latches(x, t) /\ t.phase = x.phase
          /\ t.offset = 0 /\ t.length = SectorSize
      BY <3>1, StartsBlock
    <3>3. Latches(s, t)
      BY <1>2, <2>7, <3>2 DEF Latches, Latch, x
    <3>4. /\ t.image = s.image /\ t.geometry = s.geometry /\ t.command = s.command /\ t.blocks = n
          /\ t.next_sector = m /\ t.phase = "SCSI_READ"
          /\ t.buffer = SectorBytes(s.image, s.next_sector)
      BY <2>6, <2>7, <2>10, <3>2 DEF Kept, x
    <3>5. Done(t, k) = D + 1
      BY <1>3, <2>1, <3>4 DEF Done
    <3>6. Reads(t, k)
      <4>1. /\ SectorSize >= 1 /\ 0 + SectorSize = SectorSize /\ SectorSize <= SectorSize
            /\ (D + 1) * SectorSize + 0 = (D + 1) * SectorSize
        BY <2>8, Sizes
      <4>2. j.sector + (D + 1) = s.next_sector /\ m = j.sector + (D + 1) + 1
        BY <1>0, <2>8 DEF m
      <4> QED BY <1>1, <1>3, <2>0, <2>1, <2>9, <3>2, <3>4, <3>5, <4>1, <4>2 DEF Reads
    <3>7. StatusOK(t, k)
      BY <3>4 DEF StatusOK
    <3>8. Good(t, k)
      BY <3>2, <3>4, <3>6, <3>7, ReadGood DEF k
    <3> QED BY <3>2, <3>3, <3>4, <3>8 DEF k
  <2>11. CASE ~r.ok
    <3>1. t = Failed(x, s.next_sector) /\ x \in States
      BY <2>4, <2>6, <2>11 DEF x
    <3>2. /\ t \in States /\ Latches(x, t) /\ t.phase = "STATUS" /\ ~t.status
          /\ t.sense_code # 0 /\ t.sense_sector = s.next_sector
          /\ t.image = x.image /\ t.geometry = x.geometry
      BY <1>0, <3>1, Fails, ZenonT(60)
    <3>3. Latches(s, t)
      BY <1>2, <2>7, <3>2 DEF Latches, Latch, x
    <3>4. t.image = s.image /\ t.geometry = s.geometry
      BY <2>6, <2>7, <3>2 DEF x
    <3>5. StatusOK(t, k)
      <4>1. k.moved \div SectorSize = D + 1
        <5>1. D + 1 \in Nat
          BY <2>8
        <5> HIDE DEF D
        <5> QED BY <2>9, <5>1, InBlocks
      <4>2. s.next_sector = k.sector + (D + 1) - 0
        <5> HIDE DEF D
        <5>1. j.sector \in Nat /\ D \in Nat /\ s.next_sector = j.sector + D + 1
          BY <1>0, <2>8
        <5>2. j.sector + D + 1 = j.sector + (D + 1) - 0
          BY <5>1
        <5> QED BY <1>3, <5>1, <5>2
      <4> HIDE DEF D
      <4> QED BY <1>3, <2>0, <3>2, <4>1, <4>2 DEF StatusOK
    <3>6. Reads(t, k)
      BY <3>2 DEF Reads
    <3>7. Good(t, k)
      BY <3>2, <3>4, <3>5, <3>6, ReadGood DEF k
    <3> QED BY <3>2, <3>3, <3>7 DEF k
  <2> QED BY <2>10, <2>11
<1> QED BY <1>6, <1>7, <1>8

-----------------------------------------------------------------------------
(* A byte written.                                                          *)

\* The account of one more byte written, which left state t.
Moved(j, t) == [j EXCEPT !.moved = @ + 1, !.torn = @ \/ (t.error /\ ~t.status)]

\* The account of a command with one more byte written.
LEMMA MovedIs ==
  ASSUME NEW j \in Jobs, NEW t \in States
  PROVE  LET k == Moved(j, t) IN
         /\ k \in Jobs /\ k.op = j.op /\ k.sector = j.sector /\ k.blocks = j.blocks
         /\ k.before = j.before /\ k.moved = j.moved + 1
         /\ t.status => k.torn = j.torn
         /\ t.error /\ ~t.status => k.torn
<1> DEFINE b == j.torn \/ (t.error /\ ~t.status)
           m == j.moved + 1
<1>1. b \in BOOLEAN /\ (t.status => b = j.torn) /\ (t.error /\ ~t.status => b)
  BY DEF Jobs, States
<1>2. m \in Nat
  BY DEF Jobs
<1>3. Moved(j, t) = [j EXCEPT !.moved = m, !.torn = b]
  BY DEF Moved
<1> HIDE DEF b, m
<1> DEFINE k == [j EXCEPT !.moved = m, !.torn = b]
<1>4. k \in Jobs
  BY <1>1, <1>2 DEF Jobs
<1>5. /\ k.op = j.op /\ k.sector = j.sector /\ k.blocks = j.blocks
      /\ k.before = j.before /\ k.moved = m /\ k.torn = b
  BY DEF Jobs
<1> QED BY <1>1, <1>3, <1>4, <1>5 DEF m

\* A buffer of the right bytes carries the image on.
LEMMA PutBecomes ==
  ASSUME NEW image \in Images, NEW buffer \in Buffers, NEW sector \in Nat, NEW d \in Nat,
         \A i \in 1..SectorSize : buffer[i] = d * SectorSize + i,
         NEW n \in 0..SectorSize, NEW p \in 1..ImageSize
  PROVE  LET from == sector * SectorSize
             after == Put(image, sector + d, buffer, n)
         IN  after[p] = IF p - from \in (d * SectorSize + 1)..(d * SectorSize + n) THEN p - from
                        ELSE image[p]
<1> DEFINE x == sector * SectorSize
           y == d * SectorSize
           z == (sector + d) * SectorSize
           after == Put(image, sector + d, buffer, n)
<1>1. SectorSize \in Nat /\ ImageSize \in Nat
  BY Sizes
<1>2. x \in Nat /\ y \in Nat /\ z = x + y
  BY <1>1
<1>3. DOMAIN image = 1..ImageSize
  BY DEF Images
<1>4. after[p] = IF p - z \in 1..n THEN buffer[p - z] ELSE image[p]
  BY <1>3 DEF Put
<1>5. \A i \in 1..SectorSize : buffer[i] = y + i
  OBVIOUS
<1> HIDE DEF x, y, z, after
<1>6. p - z \in 1..n <=> p - x \in (y + 1)..(y + n)
  BY <1>1, <1>2
<1>7. p - z \in 1..n => p - z \in 1..SectorSize /\ y + (p - z) = p - x
  BY <1>1, <1>2
<1>8. after[p] = IF p - x \in (y + 1)..(y + n) THEN p - x ELSE image[p]
  BY <1>4, <1>5, <1>6, <1>7
<1> QED BY <1>8 DEF x, y, after

\* One byte of an operation that writes no sector.
LEMMA SelectsByte ==
  ASSUME NEW s, NEW j, Good(s, j), s.phase = "SCSI_WRITE", j.op # "write",
         NEW v \in States, Apart(s, v), v.image = s.image,
         NEW t, t \in IF Counted(v).length = 0 THEN BlockWritten(Counted(v)) ELSE {Counted(v)}
  PROVE  /\ t \in States /\ Latches(s, t) /\ t.phase \in {"SCSI_WRITE", "STATUS"}
         /\ Good(t, Moved(j, t))
<1> DEFINE u == Counted(v)
           k == Moved(j, t)
<1>0. s \in States /\ j \in Jobs /\ s.image # <<>> /\ Writes(s, j) /\ j.sector \in Nat
  BY DEF Good, Jobs
<1>1. /\ v.command = s.command /\ v.blocks = s.blocks /\ v.geometry = s.geometry
      /\ v.phase = s.phase /\ v.status = s.status
      /\ v.irq_armed = s.irq_armed /\ v.irq_pending = s.irq_pending /\ v.request = s.request /\ v.initialised = s.initialised
  BY DEF Apart
<1>2. /\ u \in States /\ Kept(v, u) /\ Latches(v, u) /\ u.phase = v.phase /\ u.status = v.status
      /\ u.length < Word
  BY Counts1
<1>3. j.op = s.command.op /\ j.op # "read" /\ s.blocks = 1
  BY <1>0 DEF Writes
<1>4. t \in IF u.length = 0 THEN BlockWritten(u) ELSE {u}
  OBVIOUS
<1> HIDE DEF u
<1>5. /\ u.command = s.command /\ u.blocks = 1 /\ u.image = s.image /\ u.geometry = s.geometry
      /\ Latches(s, u) /\ u.phase = "SCSI_WRITE"
  BY <1>1, <1>2, <1>3 DEF Kept, Latches, Latch
<1>6. ASSUME t \in States, t.image = s.image, t.geometry = s.geometry, Writes(t, k),
             t.phase \in {"SCSI_WRITE", "STATUS"}
      PROVE  Good(t, k)
  <2>1. k \in Jobs /\ k.op = j.op /\ k.before = j.before /\ k.sector = j.sector
    BY <1>0, <1>6, MovedIs
  <2> HIDE DEF k
  <2>2. j.op # "none" => s.image = j.before
    BY DEF Good
  <2>3. WriteOK(t, k)
    BY <1>0, <1>6, <2>1, <2>2, NotWritten
  <2>4. ReadOK(t, k) /\ Reads(t, k) /\ StatusOK(t, k)
    BY <1>3, <1>6, <2>1 DEF ReadOK, Reads, StatusOK
  <2> QED BY <1>0, <1>6, <2>1, <2>2, <2>3, <2>4 DEF Good
<1>7. CASE u.length # 0
  <2>1. t = u
    BY <1>4, <1>7
  <2>2. k.op = j.op
    BY <1>0, <1>2, <2>1, MovedIs
  <2> HIDE DEF k
  <2>3. Writes(t, k)
    BY <1>2, <1>3, <1>5, <2>1, <2>2 DEF Writes
  <2>4. Good(t, k)
    BY <1>2, <1>5, <1>6, <2>1, <2>3 DEF k
  <2> QED BY <1>2, <1>5, <2>1, <2>4 DEF k
<1>8. CASE u.length = 0
  <2> DEFINE x == [u EXCEPT !.blocks = 0]
  <2>1. t = status_phase(x, TRUE)
    BY <1>3, <1>4, <1>5, <1>8 DEF BlockWritten
  <2>2. /\ x \in States /\ x.image = u.image /\ x.geometry = u.geometry
        /\ x.irq_armed = u.irq_armed /\ x.irq_pending = u.irq_pending /\ x.request = u.request /\ x.initialised = u.initialised
    BY <1>2 DEF States
  <2> HIDE DEF x
  <2>3. t \in States /\ Kept(x, t) /\ Latches(x, t) /\ t.phase = "STATUS"
    BY <2>1, <2>2, EntersStatus
  <2>4. Latches(s, t)
    BY <1>5, <2>2, <2>3 DEF Latches, Latch
  <2>5. t.image = s.image /\ t.geometry = s.geometry
    BY <1>5, <2>2, <2>3 DEF Kept
  <2>6. Writes(t, k)
    BY <2>3 DEF Writes
  <2>7. Good(t, k)
    BY <1>6, <2>3, <2>5, <2>6
  <2> QED BY <2>3, <2>4, <2>7
<1> QED BY <1>7, <1>8

\* The image of a WRITE, in the terms of WriteOK.
LEMMA BecameWrites ==
  ASSUME NEW t \in States, NEW k \in Jobs, k.op = "write", t.image \in Images, NEW d \in Nat,
         k.moved \div SectorSize - (IF ~t.status /\ k.moved > 0 THEN 1 ELSE 0) = d,
         \A p \in 1..ImageSize :
           \/ k.torn /\ p - k.sector * SectorSize \in (d * SectorSize + 1)..((d + 1) * SectorSize)
           \/ t.image[p] = IF p - k.sector * SectorSize \in 1..(d * SectorSize)
                           THEN p - k.sector * SectorSize ELSE k.before[p]
  PROVE  WriteOK(t, k)
<1> DEFINE x == k.sector * SectorSize
           y == d * SectorSize
           z == (d + 1) * SectorSize
<1>1. x \in Nat /\ y \in Nat /\ z \in Nat /\ ImageSize \in Nat
  BY Sizes DEF Jobs
<1>2. DOMAIN t.image = 1..ImageSize
  BY DEF Images
<1>3. \A p \in 1..ImageSize :
           \/ k.torn /\ p - x \in (y + 1)..z
           \/ t.image[p] = IF p - x \in 1..y THEN p - x ELSE k.before[p]
  OBVIOUS
<1> HIDE DEF x, y, z
<1>4. \A p \in 1..ImageSize : p - x \in (y + 1)..z => p \in (x + y + 1)..(x + z)
  BY <1>1
<1>5. \A p \in DOMAIN t.image :
           \/ k.torn /\ p \in (x + y + 1)..(x + z)
           \/ t.image[p] = IF p - x \in 1..y THEN p - x ELSE k.before[p]
  BY <1>2, <1>3, <1>4
<1>6. WriteOK(t, k) <=>
        \A p \in DOMAIN t.image :
           \/ k.torn /\ p \in (x + y + 1)..(x + z)
           \/ t.image[p] = IF p - x \in 1..y THEN p - x ELSE k.before[p]
  BY DEF WriteOK, x, y, z
<1> QED BY <1>5, <1>6

\* The rest of Good after a byte of a WRITE.
LEMMA WriteGood ==
  ASSUME NEW s, NEW j, Good(s, j), s.phase = "SCSI_WRITE", j.op = "write", NEW t \in States,
         t.image # <<>>, t.geometry = s.geometry, t.phase \in {"SCSI_WRITE", "STATUS"},
         Writes(t, Moved(j, t)), StatusOK(t, Moved(j, t)), WriteOK(t, Moved(j, t))
  PROVE  Good(t, Moved(j, t))
<1> DEFINE k == Moved(j, t)
<1>1. k \in Jobs /\ k.op = "write"
  BY MovedIs DEF Good
<1> HIDE DEF k
<1>2. ReadOK(t, k) /\ Reads(t, k)
  BY <1>1 DEF ReadOK, Reads
<1>3. s.image # <<>>
  BY DEF Good
<1> QED BY <1>1, <1>2, <1>3 DEF Good, k

\* One byte of a WRITE: in a block, or at its end, where the buffer reaches the
\* file or fails to.
LEMMA WritesByte ==
  ASSUME NEW s, NEW j, Good(s, j), s.phase = "SCSI_WRITE", j.op = "write",
         NEW v \in States, Apart(s, v), v.image = s.image, v.error = s.error,
         v.buffer = [s.buffer EXCEPT ![s.offset + 1] = j.moved + 1],
         NEW t, t \in IF Counted(v).length = 0 THEN BlockWritten(Counted(v)) ELSE {Counted(v)}
  PROVE  /\ t \in States /\ Latches(s, t) /\ t.phase \in {"SCSI_WRITE", "STATUS"}
         /\ Good(t, Moved(j, t))
<1> DEFINE u == Counted(v)
           k == Moved(j, t)
           D == Done(s, j)
           x == j.sector * SectorSize
           y == D * SectorSize
<1>0. /\ s \in States /\ j \in Jobs /\ s.image # <<>> /\ Writes(s, j) /\ j.sector \in Nat /\ j.moved \in Nat
      /\ s.offset \in Nat /\ s.length \in Nat /\ s.blocks \in Nat /\ j.blocks \in Nat
      /\ s.next_sector \in Nat /\ s.buffer \in Buffers
  BY DEF Good, Jobs, States
<1>1. /\ j.op = s.command.op /\ s.blocks >= 1 /\ s.blocks <= j.blocks /\ s.length >= 1
      /\ s.offset + s.length = SectorSize /\ j.moved = y + s.offset
      /\ s.next_sector = j.sector + D
      /\ \A i \in 1..s.offset : s.buffer[i] = y + i
      /\ s.status /\ ~j.torn /\ Became(s, j, y)
  BY <1>0 DEF Writes
<1>2. D \in Nat
  BY <1>0, <1>1 DEF Done
<1>3. y \in Nat /\ x \in Nat
  BY <1>0, <1>2, InBlocks
<1>4. s.image \in Images /\ \A p \in 1..ImageSize :
        s.image[p] = IF p - x \in 1..y THEN p - x ELSE j.before[p]
  BY <1>0, <1>1 DEF States, Became
<1>5. s.length < Word /\ s.offset + 1 \in 1..SectorSize
  BY <1>0, <1>1, Sizes, SMTT(30)
<1> HIDE DEF D, x, y
<1>6. \A i \in 1..(s.offset + 1) : v.buffer[i] = y + i
  <2>1. j.moved + 1 = y + (s.offset + 1)
    BY <1>0, <1>1, <1>3
  <2>2. \A i \in 1..(s.offset + 1) : i \in 1..SectorSize /\ (i # s.offset + 1 => i \in 1..s.offset)
    BY <1>0, <1>5, Sizes
  <2>3. \A i \in 1..SectorSize : v.buffer[i] = IF i = s.offset + 1 THEN j.moved + 1 ELSE s.buffer[i]
    BY <1>0 DEF Buffers
  <2> QED BY <1>1, <2>1, <2>2, <2>3
<1>7. /\ v.command = s.command /\ v.blocks = s.blocks /\ v.geometry = s.geometry
      /\ v.phase = s.phase /\ v.status = s.status /\ v.next_sector = s.next_sector
      /\ v.offset = s.offset /\ v.length = s.length
      /\ v.irq_armed = s.irq_armed /\ v.irq_pending = s.irq_pending /\ v.request = s.request /\ v.initialised = s.initialised
  BY DEF Apart
<1>8. /\ u \in States /\ Kept(v, u) /\ Latches(v, u) /\ u.phase = s.phase /\ u.status = s.status
      /\ u.offset = s.offset + 1 /\ u.length = s.length - 1
  BY <1>1, <1>5, <1>7, Counts1
<1>9. t \in IF u.length = 0 THEN BlockWritten(u) ELSE {u}
  OBVIOUS
<1> HIDE DEF u
<1>10. /\ u.command = s.command /\ u.blocks = s.blocks /\ u.image = s.image /\ u.geometry = s.geometry
       /\ u.buffer = v.buffer /\ u.next_sector = s.next_sector /\ u.error = s.error /\ Latches(s, u)
  BY <1>7, <1>8 DEF Kept, Latches, Latch
<1>11. j.moved + 1 = y + (s.offset + 1)
  BY <1>0, <1>1, <1>3
<1>12. CASE u.length # 0
  <2>1. t = u
    BY <1>9, <1>12
  <2>2. /\ k \in Jobs /\ k.op = j.op /\ k.sector = j.sector /\ k.blocks = j.blocks
        /\ k.before = j.before /\ k.moved = j.moved + 1 /\ ~k.torn
    BY <1>0, <1>1, <1>8, <2>1, MovedIs
  <2> HIDE DEF k
  <2>3. t.length >= 1 /\ t.offset + t.length = SectorSize /\ t.offset \in 0..(SectorSize - 1)
    BY <1>0, <1>1, <1>8, <1>12, <2>1, Sizes, SMTT(30)
  <2>4. Done(t, k) = D
    BY <1>10, <2>1, <2>2 DEF Done, D
  <2>5. Became(t, k, y)
    BY <1>4, <1>10, <2>1, <2>2 DEF Became, x
  <2>6. \A i \in 1..t.offset : t.buffer[i] = y + i
    BY <1>6, <1>8, <1>10, <2>1
  <2>7. Writes(t, k)
    <3>1. k.moved = y + t.offset
      BY <1>8, <1>11, <2>1, <2>2
    <3> QED BY <1>1, <1>8, <1>10, <2>1, <2>2, <2>3, <2>4, <2>5, <2>6, <3>1 DEF Writes, y
  <2>8. k.moved \div SectorSize - (IF ~t.status /\ k.moved > 0 THEN 1 ELSE 0) = D
    <3>1. (y + t.offset) \div SectorSize = D
      BY <1>2, <2>3, InBlocks DEF y
    <3>2. k.moved = y + t.offset
      BY <1>8, <1>11, <2>1, <2>2
    <3>3. D - 0 = D
      BY <1>2
    <3> QED BY <1>1, <1>8, <2>1, <3>1, <3>2, <3>3
  <2>9. WriteOK(t, k)
    <3>1. \A p \in 1..ImageSize :
            t.image[p] = IF p - k.sector * SectorSize \in 1..(D * SectorSize)
                         THEN p - k.sector * SectorSize ELSE k.before[p]
      BY <2>5 DEF Became, y
    <3> QED BY <1>1, <1>2, <1>4, <1>8, <1>10, <2>1, <2>2, <2>8, <3>1, BecameWrites
  <2>10. StatusOK(t, k)
    BY <1>8, <2>1 DEF StatusOK
  <2>11. Good(t, k)
    BY <1>0, <1>8, <1>10, <2>1, <2>7, <2>9, <2>10, WriteGood DEF k
  <2> QED BY <1>8, <1>10, <2>1, <2>11 DEF k
<1>13. CASE u.length = 0
  <2>0. s.offset + 1 = SectorSize
    BY <1>0, <1>1, <1>8, <1>13, Sizes
  <2> DEFINE Then(w) == IF w.blocks = 1 THEN status_phase([w EXCEPT !.blocks = 0], TRUE)
                        ELSE NextBlock([w EXCEPT !.blocks = @ - 1])
             y1 == (D + 1) * SectorSize
  <2>1. PICK w \in write_sector(u, s.next_sector) :
          t = IF w.ok THEN Then([w.s EXCEPT !.next_sector = @ + 1]) ELSE Failed(w.s, s.next_sector)
    <3>1. u.command.op = "write" /\ u.next_sector = s.next_sector
      BY <1>1, <1>10
    <3>2. t \in BlockWritten(u)
      BY <1>9, <1>13
    <3>3. BlockWritten(u) = {IF w.ok THEN Then([w.s EXCEPT !.next_sector = @ + 1])
                             ELSE Failed(w.s, u.next_sector) : w \in write_sector(u, u.next_sector)}
      BY <3>1 DEF BlockWritten
    <3> HIDE DEF Then
    <3> QED BY <3>1, <3>2, <3>3
  <2>2. /\ w.s \in States /\ Apart(u, w.s) /\ w.s.image # <<>>
        /\ w.ok => w.s.image = Put(s.image, s.next_sector, v.buffer, SectorSize) /\ w.s.error = s.error
        /\ ~w.ok => \/ w.s.image = s.image
                    \/ /\ w.s.error
                       /\ \E n \in 0..SectorSize : w.s.image = Put(s.image, s.next_sector, v.buffer, n)
    <3>1. u.image # <<>> /\ w \in write_sector(u, s.next_sector)
      BY <1>0, <1>10, <2>1
    <3>2. /\ w.s \in States /\ Apart(u, w.s) /\ w.s.image # <<>>
          /\ w.ok => w.s.image = Put(u.image, s.next_sector, u.buffer, SectorSize) /\ w.s.error = u.error
          /\ ~w.ok => \/ w.s.image = u.image
                      \/ /\ w.s.error
                         /\ \E n \in 0..SectorSize : w.s.image = Put(u.image, s.next_sector, u.buffer, n)
      BY <1>0, <1>8, <3>1, WritesSector
    <3> QED BY <1>10, <3>2
  <2> DEFINE a == w.s
  <2>3. /\ a.geometry = s.geometry /\ a.command = s.command /\ a.blocks = s.blocks
        /\ a.next_sector = s.next_sector /\ a.phase = s.phase /\ a.status /\ a.irq_armed = u.irq_armed
        /\ a.irq_pending = u.irq_pending /\ a.request = u.request /\ a.initialised = u.initialised
    BY <1>1, <1>8, <1>10, <2>2 DEF Apart
  <2>4. a \in States /\ a.image \in Images
    BY <2>2 DEF States
  <2> HIDE DEF a
  <2>5. y1 = y + SectorSize /\ y1 \in Nat /\ y1 \div SectorSize = D + 1 /\ y1 > 0 /\ j.moved + 1 = y1
        /\ D + 1 \in Nat
    <3>1. D + 1 \in Nat /\ D + 1 >= 1
      BY <1>2
    <3>2. y1 \in Nat /\ y1 = y + SectorSize
      BY <1>2, <3>1, InBlocks DEF y
    <3>3. y1 \div SectorSize = D + 1 /\ y1 > 0
      BY <3>1, InBlocks
    <3> QED BY <1>11, <2>0, <3>1, <3>2, <3>3
  <2> HIDE DEF y1
  <2>6. ASSUME NEW n \in 0..SectorSize, NEW p \in 1..ImageSize
        PROVE  Put(s.image, s.next_sector, v.buffer, n)[p]
                 = IF p - x \in (y + 1)..(y + n) THEN p - x ELSE s.image[p]
    <3>1. \A i \in 1..SectorSize : v.buffer[i] = D * SectorSize + i
      BY <1>6, <2>0 DEF y
    <3>2. v.buffer \in Buffers
      BY DEF States
    <3>3. Put(s.image, j.sector + D, v.buffer, n)[p]
            = IF p - x \in (y + 1)..(y + n) THEN p - x ELSE s.image[p]
      <4> DEFINE buf == v.buffer
                 img == s.image
                 sec == j.sector
      <4>1. buf \in Buffers /\ img \in Images /\ sec \in Nat /\ D \in Nat /\ n \in 0..SectorSize
            /\ p \in 1..ImageSize /\ \A i \in 1..SectorSize : buf[i] = D * SectorSize + i
        BY <1>0, <1>2, <1>4, <2>6, <3>1, <3>2
      <4> HIDE DEF buf, img, sec
      <4>2. Put(img, sec + D, buf, n)[p]
              = IF p - sec * SectorSize \in (D * SectorSize + 1)..(D * SectorSize + n)
                THEN p - sec * SectorSize ELSE img[p]
        BY <4>1, PutBecomes
      <4> QED BY <4>2 DEF x, y, buf, img, sec
    <3> QED BY <1>1, <3>3
  <2>7. CASE w.ok
    <3> DEFINE m == s.next_sector + 1
               c == [a EXCEPT !.next_sector = m]
    <3>1. m \in Nat
      BY <1>0
    <3>2. t = Then(c)
      BY <2>1, <2>3, <2>7 DEF a
    <3> HIDE DEF m
    <3>3. /\ c \in States /\ c.geometry = s.geometry /\ c.command = s.command /\ c.blocks = s.blocks
          /\ c.next_sector = m /\ c.phase = s.phase /\ c.status /\ c.irq_armed = u.irq_armed
          /\ c.irq_pending = u.irq_pending /\ c.request = u.request /\ c.initialised = u.initialised /\ c.image = a.image
      BY <2>3, <2>4, <3>1 DEF States
    <3> HIDE DEF c
    <3>4. \A p \in 1..ImageSize : a.image[p] = IF p - x \in 1..y1 THEN p - x ELSE j.before[p]
      <4>0. SectorSize \in 0..SectorSize /\ SectorSize \in Nat /\ ImageSize \in Nat
        BY Sizes
      <4>1. \A p \in 1..ImageSize : a.image[p] = IF p - x \in (y + 1)..y1 THEN p - x ELSE s.image[p]
        BY <2>2, <2>5, <2>6, <2>7, <4>0 DEF a
      <4>2. \A p \in 1..ImageSize : p - x \in 1..y1 <=> (p - x \in (y + 1)..y1 \/ p - x \in 1..y)
        BY <1>3, <2>5, <4>0
      <4> QED BY <1>4, <4>1, <4>2
    <3>5. CASE s.blocks = 1
      <4> DEFINE e == [c EXCEPT !.blocks = 0]
      <4>1. t = status_phase(e, TRUE)
        BY <3>2, <3>3, <3>5
      <4>2. /\ e \in States /\ e.image = c.image /\ e.geometry = c.geometry
            /\ e.irq_armed = c.irq_armed /\ e.irq_pending = c.irq_pending /\ e.request = c.request /\ e.initialised = c.initialised
        BY <3>3 DEF States
      <4> HIDE DEF e
      <4>3. t \in States /\ Kept(e, t) /\ Latches(e, t) /\ t.phase = "STATUS" /\ t.status = TRUE
        BY <4>1, <4>2, EntersStatus
      <4>4. Latches(s, t)
        BY <1>10, <3>3, <4>2, <4>3 DEF Latches, Latch
      <4>5. t.image = a.image /\ t.geometry = s.geometry
        BY <3>3, <4>2, <4>3 DEF Kept
      <4>6. /\ k \in Jobs /\ k.op = j.op /\ k.sector = j.sector /\ k.blocks = j.blocks
            /\ k.before = j.before /\ k.moved = y1
        BY <1>0, <2>5, <4>3, MovedIs
      <4> HIDE DEF k
      <4>7. WriteOK(t, k)
        <5>1. y1 \div SectorSize - (IF ~t.status /\ y1 > 0 THEN 1 ELSE 0) = D + 1
          BY <2>5, <4>3
        <5>2. \A p \in 1..ImageSize :
                t.image[p] = IF p - k.sector * SectorSize \in 1..((D + 1) * SectorSize)
                             THEN p - k.sector * SectorSize ELSE k.before[p]
          BY <3>4, <4>5, <4>6 DEF x, y1
        <5> QED BY <2>4, <2>5, <4>3, <4>5, <4>6, <5>1, <5>2, BecameWrites
      <4>8. StatusOK(t, k)
        <5>1. j.blocks = D + 1
          BY <1>0, <1>1, <3>5 DEF D, Done
        <5> QED BY <4>3, <4>6, <5>1 DEF StatusOK, y1
      <4>9. Writes(t, k)
        BY <4>3 DEF Writes
      <4>10. Good(t, k)
        BY <2>2, <4>3, <4>5, <4>7, <4>8, <4>9, WriteGood DEF k, a
      <4> QED BY <4>3, <4>4, <4>10 DEF k
    <3>6. CASE s.blocks # 1
      <4> DEFINE n == s.blocks - 1
                 e == [c EXCEPT !.blocks = n]
      <4>1. n \in Nat /\ n >= 1 /\ n <= j.blocks /\ j.blocks - n = D + 1
        BY <1>0, <1>1, <3>6, SMTT(30) DEF D, Done
      <4>2. t = NextBlock(e)
        BY <3>2, <3>3, <3>6
      <4> HIDE DEF n
      <4>3. /\ e \in States /\ e.image = c.image /\ e.geometry = c.geometry /\ e.phase = c.phase
            /\ e.command = c.command /\ e.blocks = n /\ e.next_sector = m /\ e.status = c.status
            /\ e.irq_armed = c.irq_armed /\ e.irq_pending = c.irq_pending /\ e.request = c.request /\ e.initialised = c.initialised
        BY <3>3, <4>1 DEF States
      <4> HIDE DEF e
      <4>4. /\ t \in States /\ Kept(e, t) /\ Latches(e, t) /\ t.phase = e.phase /\ t.status = e.status
            /\ t.offset = 0 /\ t.length = SectorSize
        BY <4>2, <4>3, StartsBlock
      <4>5. Latches(s, t)
        BY <1>10, <3>3, <4>3, <4>4 DEF Latches, Latch
      <4>6. /\ t.image = a.image /\ t.geometry = s.geometry /\ t.command = s.command /\ t.blocks = n
            /\ t.next_sector = m /\ t.phase = "SCSI_WRITE" /\ t.status
        BY <3>3, <4>3, <4>4 DEF Kept
      <4>7. /\ k \in Jobs /\ k.op = j.op /\ k.sector = j.sector /\ k.blocks = j.blocks
            /\ k.before = j.before /\ k.moved = y1 /\ ~k.torn
        <5>1. /\ k \in Jobs /\ k.op = j.op /\ k.sector = j.sector /\ k.blocks = j.blocks
              /\ k.before = j.before /\ k.moved = j.moved + 1 /\ k.torn = j.torn
          BY <1>0, <4>4, <4>6, MovedIs, ZenonT(60)
        <5> QED BY <1>1, <2>5, <5>1
      <4> HIDE DEF k
      <4>8. Done(t, k) = D + 1
        BY <4>1, <4>6, <4>7 DEF Done
      <4>9. Became(t, k, y1)
        BY <3>4, <4>6, <4>7 DEF Became, x
      <4>10. Writes(t, k)
        <5>1. SectorSize >= 1 /\ 0 + SectorSize = SectorSize /\ y1 + 0 = y1
          BY <2>5, Sizes
        <5>2. m = j.sector + (D + 1)
          BY <1>0, <1>1, <1>2, SMTT(30) DEF m
        <5>3. \A i \in 1..0 : t.buffer[i] = y1 + i
          OBVIOUS
        <5> QED BY <1>1, <4>1, <4>4, <4>6, <4>7, <4>8, <4>9, <5>1, <5>2, <5>3 DEF Writes, y1
      <4>11. WriteOK(t, k)
        <5>1. y1 \div SectorSize - (IF ~t.status /\ y1 > 0 THEN 1 ELSE 0) = D + 1
          BY <2>5, <4>6
        <5>2. \A p \in 1..ImageSize :
                t.image[p] = IF p - k.sector * SectorSize \in 1..((D + 1) * SectorSize)
                             THEN p - k.sector * SectorSize ELSE k.before[p]
          BY <3>4, <4>6, <4>7 DEF x, y1
        <5> QED BY <2>4, <2>5, <4>4, <4>6, <4>7, <5>1, <5>2, BecameWrites
      <4>12. StatusOK(t, k)
        BY <4>6 DEF StatusOK
      <4>13. Good(t, k)
        BY <2>2, <4>4, <4>6, <4>10, <4>11, <4>12, WriteGood DEF k, a
      <4> QED BY <4>4, <4>5, <4>6, <4>13 DEF k
    <3> QED BY <3>5, <3>6
  <2>8. CASE ~w.ok
    <3>1. t = Failed(a, s.next_sector)
      BY <2>1, <2>8 DEF a
    <3>2. /\ t \in States /\ Latches(a, t) /\ t.phase = "STATUS" /\ ~t.status
          /\ t.sense_code # 0 /\ t.sense_sector = s.next_sector
          /\ t.image = a.image /\ t.geometry = a.geometry /\ t.error = a.error
      <4> DEFINE z == Failed(a, s.next_sector)
      <4>1. /\ z \in States /\ Latches(a, z) /\ z.phase = "STATUS" /\ ~z.status
            /\ z.sense_code # 0 /\ z.sense_sector = s.next_sector
            /\ z.image = a.image /\ z.geometry = a.geometry /\ z.error = a.error
        <5>1. s.next_sector \in Nat
          BY <1>0
        <5> QED BY <2>4, <5>1, Fails, ZenonT(60)
      <4> HIDE DEF z
      <4> QED BY <3>1, <4>1 DEF z
    <3>3. Latches(s, t)
      BY <1>10, <2>3, <3>2 DEF Latches, Latch
    <3>4. /\ k \in Jobs /\ k.op = j.op /\ k.sector = j.sector /\ k.blocks = j.blocks
          /\ k.before = j.before /\ k.moved = y1 /\ (t.error => k.torn)
      BY <1>0, <2>5, <3>2, MovedIs
    <3> HIDE DEF k
    <3>5. y1 \div SectorSize - (IF ~t.status /\ y1 > 0 THEN 1 ELSE 0) = D
      BY <1>2, <2>5, <3>2
    <3>6. \A p \in 1..ImageSize :
            \/ k.torn /\ p - x \in (y + 1)..y1
            \/ t.image[p] = IF p - x \in 1..y THEN p - x ELSE j.before[p]
      <4>1. CASE a.image = s.image
        BY <1>4, <3>2, <4>1
      <4>2. ASSUME a.error, NEW n \in 0..SectorSize, a.image = Put(s.image, s.next_sector, v.buffer, n)
            PROVE  \A p \in 1..ImageSize :
                     \/ k.torn /\ p - x \in (y + 1)..y1
                     \/ t.image[p] = IF p - x \in 1..y THEN p - x ELSE j.before[p]
        <5>1. \A p \in 1..ImageSize : a.image[p] = IF p - x \in (y + 1)..(y + n) THEN p - x ELSE s.image[p]
          BY <2>6, <4>2
        <5>2. \A p \in 1..ImageSize : p - x \in (y + 1)..(y + n) => p - x \in (y + 1)..y1
          BY <1>3, <2>5, <4>2, Sizes
        <5> QED BY <1>4, <3>2, <3>4, <4>2, <5>1, <5>2
      <4> QED BY <2>2, <2>8, <4>1, <4>2 DEF a
    <3>7. WriteOK(t, k)
      <4>1. \A p \in 1..ImageSize :
              \/ k.torn /\ p - k.sector * SectorSize \in (D * SectorSize + 1)..((D + 1) * SectorSize)
              \/ t.image[p] = IF p - k.sector * SectorSize \in 1..(D * SectorSize)
                              THEN p - k.sector * SectorSize ELSE k.before[p]
        BY <3>4, <3>6 DEF x, y, y1
      <4> QED BY <1>2, <2>4, <3>2, <3>4, <3>5, <4>1, BecameWrites
    <3>8. StatusOK(t, k)
      <4>1. s.next_sector = j.sector + (D + 1) - 1
        BY <1>0, <1>1, <1>2
      <4>2. k.moved \div SectorSize = D + 1
        BY <2>5, <3>4
      <4> QED BY <3>2, <3>4, <4>1, <4>2 DEF StatusOK
    <3>9. Writes(t, k)
      BY <3>2 DEF Writes
    <3>10. Good(t, k)
      BY <2>2, <2>3, <3>2, <3>7, <3>8, <3>9, WriteGood DEF k, a
    <3> QED BY <3>2, <3>3, <3>10 DEF k
  <2> QED BY <2>7, <2>8
<1> QED BY <1>12, <1>13

-----------------------------------------------------------------------------
(* The registers.                                                           *)

ScsiAll == ScsiInv /\ IrqInv

\* What a step does to the latch.
Keeps == scsi.irq_pending /\ scsi'.irq_armed => scsi'.irq_pending

\* The outcome t of an access to the data register.
Outcome(t) ==
  /\ t \in States /\ Latches(scsi, t) /\ t.image # <<>>
  /\ Good(t, Account(scsi, t))

\* An access ends with the emulator told of the latch.
LEMMA Served ==
  ASSUME ScsiAll, Mounted(scsi), NEW t, Outcome(t), scsi' = publish_irq(t), job' = Account(scsi, t)
  PROVE  ScsiAll' /\ Keeps
<1>1. t \in States /\ Latches(scsi, t) /\ t.image # <<>> /\ Good(t, job')
  BY DEF Outcome
<1>2. /\ scsi' \in States /\ Same(t, scsi') /\ scsi'.irq_armed = t.irq_armed
      /\ scsi'.irq_pending = t.irq_pending /\ scsi'.request = t.request /\ scsi'.initialised = t.initialised
      /\ scsi'.published = (Mounted(t) /\ t.irq_pending)
  BY <1>1, Publishes
<1>3. Good(scsi', job')
  BY <1>1, <1>2, StaysGood
<1>4. scsi'.image # <<>> /\ Latch(scsi) /\ scsi \in States
  BY <1>1, <1>2 DEF Same, Kept, ScsiAll, IrqInv
<1>5. Latch(scsi') /\ (scsi.irq_pending => scsi'.irq_pending)
  BY <1>1, <1>2, <1>4 DEF Latches, Latch
<1>6. scsi'.published = scsi'.irq_pending
  <2>1. Mounted(t) = TRUE
    BY <1>1 DEF Mounted
  <2>2. t.irq_pending \in BOOLEAN
    BY <1>1 DEF States
  <2> QED BY <1>2, <2>1, <2>2
<1>7. scsi'.initialised
  <2>1. scsi.initialised
    BY DEF ScsiAll, IrqInv
  <2>2. t.initialised = scsi.initialised
    BY <1>1 DEF Latches
  <2> QED BY <1>2, <2>1, <2>2
<1>8. Keeps
  BY <1>5 DEF Keeps
<1>9. IrqInv'
  BY <1>2, <1>4, <1>5, <1>6, <1>7 DEF IrqInv, Mounted, Latch
<1> QED BY <1>3, <1>8, <1>9 DEF ScsiAll, ScsiInv

\* An access that breaks a command off, or waits.
LEMMA Leaves ==
  ASSUME ScsiAll, Mounted(scsi), NEW t \in States, Latches(scsi, t), t.image = scsi.image,
         t.geometry = scsi.geometry, t.status = scsi.status,
         \/ Same(scsi, t) /\ scsi.phase \in {"BUS_FREE", "SELECTION"}
         \/ t.phase = "BUS_FREE"
         \/ t.phase = "SELECTION" /\ scsi.phase = "BUS_FREE"
         \/ t.phase = "MESSAGE" /\ scsi.phase = "STATUS"
  PROVE  Outcome(t)
<1>1. Good(scsi, job) /\ scsi.image # <<>>
  BY DEF ScsiAll, ScsiInv, Mounted
<1>2. Account(scsi, t) = job
  BY DEF Account, Same
<1>3. Good(t, job)
  BY <1>1, StaysGood, RestsGood
<1> QED BY <1>1, <1>2, <1>3 DEF Outcome

\* The state with the select line set.
LEMMA Selects ==
  ASSUME ScsiAll, NEW b \in BOOLEAN
  PROVE  LET s == [scsi EXCEPT !.selected = b] IN
         /\ s \in States /\ Same(scsi, s) /\ Apart(scsi, s) /\ Latches(scsi, s) /\ Good(s, job)
         /\ s.selected = b /\ s.image = scsi.image /\ s.error = scsi.error /\ s.buffer = scsi.buffer
<1> DEFINE s == [scsi EXCEPT !.selected = b]
<1>1. scsi \in States /\ Good(scsi, job)
  BY DEF ScsiAll, ScsiInv, IrqInv
<1>2. s \in States
  BY <1>1 DEF States
<1>3. /\ Same(scsi, s) /\ Apart(scsi, s) /\ s.irq_armed = scsi.irq_armed
      /\ s.irq_pending = scsi.irq_pending /\ s.request = scsi.request /\ s.initialised = scsi.initialised /\ s.selected = b
  BY <1>1 DEF States, Same, Kept, Apart
<1> HIDE DEF s
<1>4. Latches(scsi, s)
  BY <1>3 DEF Latches, Latch
<1>5. Good(s, job)
  BY <1>1, <1>2, <1>3, StaysGood
<1>6. s.image = scsi.image /\ s.error = scsi.error /\ s.buffer = scsi.buffer
  BY <1>3 DEF Same, Kept
<1> QED BY <1>2, <1>3, <1>4, <1>5, <1>6 DEF s

\* A command byte is one of its command.
LEMMA TakesByte ==
  ASSUME scsi \in States, scsi.phase = "COMMAND", NEW value \in Values(scsi)
  PROVE  CommandByte(scsi, value) \in Commands
<1>1. scsi.command \in Commands
  BY DEF States
<1>2. CASE scsi.offset = 0
  <2>1. value \in Ops
    BY <1>2 DEF Values, Ops
  <2>2. CommandByte(scsi, value) = [scsi.command EXCEPT !.op = value]
    BY <1>2 DEF CommandByte
  <2> QED BY <1>1, <2>1, <2>2 DEF Commands
<1>3. CASE scsi.offset = 1
  <2>1. value \in Nat
    BY <1>3, ScsiAssumption DEF Values
  <2>2. CommandByte(scsi, value) = [scsi.command EXCEPT !.sector = value]
    BY <1>3 DEF CommandByte
  <2> QED BY <1>1, <2>1, <2>2 DEF Commands
<1>4. CASE scsi.offset = 2
  <2>1. value \in 0..(WholeCount - 1)
    <3>1. 0 \in 0..(WholeCount - 1) /\ Counts \subseteq 0..(WholeCount - 1)
      BY ScsiAssumption
    <3>2. value \in Counts \/ value = 0
      BY <1>4 DEF Values
    <3> QED BY <3>1, <3>2
  <2>2. CommandByte(scsi, value) = [scsi.command EXCEPT !.count = value]
    BY <1>4 DEF CommandByte
  <2> QED BY <1>1, <2>1, <2>2 DEF Commands
<1>5. CASE scsi.offset \notin {0, 1, 2}
  BY <1>1, <1>5 DEF CommandByte
<1> QED BY <1>2, <1>3, <1>4, <1>5

\* A command byte counted, or the last one and the command begun.
LEMMA Commands1 ==
  ASSUME ScsiAll, Mounted(scsi), scsi.phase = "COMMAND", NEW b \in BOOLEAN, NEW value \in Values(scsi),
         NEW t \in write_data([scsi EXCEPT !.selected = b], value)
  PROVE  Outcome(t)
<1> DEFINE s == [scsi EXCEPT !.selected = b]
           c == CommandByte(s, value)
           n == IF s.offset = 0 /\ value \in TenBytes THEN Long ELSE s.length
           v == [s EXCEPT !.command = c, !.length = n]
           u == Counted(v)
<1>0. scsi \in States /\ Good(scsi, job) /\ scsi.image # <<>> /\ job \in Jobs
  BY DEF ScsiAll, ScsiInv, IrqInv, Mounted, Good
<1>1. /\ s \in States /\ Same(scsi, s) /\ Latches(scsi, s) /\ Good(s, job)
      /\ s.image = scsi.image
  BY Selects
<1>2. s.phase = "COMMAND" /\ s.offset = scsi.offset /\ s.command = scsi.command
  BY <1>1 DEF Same, Kept
<1>3. t \in IF u.length = 0 THEN execute_command(u) ELSE {u}
  BY <1>2 DEF write_data
<1> HIDE DEF s
<1>4. c \in Commands
  <2>1. c = CommandByte(scsi, value)
    BY <1>2 DEF CommandByte
  <2> QED BY <1>0, <2>1, TakesByte
<1>5. n \in 1..Long /\ n \in Nat /\ n >= 1 /\ n < Word /\ job.op = "none"
  <2>1. s.length \in 1..Long /\ job.op = "none"
    BY <1>1, <1>2 DEF Good
  <2>2. Long \in 1..Long /\ Long \in Nat /\ Long < Word
    BY Sizes
  <2>3. n \in 1..Long
    BY <2>1, <2>2
  <2> HIDE DEF n
  <2>4. n \in Nat /\ n >= 1 /\ n < Word
    BY <2>2, <2>3, Sizes
  <2> QED BY <2>1, <2>3, <2>4
<1> HIDE DEF c, n
<1>6. /\ v \in States /\ v.length = n /\ v.phase = s.phase /\ v.image = s.image /\ v.geometry = s.geometry
      /\ v.irq_armed = s.irq_armed /\ v.irq_pending = s.irq_pending /\ v.request = s.request /\ v.initialised = s.initialised
  BY <1>1, <1>4, <1>5 DEF States
<1> HIDE DEF v
<1>7. /\ u \in States /\ Kept(v, u) /\ Latches(v, u) /\ u.phase = v.phase /\ u.length = n - 1
  BY <1>5, <1>6, Counts1
<1> HIDE DEF u
<1>8. /\ u.image = scsi.image /\ u.geometry = scsi.geometry /\ u.phase = "COMMAND" /\ Latches(scsi, u)
      /\ Len(u.geometry) >= GeometrySize
  <2>1. u.image = scsi.image /\ u.geometry = scsi.geometry /\ u.phase = "COMMAND"
    BY <1>1, <1>2, <1>6, <1>7 DEF Kept, Same
  <2>2. Latches(scsi, u)
    BY <1>1, <1>6, <1>7 DEF Latches, Latch
  <2>3. Len(scsi.geometry) >= GeometrySize
    BY <1>0 DEF Good
  <2> QED BY <2>1, <2>2, <2>3
<1>9. CASE u.length # 0
  <2>1. t = u
    BY <1>3, <1>9
  <2>2. Account(scsi, t) = job
    BY <1>8, <2>1 DEF Account
  <2>3. t.length \in 1..Long
    BY <1>5, <1>7, <1>9, <2>1, Sizes
  <2>4. Reads(t, job) /\ Writes(t, job) /\ ReadOK(t, job) /\ WriteOK(t, job) /\ StatusOK(t, job)
    BY <1>5, <1>8, <2>1 DEF Reads, Writes, ReadOK, WriteOK, StatusOK
  <2>5. Good(t, job)
    BY <1>0, <1>5, <1>7, <1>8, <2>1, <2>3, <2>4 DEF Good
  <2> QED BY <1>0, <1>7, <1>8, <2>1, <2>2, <2>5 DEF Outcome
<1>10. CASE u.length = 0
  <2>1. t \in execute_command(u) /\ job.begun \in Nat
    BY <1>0, <1>3, <1>10 DEF Jobs
  <2>2. Starts(u, t, job.begun)
    BY <1>0, <1>7, <1>8, <2>1, ExecuteStarts
  <2>3. /\ t \in States /\ Latches(u, t) /\ t.command = u.command /\ t.image = u.image
        /\ t.phase \notin {"COMMAND", "BUS_FREE"} /\ Good(t, Begun(u, job.begun))
    BY <2>2 DEF Starts
  <2>4. Account(scsi, t) = Begun(u, job.begun)
    <3>1. Account(scsi, t) =
            [NoJob EXCEPT !.begun = job.begun, !.op = t.command.op, !.sector = t.command.sector,
                          !.blocks = IF t.command.op \in {"read", "write"} THEN Blocks(t.command) ELSE 1,
                          !.before = scsi.image]
      BY <2>3 DEF Account
    <3> QED BY <1>8, <2>3, <3>1 DEF Begun
  <2>5. Latches(scsi, t)
    BY <1>8, <2>3 DEF Latches, Latch
  <2> QED BY <1>0, <1>8, <2>3, <2>4, <2>5 DEF Outcome
<1> QED BY <1>9, <1>10

\* A byte of data from the host.
LEMMA DataWritten ==
  ASSUME ScsiAll, Mounted(scsi), scsi.phase = "SCSI_WRITE", NEW b \in BOOLEAN,
         NEW value \in Values(scsi), NEW t \in write_data([scsi EXCEPT !.selected = b], value)
  PROVE  Outcome(t)
<1> DEFINE s == [scsi EXCEPT !.selected = b]
           buf == IF s.offset < SectorSize THEN [s.buffer EXCEPT ![s.offset + 1] = value] ELSE s.buffer
           v == [s EXCEPT !.buffer = buf]
<1>0. scsi \in States /\ Good(scsi, job) /\ scsi.image # <<>> /\ job \in Jobs /\ job.moved \in Nat
  BY DEF ScsiAll, ScsiInv, IrqInv, Mounted, Good, Jobs
<1>1. value = job.moved + 1
  BY DEF Values
<1>2. /\ s \in States /\ Same(scsi, s) /\ Apart(scsi, s) /\ Latches(scsi, s) /\ Good(s, job)
      /\ s.image = scsi.image
  BY Selects
<1>3. s.phase = "SCSI_WRITE"
  BY <1>2 DEF Same
<1>4. t \in IF Counted(v).length = 0 THEN BlockWritten(Counted(v)) ELSE {Counted(v)}
  BY <1>3 DEF write_data
<1> HIDE DEF s
<1>5. buf \in Buffers
  <2>1. s.buffer \in Buffers /\ value \in Int /\ s.offset \in Nat
    BY <1>0, <1>1, <1>2, SMTT(30) DEF States
  <2> QED BY <2>1 DEF Buffers
<1>6. s.offset < SectorSize => buf = [s.buffer EXCEPT ![s.offset + 1] = job.moved + 1]
  BY <1>1
<1> HIDE DEF buf
<1>7. v \in States /\ Apart(s, v) /\ v.image = s.image /\ v.error = s.error /\ v.buffer = buf
  BY <1>2, <1>5 DEF States, Apart
<1> HIDE DEF v
<1>8. /\ t \in States /\ Latches(s, t) /\ t.phase \in {"SCSI_WRITE", "STATUS"}
      /\ Good(t, Moved(job, t))
  <2>1. CASE job.op # "write"
    BY <1>2, <1>3, <1>4, <1>7, <2>1, SelectsByte
  <2>2. CASE job.op = "write"
    <3>1. s.offset < SectorSize
      <4>1. s.length >= 1 /\ s.offset + s.length = SectorSize /\ s.length \in Nat /\ s.offset \in Nat
        BY <1>2, <1>3, <2>2 DEF Good, Writes, States
      <4> QED BY <4>1, Sizes
    <3>2. v.buffer = [s.buffer EXCEPT ![s.offset + 1] = job.moved + 1]
      BY <1>6, <1>7, <3>1
    <3> QED BY <1>2, <1>3, <1>4, <1>7, <2>2, <3>2, WritesByte
  <2> QED BY <2>1, <2>2
<1>9. Account(scsi, t) = Moved(job, t)
  BY <1>8 DEF Account, Moved
<1>10. Latches(scsi, t)
  BY <1>2, <1>8 DEF Latches, Latch
<1>11. t.image # <<>>
  BY <1>8 DEF Good
<1> QED BY <1>8, <1>9, <1>10, <1>11 DEF Outcome

\* A write to the data register, in every phase.
LEMMA WriteServed ==
  ASSUME ScsiAll, Mounted(scsi), NEW b \in BOOLEAN, NEW value \in Values(scsi),
         NEW t \in write_data([scsi EXCEPT !.selected = b], value)
  PROVE  Outcome(t)
<1> DEFINE s == [scsi EXCEPT !.selected = b]
<1>0. scsi \in States /\ Good(scsi, job) /\ scsi.image # <<>> /\ job \in Jobs /\ scsi.phase \in Phases
  BY DEF ScsiAll, ScsiInv, IrqInv, Mounted, Good, States
<1>1. /\ s \in States /\ Same(scsi, s) /\ Latches(scsi, s) /\ Good(s, job) /\ s.selected = b
  BY Selects
<1>2. /\ s.phase = scsi.phase /\ s.image = scsi.image /\ s.geometry = scsi.geometry
      /\ s.status = scsi.status
  BY <1>1 DEF Same, Kept
<1>3. t \in write_data(s, value)
  OBVIOUS
<1> HIDE DEF s
<1>4. CASE scsi.phase = "BUS_FREE"
  <2> DEFINE v == [s EXCEPT !.busy = TRUE, !.phase = "SELECTION"]
  <2>1. t = v \/ t = s
    BY <1>2, <1>3, <1>4 DEF write_data
  <2>2. CASE t = s
    BY <1>1, <1>2, <1>4, <2>2, Leaves
  <2>3. CASE t = v
    <3>1. /\ t \in States /\ t.phase = "SELECTION" /\ t.image = s.image /\ t.geometry = s.geometry
          /\ t.status = s.status /\ t.irq_armed = s.irq_armed /\ t.irq_pending = s.irq_pending
          /\ t.request = s.request /\ t.initialised = s.initialised
      BY <1>1, <2>3 DEF States, Phases
    <3>2. Latches(scsi, t)
      BY <1>1, <3>1 DEF Latches, Latch
    <3> QED BY <1>2, <1>4, <3>1, <3>2, Leaves
  <2> QED BY <2>1, <2>2, <2>3
<1>5. CASE scsi.phase = "SELECTION"
  <2> DEFINE l == Lines(s, TRUE, FALSE, FALSE)
             v == [l EXCEPT !.phase = "COMMAND", !.offset = 0, !.length = Short]
  <2>1. t = v \/ t = s
    BY <1>2, <1>3, <1>5 DEF write_data
  <2>2. CASE t = s
    BY <1>1, <1>2, <1>5, <2>2, Leaves
  <2>3. CASE t = v
    <3>1. /\ l \in States /\ Same(s, l) /\ l.irq_armed = s.irq_armed
          /\ l.irq_pending = s.irq_pending /\ l.request = s.request /\ l.initialised = s.initialised
      BY <1>1, LinesKept
    <3> HIDE DEF l
    <3>2. Short \in Nat /\ Short \in 1..Long
      BY Sizes
    <3>3. /\ t \in States /\ t.phase = "COMMAND" /\ t.image = l.image /\ t.geometry = l.geometry
          /\ t.length = Short /\ t.irq_armed = l.irq_armed /\ t.irq_pending = l.irq_pending
          /\ t.request = l.request /\ t.initialised = l.initialised
      BY <2>3, <3>1, <3>2 DEF States, Phases
    <3>4. Latches(scsi, t)
      BY <1>1, <3>1, <3>3 DEF Latches, Latch
    <3>5. t.image = scsi.image /\ t.geometry = scsi.geometry
      BY <1>2, <3>1, <3>3 DEF Same, Kept
    <3> DEFINE j == [NoJob EXCEPT !.begun = job.begun + 1]
    <3>6. Account(scsi, t) = j
      BY <1>5, <3>3 DEF Account
    <3>7. j \in Jobs /\ j.op = "none"
      <4>1. job.begun + 1 \in Nat
        BY <1>0 DEF Jobs
      <4> DEFINE n == job.begun + 1
                 q == [begun |-> n, op |-> "none", sector |-> 0, blocks |-> 0, moved |-> 0,
                       read |-> 0, before |-> <<>>, torn |-> FALSE]
      <4>2. j = [NoJob EXCEPT !.begun = n]
        OBVIOUS
      <4> HIDE DEF n, j
      <4>4. j = q
        BY <4>2 DEF NoJob
      <4>3. q \in Jobs /\ q.op = "none"
        BY <4>1 DEF Jobs, Ops, n
      <4> QED BY <4>3, <4>4
    <3> HIDE DEF j
    <3>8. Reads(t, j) /\ Writes(t, j) /\ ReadOK(t, j) /\ WriteOK(t, j) /\ StatusOK(t, j)
      BY <3>3, <3>7 DEF Reads, Writes, ReadOK, WriteOK, StatusOK
    <3>9. Good(t, j)
      BY <1>0, <3>2, <3>3, <3>5, <3>7, <3>8 DEF Good
    <3> QED BY <1>0, <3>3, <3>4, <3>5, <3>6, <3>9 DEF Outcome
  <2> QED BY <2>1, <2>2, <2>3
<1>6. CASE scsi.phase = "COMMAND"
  BY <1>6, Commands1
<1>7. CASE scsi.phase = "SCSI_WRITE"
  BY <1>7, DataWritten
<1>8. CASE scsi.phase \in {"SCSI_READ", "STATUS", "MESSAGE"}
  <2>1. t = bus_free(s)
    BY <1>2, <1>3, <1>8 DEF write_data
  <2>2. /\ t \in States /\ Kept(s, t) /\ Latches(s, t) /\ t.phase = "BUS_FREE" /\ t.status = s.status
    BY <1>1, <2>1, Frees
  <2>3. Latches(scsi, t)
    BY <1>1, <2>2 DEF Latches, Latch
  <2>4. t.image = scsi.image /\ t.geometry = scsi.geometry /\ t.status = scsi.status
    BY <1>2, <2>2 DEF Kept
  <2> QED BY <2>2, <2>3, <2>4, Leaves
<1> QED BY <1>0, <1>4, <1>5, <1>6, <1>7, <1>8 DEF Phases

\* A read of the data register, in every phase.
LEMMA ReadServed ==
  ASSUME ScsiAll, Mounted(scsi), NEW t \in read_data(scsi)
  PROVE  Outcome(t)
<1>0. scsi \in States /\ Good(scsi, job) /\ scsi.image # <<>> /\ job \in Jobs /\ scsi.phase \in Phases
      /\ Latches(scsi, scsi) /\ Same(scsi, scsi)
  BY DEF ScsiAll, ScsiInv, IrqInv, Mounted, Good, States, Latches, Same, Kept
<1>1. ASSUME NEW s \in States, Kept(scsi, s), Latches(scsi, s), s.status = scsi.status, t = bus_free(s)
      PROVE  Outcome(t)
  <2>1. /\ t \in States /\ Kept(s, t) /\ Latches(s, t) /\ t.phase = "BUS_FREE" /\ t.status = s.status
    BY <1>1, Frees
  <2>2. Latches(scsi, t)
    BY <1>1, <2>1 DEF Latches, Latch
  <2>3. t.image = scsi.image /\ t.geometry = scsi.geometry /\ t.status = scsi.status
    BY <1>1, <2>1 DEF Kept
  <2> QED BY <2>1, <2>2, <2>3, Leaves
<1>2. CASE scsi.phase = "STATUS"
  <2> DEFINE u == set_request(scsi, FALSE)
             v == [u EXCEPT !.phase = "MESSAGE", !.message_phase = TRUE]
  <2>1. t = set_request(v, TRUE)
    BY <1>2 DEF read_data
  <2>2. u \in States /\ Same(scsi, u) /\ Latches(scsi, u)
    BY <1>0, Requests
  <2> HIDE DEF u
  <2>3. /\ v \in States /\ v.phase = "MESSAGE" /\ v.image = u.image /\ v.geometry = u.geometry
        /\ v.status = u.status /\ v.irq_armed = u.irq_armed /\ v.irq_pending = u.irq_pending
        /\ v.request = u.request /\ v.initialised = u.initialised
    BY <2>2 DEF States, Phases
  <2> HIDE DEF v
  <2>4. t \in States /\ Same(v, t) /\ Latches(v, t)
    BY <2>1, <2>3, Requests
  <2>5. Latches(scsi, t)
    BY <2>2, <2>3, <2>4 DEF Latches, Latch
  <2>6. t.phase = "MESSAGE" /\ t.image = scsi.image /\ t.geometry = scsi.geometry /\ t.status = scsi.status
    BY <2>2, <2>3, <2>4 DEF Same, Kept
  <2> QED BY <1>2, <2>4, <2>5, <2>6, Leaves
<1>3. CASE scsi.phase = "MESSAGE"
  <2> DEFINE u == set_request(scsi, FALSE)
  <2>1. t = bus_free(u)
    BY <1>3 DEF read_data
  <2>2. u \in States /\ Same(scsi, u) /\ Latches(scsi, u)
    BY <1>0, Requests
  <2> HIDE DEF u
  <2> QED BY <1>1, <2>1, <2>2 DEF Same
<1>4. CASE scsi.phase = "SCSI_READ"
  <2>1. t \in IF Counted(scsi).length = 0 THEN BlockRead(Counted(scsi)) ELSE {Counted(scsi)}
    BY <1>4 DEF read_data
  <2>2. /\ t \in States /\ Latches(scsi, t) /\ t.phase \in {"SCSI_READ", "STATUS"}
        /\ Good(t, More(scsi, job))
    BY <1>0, <1>4, <2>1, ReadsByte
  <2>3. Account(scsi, t) = More(scsi, job)
    BY <1>4, <2>2 DEF Account, More
  <2>4. t.image # <<>>
    BY <2>2 DEF Good
  <2> QED BY <2>2, <2>3, <2>4 DEF Outcome
<1>5. CASE scsi.phase = "BUS_FREE"
  <2>1. t = scsi
    BY <1>5 DEF read_data
  <2> QED BY <1>0, <1>5, <2>1, Leaves
<1>6. CASE scsi.phase \in {"SELECTION", "COMMAND", "SCSI_WRITE"}
  <2>1. t = bus_free(scsi)
    BY <1>6 DEF read_data
  <2> QED BY <1>0, <1>1, <2>1 DEF Same
<1> QED BY <1>0, <1>2, <1>3, <1>4, <1>5, <1>6 DEF Phases
-----------------------------------------------------------------------------
(* The steps that move no byte.                                             *)

\* The device before its first access.
LEMMA ScsiStart == Init => ScsiAll
<1> SUFFICES ASSUME Init PROVE ScsiAll
  OBVIOUS
<1>1. Zeros \in Buffers
  BY Sizes DEF Zeros, Buffers
<1>2. NoCommand \in Commands
  BY Sizes DEF NoCommand, Commands, Ops
<1>3. <<>> \in Seq(Int)
  OBVIOUS
<1>4. scsi \in States
  BY <1>1, <1>2, <1>3 DEF Init, States, Phases
<1>5. /\ scsi.phase = "BUS_FREE" /\ scsi.image = <<>> /\ ~scsi.irq_armed /\ ~scsi.irq_pending
      /\ ~scsi.request /\ scsi.published = scsi.irq_pending
  BY DEF Init
<1>6. job \in Jobs /\ job.op = "none"
  BY DEF Init, NoJob, Jobs, Ops
<1>7. /\ Reads(scsi, job) /\ Writes(scsi, job) /\ ReadOK(scsi, job) /\ WriteOK(scsi, job)
      /\ StatusOK(scsi, job)
  BY <1>5, <1>6 DEF Reads, Writes, ReadOK, WriteOK, StatusOK
<1>8. Good(scsi, job)
  BY <1>4, <1>5, <1>6, <1>7 DEF Good
<1>9. IrqInv
  BY <1>4, <1>5 DEF IrqInv, Latch, Mounted
<1> QED BY <1>8, <1>9 DEF ScsiAll, ScsiInv

\* The geometry of an image is as long as the longest answer taken from it.
LEMMA GeometryLong ==
  /\ Derived \in Seq(Int) /\ Len(Derived) >= GeometrySize
  /\ Zeros \in Seq(Int) /\ Len(Zeros) >= GeometrySize
<1>1. Cylinders \in Int
  <2>1. SectorSize * Track \in Nat \ {0}
    BY ScsiAssumption, Sizes
  <2> DEFINE m == SectorSize * Track
  <2> HIDE DEF m
  <2>2. (ImageSize - 1) \div m \in Int
    BY <2>1, Sizes DEF m
  <2> QED BY <2>2 DEF Cylinders, Upto, m
<1>2. Derived \in [1..GeometrySize -> Int]
  BY <1>1 DEF Derived
<1>3. Zeros \in [1..SectorSize -> Int]
  BY DEF Zeros
<1>4. \A n \in Nat : \A f \in [1..n -> Int] : f \in Seq(Int) /\ Len(f) = n
  OBVIOUS
<1>5. GeometrySize \in Nat /\ SectorSize \in Nat /\ GeometrySize <= SectorSize
  BY Sizes
<1> QED BY <1>2, <1>3, <1>4, <1>5

\* The first access mounts an image with no command under way, or none.
LEMMA InitialisesGood ==
  ASSUME ScsiAll, NEW lun, NEW writable \in BOOLEAN, NEW dsc, initialise(lun, writable, dsc)
  PROVE  ScsiAll' /\ Keeps
<1> DEFINE start == [scsi EXCEPT !.initialised = TRUE, !.writable = writable]
           fresh == [i \in 1..ImageSize |-> -i]
           g == IF dsc = "none" THEN Derived ELSE Zeros
           u == [start EXCEPT !.image = fresh, !.geometry = g]
<1>1. scsi \in States /\ Good(scsi, job) /\ job \in Jobs /\ IrqInv
  BY DEF ScsiAll, ScsiInv, IrqInv, Good
<1>2. /\ scsi.image = <<>> /\ scsi.phase = "BUS_FREE" /\ ~scsi.irq_armed /\ ~scsi.request
      /\ job.op = "none" /\ ~scsi.irq_pending /\ scsi.published = scsi.irq_pending
  BY <1>1 DEF initialise, IrqInv, Mounted, Latch, Good
<1>3. job' = job
  BY DEF initialise
<1>4. scsi' = start \/ scsi' = bus_free(u)
  BY DEF initialise
<1>5. /\ start \in States /\ start.image = <<>> /\ start.phase = "BUS_FREE" /\ ~start.irq_armed
      /\ ~start.request /\ ~start.irq_pending /\ start.published = start.irq_pending
      /\ start.initialised /\ start.geometry = scsi.geometry /\ start.status = scsi.status
  BY <1>1, <1>2 DEF States
<1>6. CASE scsi' = start
  <2>1. Good(scsi', job')
    BY <1>1, <1>2, <1>3, <1>5, <1>6, RestsGood
  <2>2. IrqInv'
    BY <1>5, <1>6 DEF IrqInv, Latch, Mounted
  <2>3. Keeps
    BY <1>2 DEF Keeps
  <2> QED BY <2>1, <2>2, <2>3 DEF ScsiAll, ScsiInv
<1>7. CASE scsi' = bus_free(u)
  <2>1. fresh \in Images /\ fresh # <<>>
    <3>1. fresh \in Images
      BY Sizes DEF Images
    <3>2. 1 \in DOMAIN fresh
      BY Sizes
    <3>3. DOMAIN <<>> = {}
      OBVIOUS
    <3> HIDE DEF fresh
    <3> QED BY <3>1, <3>2, <3>3
  <2>2. g \in Seq(Int) /\ Len(g) >= GeometrySize
    BY GeometryLong
  <2> HIDE DEF fresh, g, start
  <2>3. u \in States /\ u.image = fresh /\ u.geometry = g
        /\ u.irq_armed = start.irq_armed /\ u.irq_pending = start.irq_pending
        /\ u.request = start.request /\ u.initialised = start.initialised
    BY <1>5, <2>1, <2>2 DEF States
  <2> HIDE DEF u
  <2>4. /\ scsi' \in States /\ Kept(u, scsi') /\ Latches(u, scsi') /\ scsi'.phase = "BUS_FREE"
        /\ ~scsi'.request
    BY <1>7, <2>3, Frees
  <2>5. scsi'.image = fresh /\ scsi'.geometry = g /\ scsi'.initialised = u.initialised
    BY <2>3, <2>4 DEF Kept
  <2>6. Good(scsi', job')
    <3>1. /\ Reads(scsi', job') /\ Writes(scsi', job') /\ ReadOK(scsi', job')
          /\ WriteOK(scsi', job') /\ StatusOK(scsi', job')
      BY <1>2, <1>3, <2>4 DEF Reads, Writes, ReadOK, WriteOK, StatusOK
    <3> QED BY <1>1, <1>2, <1>3, <2>1, <2>2, <2>4, <2>5, <3>1 DEF Good
  <2>7. Latch(scsi') /\ ~scsi'.irq_armed /\ ~scsi'.irq_pending
    BY <1>5, <2>3, <2>4 DEF Latches, Latch
  <2>8. scsi'.published = scsi'.irq_pending
    <3> DEFINE v == [Lines(u, FALSE, FALSE, FALSE) EXCEPT !.selected = FALSE, !.busy = FALSE]
               w == set_request(v, FALSE)
    <3>1. /\ Lines(u, FALSE, FALSE, FALSE) \in States
          /\ Lines(u, FALSE, FALSE, FALSE).image = u.image
      BY <2>3, LinesKept DEF Same, Kept
    <3>2. v \in States /\ v.image = u.image
      BY <3>1 DEF States
    <3> HIDE DEF v
    <3>3. w.published = w.irq_pending /\ w \in States
      <4> DEFINE p == v.irq_pending \/ (v.irq_armed /\ FALSE)
                 x == [v EXCEPT !.request = FALSE, !.irq_pending = p]
      <4>1. p \in BOOLEAN
        BY <3>2 DEF States
      <4> HIDE DEF p
      <4>2. x \in States /\ x.image = v.image
        BY <3>2, <4>1, ZenonT(60) DEF States
      <4> HIDE DEF x
      <4>3. Mounted(x) = TRUE
        BY <2>1, <2>3, <3>2, <4>2 DEF Mounted
      <4>4. LET y == publish_irq(x) IN
            y \in States /\ y.irq_pending = x.irq_pending /\ y.published = (Mounted(x) /\ x.irq_pending)
        BY <4>2, Publishes
      <4>5. w = publish_irq(x)
        BY DEF set_request, x, p
      <4>6. x.irq_pending \in BOOLEAN
        BY <4>2 DEF States
      <4> QED BY <4>3, <4>4, <4>5, <4>6
    <3> HIDE DEF w
    <3>4. scsi' = [w EXCEPT !.phase = "BUS_FREE"]
      BY <1>7 DEF bus_free, w, v
    <3> QED BY <3>3, <3>4 DEF States
  <2>9. IrqInv'
    BY <1>5, <2>1, <2>3, <2>4, <2>5, <2>7, <2>8 DEF IrqInv, Mounted
  <2>10. Keeps
    BY <1>2 DEF Keeps
  <2> QED BY <2>6, <2>9, <2>10 DEF ScsiAll, ScsiInv
<1> QED BY <1>4, <1>6, <1>7

\* Register 3 sets or clears the latch and moves nothing else.
LEMMA ArmsGood ==
  ASSUME ScsiAll, NEW armed \in BOOLEAN, WriteArm(armed)
  PROVE  ScsiAll' /\ Keeps
<1> DEFINE p == armed /\ (scsi.irq_pending \/ scsi.request)
           u == [scsi EXCEPT !.selected = TRUE, !.irq_armed = armed, !.irq_pending = p]
<1>1. scsi \in States /\ Good(scsi, job) /\ Latch(scsi) /\ scsi.image # <<>> /\ scsi.initialised
  BY DEF ScsiAll, ScsiInv, IrqInv, WriteArm, Mounted
<1>2. p \in BOOLEAN /\ (p => armed) /\ (armed /\ scsi.request => p) /\ (armed /\ scsi.irq_pending => p)
  BY <1>1 DEF States
<1>3. scsi' = publish_irq(u) /\ job' = job
  BY DEF WriteArm
<1> HIDE DEF p
<1>4. /\ u \in States /\ Same(scsi, u) /\ u.irq_armed = armed /\ u.irq_pending = p
      /\ u.request = scsi.request /\ u.initialised = scsi.initialised /\ u.image = scsi.image
  BY <1>1, <1>2, ZenonT(60) DEF States, Same, Kept
<1> HIDE DEF u
<1>5. /\ scsi' \in States /\ Same(u, scsi') /\ scsi'.irq_armed = u.irq_armed
      /\ scsi'.irq_pending = u.irq_pending /\ scsi'.request = u.request
      /\ scsi'.initialised = u.initialised /\ scsi'.published = (Mounted(u) /\ u.irq_pending)
  BY <1>3, <1>4, Publishes
<1>6. Good(scsi', job')
  BY <1>1, <1>3, <1>4, <1>5, StaysGood
<1>7. scsi'.image = scsi.image
  BY <1>4, <1>5 DEF Same, Kept
<1>8. scsi'.published = scsi'.irq_pending
  <2>1. Mounted(u) = TRUE
    BY <1>1, <1>4 DEF Mounted
  <2> QED BY <1>2, <1>4, <1>5, <2>1
<1>9. IrqInv'
  BY <1>1, <1>2, <1>4, <1>5, <1>7, <1>8 DEF IrqInv, Latch, Mounted
<1>10. Keeps
  BY <1>2, <1>4, <1>5 DEF Keeps
<1> QED BY <1>6, <1>9, <1>10 DEF ScsiAll, ScsiInv

\* Reset frees the bus, the latch and the sense.
LEMMA ResetsGood ==
  ASSUME ScsiAll, beebscsi_elkulator_reset
  PROVE  ScsiAll' /\ Keeps
<1> DEFINE u == [scsi EXCEPT !.sense_code = 0, !.sense_sector = 0, !.irq_armed = FALSE,
                             !.irq_pending = FALSE]
           v == bus_free(u)
<1>1. scsi \in States /\ Good(scsi, job) /\ scsi.image # <<>> /\ scsi.initialised
  BY DEF ScsiAll, ScsiInv, IrqInv, beebscsi_elkulator_reset, Mounted
<1>2. scsi' = publish_irq(v) /\ job' = job
  BY DEF beebscsi_elkulator_reset
<1>3. /\ u \in States /\ u.image = scsi.image /\ u.geometry = scsi.geometry
      /\ u.status = scsi.status /\ ~u.irq_armed /\ ~u.irq_pending
      /\ u.initialised = scsi.initialised
  BY <1>1 DEF States
<1> HIDE DEF u
<1>4. /\ v \in States /\ Kept(u, v) /\ Latches(u, v) /\ v.phase = "BUS_FREE" /\ ~v.request
      /\ v.status = u.status
  BY <1>3, Frees
<1> HIDE DEF v
<1>5. /\ scsi' \in States /\ Same(v, scsi') /\ scsi'.irq_armed = v.irq_armed
      /\ scsi'.irq_pending = v.irq_pending /\ scsi'.request = v.request
      /\ scsi'.initialised = v.initialised /\ scsi'.published = (Mounted(v) /\ v.irq_pending)
  BY <1>2, <1>4, Publishes
<1>6. /\ scsi'.phase = "BUS_FREE" /\ scsi'.image = scsi.image /\ scsi'.geometry = scsi.geometry
      /\ scsi'.status = scsi.status
  BY <1>3, <1>4, <1>5 DEF Same, Kept
<1>7. Good(scsi', job')
  BY <1>1, <1>2, <1>5, <1>6, RestsGood
<1>8. Latch(scsi') /\ ~scsi'.irq_armed /\ ~scsi'.irq_pending /\ scsi'.initialised
  BY <1>1, <1>3, <1>4, <1>5 DEF Latches, Latch
<1>9. scsi'.published = scsi'.irq_pending
  BY <1>5, <1>8 DEF States
<1>10. IrqInv'
  BY <1>1, <1>5, <1>6, <1>8, <1>9 DEF IrqInv, Mounted
<1>11. Keeps
  BY <1>8 DEF Keeps
<1> QED BY <1>7, <1>10, <1>11 DEF ScsiAll, ScsiInv

-----------------------------------------------------------------------------
(* The theorems.                                                            *)

\* Every access keeps the account of the command and the latch.
LEMMA ScsiStep == ScsiAll /\ Next => ScsiAll' /\ Keeps
<1> SUFFICES ASSUME ScsiAll, Next PROVE ScsiAll' /\ Keeps
  OBVIOUS
<1>1. ASSUME NEW lun \in {"present", "absent"}, NEW writable \in BOOLEAN, NEW dsc \in Sidecars,
             initialise(lun, writable, dsc)
      PROVE  ScsiAll' /\ Keeps
  BY <1>1, InitialisesGood
<1>2. ASSUME NEW selected \in BOOLEAN, WriteData(selected)
      PROVE  ScsiAll' /\ Keeps
  <2>1. PICK value \in Values(scsi) :
               Step(scsi, write_data([scsi EXCEPT !.selected = selected], value))
    BY <1>2 DEF WriteData
  <2>2. Mounted(scsi)
    BY <1>2 DEF WriteData
  <2>3. PICK t \in write_data([scsi EXCEPT !.selected = selected], value) :
               scsi' = publish_irq(t) /\ job' = Account(scsi, t)
    BY <2>1 DEF Step
  <2>4. Outcome(t)
    BY <2>2, <2>3, WriteServed
  <2> QED BY <2>2, <2>3, <2>4, Served
<1>3. CASE ReadData
  <2>1. Mounted(scsi) /\ Step(scsi, read_data(scsi))
    BY <1>3 DEF ReadData
  <2>2. PICK t \in read_data(scsi) : scsi' = publish_irq(t) /\ job' = Account(scsi, t)
    BY <2>1 DEF Step
  <2>3. Outcome(t)
    BY <2>1, <2>2, ReadServed
  <2> QED BY <2>1, <2>2, <2>3, Served
<1>4. ASSUME NEW armed \in BOOLEAN, WriteArm(armed)
      PROVE  ScsiAll' /\ Keeps
  BY <1>4, ArmsGood
<1>5. CASE beebscsi_elkulator_reset
  BY <1>5, ResetsGood
<1>6. CASE Unmounted
  <2>1. scsi' = scsi /\ job' = job /\ ~Mounted(scsi)
    BY <1>6 DEF Unmounted, vars
  <2> QED BY <2>1 DEF ScsiAll, ScsiInv, IrqInv, Mounted, Keeps, Latch
<1> QED BY <1>1, <1>2, <1>3, <1>4, <1>5, <1>6 DEF Next

\* A stutter changes nothing.
LEMMA ScsiStutter == ScsiAll /\ UNCHANGED vars => ScsiAll' /\ Keeps
<1> SUFFICES ASSUME ScsiAll, UNCHANGED vars PROVE ScsiAll' /\ Keeps
  OBVIOUS
<1>1. scsi' = scsi /\ job' = job
  BY DEF vars
<1> QED BY <1>1 DEF ScsiAll, ScsiInv, IrqInv, Mounted, Keeps, Latch

\* The account of the command and of the latch holds whatever the host does, for
\* every size of sector, image, command and count (beebscsi_elkulator.c).
THEOREM ScsiInvariant == Spec => []ScsiAll
<1>1. Init => ScsiAll
  BY ScsiStart
<1>2. ScsiAll /\ [Next]_vars => ScsiAll'
  BY ScsiStep, ScsiStutter
<1> QED BY <1>1, <1>2, PTL DEF Spec

\* Every byte a READ delivers is the next one of the image, across the blocks of
\* the transfer (read_data and read_sector).
THEOREM ScsiReadsImage == Spec => []ReadExact
<1>1. ScsiAll => ReadExact
  BY DEF ScsiAll, ScsiInv, Good, ReadOK, ReadExact
<1> QED BY <1>1, ScsiInvariant, PTL

\* A WRITE changes whole sectors only, each to the host's own bytes, whenever it
\* is broken off or fails (write_data and write_sector).
THEOREM ScsiWritesSectors == Spec => []WriteExact
<1>1. ScsiAll => WriteExact
  BY DEF ScsiAll, ScsiInv, Good, WriteOK, WriteExact
<1> QED BY <1>1, ScsiInvariant, PTL

\* Good status means every block was moved, and the sense of a failure names the
\* first sector that was not (status_phase and the sense fields).
THEOREM ScsiStatusTrue == Spec => []StatusTrue
<1>1. ScsiAll => StatusTrue
  BY DEF ScsiAll, ScsiInv, Good, StatusOK, StatusTrue
<1> QED BY <1>1, ScsiInvariant, PTL

\* REQ sets an armed latch, only D0 or a reset clears it, and the emulator has
\* been told of every change (set_request and publish_irq).
THEOREM ScsiIrqLatched == Spec => IrqLatched
<1> DEFINE P == /\ scsi.irq_armed /\ scsi.request => scsi.irq_pending
                /\ scsi.irq_pending => scsi.irq_armed
                /\ scsi.published = scsi.irq_pending
<1>1. ScsiAll => P
  BY DEF ScsiAll, IrqInv, Latch
<1>2. ScsiAll /\ [Next]_vars => [scsi.irq_pending /\ scsi'.irq_armed => scsi'.irq_pending]_vars
  BY ScsiStep DEF Keeps
<1>3. Spec => []P
  BY <1>1, ScsiInvariant, PTL
<1>4. Spec => [][scsi.irq_pending /\ scsi'.irq_armed => scsi'.irq_pending]_vars
  BY <1>2, ScsiInvariant, PTL DEF Spec
<1> QED BY <1>3, <1>4, PTL DEF IrqLatched
=============================================================================
