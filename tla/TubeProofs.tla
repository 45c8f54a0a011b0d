----------------------------- MODULE TubeProofs -----------------------------
(***************************************************************************)
(* The Tube, for every ring size, counter range, set of control writes and  *)
(* number of accesses: its flags agree, its clock is exact, and the ULA     *)
(* implements the channels of TubeChannels.                                 *)
(*                                                                         *)
(* The flags need no more than the types and the shape of the ring.  The    *)
(* refinement needs the flags: a program that sees space writes into an     *)
(* empty latch.  The clock needs to know what is owed between two looks.    *)
(***************************************************************************)
EXTENDS Ap5Tube, SequenceTheorems, TLAPS

Channels == HostChannels \cup ParasiteChannels
BackLatches == {"r2p", "r4p"}
Flags == SUBSET {"space", "data"}
Bits == {"Q", "I", "J", "M", "V", "P"}

Ulas ==
  [ring : [Slots -> Nat], head : Slots, tail : Slots, count : 0..RingSize,
   p2h : [LatchedBack -> Nat], h2p : [Latched -> Nat],
   p2h_r3 : Seq(Nat), h2p_r3 : Seq(Nat),
   host_status : [Registers -> Flags], parasite_status : [Registers -> Flags],
   control : SUBSET Bits]

\* The ring's indices are as far apart as its count says, no pair has more than
\* two bytes.
Shaped(u) ==
  /\ u \in Ulas
  /\ u.tail = (u.head + u.count) % RingSize
  /\ Len(u.p2h_r3) <= 2 /\ Len(u.h2p_r3) <= 2

\* FlagsAgree of a ULA.
Agree(u) ==
  /\ \A r \in Latched : "space" \in u.host_status[r] <=> "data" \notin u.parasite_status[r]
  /\ \A r \in LatchedBack : "space" \in u.parasite_status[r] <=> "data" \notin u.host_status[r]
  /\ "data" \in u.host_status["r1"] <=> u.count > 0
  /\ "space" \in u.parasite_status["r1"] <=> u.count < RingSize

Sound(u) == Shaped(u) /\ Agree(u)

\* What a channel holds at most.
Room(c) == IF c = "r1p" THEN RingSize ELSE IF c \in {"r3h", "r3p"} THEN 2 ELSE 1

-----------------------------------------------------------------------------
(* Arithmetic.                                                              *)

\* A remainder that has gone once round.
LEMMA ModOnce ==
  ASSUME NEW R \in Nat \ {0}, NEW a \in Nat, a < 2 * R
  PROVE  a % R = IF a < R THEN a ELSE a - R
<1>1. CASE a < R
  BY <1>1
<1>2. CASE a >= R
  BY <1>2
<1> QED BY <1>1, <1>2

\* Stepping around a ring: one more of the sum is one more of the remainder.
LEMMA ModNext ==
  ASSUME NEW R \in Nat \ {0}, NEW h \in 0..(R - 1), NEW i \in 0..(R - 1)
  PROVE  /\ (h + i) % R \in 0..(R - 1) /\ (h + (i + 1)) % R \in 0..(R - 1)
         /\ (((h + i) % R) + 1) % R = (h + (i + 1)) % R
         /\ (((h + 1) % R) + i) % R = (h + (i + 1)) % R
<1> DEFINE Once(a) == IF a < R THEN a ELSE a - R
<1>1. \A a \in Nat : a < 2 * R => a % R = Once(a)
  BY ModOnce
<1>2. (h + i) % R = Once(h + i) /\ (h + 1) % R = Once(h + 1)
  <2>1. h + i \in Nat /\ h + i < 2 * R /\ h + 1 \in Nat /\ h + 1 < 2 * R
    OBVIOUS
  <2> QED BY <1>1, <2>1
<1>3. (h + (i + 1)) % R = Once(h + (i + 1))
  <2>1. h + (i + 1) \in Nat /\ h + (i + 1) < 2 * R
    OBVIOUS
  <2> QED BY <1>1, <2>1
<1>4. (Once(h + i) + 1) % R = Once(Once(h + i) + 1)
  <2>1. Once(h + i) + 1 \in Nat /\ Once(h + i) + 1 < 2 * R
    OBVIOUS
  <2> QED BY <1>1, <2>1
<1>5. (Once(h + 1) + i) % R = Once(Once(h + 1) + i)
  <2>1. Once(h + 1) + i \in Nat /\ Once(h + 1) + i < 2 * R
    OBVIOUS
  <2> QED BY <1>1, <2>1
<1>6. Once(Once(h + i) + 1) = Once(h + (i + 1)) /\ Once(Once(h + 1) + i) = Once(h + (i + 1))
      /\ Once(h + i) \in 0..(R - 1) /\ Once(h + (i + 1)) \in 0..(R - 1)
  OBVIOUS
<1> QED BY <1>2, <1>3, <1>4, <1>5, <1>6

-----------------------------------------------------------------------------
(* What the register accesses do to the ULA and to what channels hold.      *)

\* The register of a latch, and which channels share one.
LEMMA RegisterOf ==
  /\ \A c \in HostLatches : Register(c) \in Latched
  /\ \A c \in BackLatches : Register(c) \in LatchedBack
  /\ \A c, d \in HostLatches : Register(c) = Register(d) => c = d
  /\ \A c, d \in BackLatches : Register(c) = Register(d) => c = d
  /\ Channels = HostLatches \cup BackLatches \cup {"r1p", "r3p", "r3h"}
  /\ HostLatches \cap BackLatches = {} /\ {"r1p", "r3p", "r3h"} \cap (HostLatches \cup BackLatches) = {}
BY DEF Register, HostLatches, HostChannels, ParasiteChannels, BackLatches, Channels,
       Latched, LatchedBack

\* The bytes of the ring, from its head.
InRing(count, ring, head) == [i \in 1..count |-> ring[(head + i - 1) % RingSize]]

\* What each kind of channel holds.
LEMMA HeldOf ==
  ASSUME NEW u
  PROVE  /\ Held(u, "r1p") = InRing(u.count, u.ring, u.head)
         /\ Held(u, "r3p") = u.p2h_r3
         /\ Held(u, "r3h") = u.h2p_r3
         /\ \A c \in HostLatches :
              Held(u, c) = IF "data" \in u.parasite_status[Register(c)]
                             THEN <<u.h2p[Register(c)]>> ELSE <<>>
         /\ \A c \in BackLatches :
              Held(u, c) = IF "data" \in u.host_status[Register(c)]
                             THEN <<u.p2h[Register(c)]>> ELSE <<>>
<1>1. Held(u, "r1p") = InRing(u.count, u.ring, u.head)
  BY DEF Held, InRing, HostLatches, HostChannels
<1>2. Held(u, "r3p") = u.p2h_r3 /\ Held(u, "r3h") = u.h2p_r3
  BY DEF Held, HostLatches, HostChannels
<1>3. ASSUME NEW c \in HostLatches
      PROVE  Held(u, c) = IF "data" \in u.parasite_status[Register(c)]
                            THEN <<u.h2p[Register(c)]>> ELSE <<>>
  BY DEF Held, HostLatches, HostChannels
<1>4. ASSUME NEW c \in BackLatches
      PROVE  Held(u, c) = IF "data" \in u.host_status[Register(c)]
                            THEN <<u.p2h[Register(c)]>> ELSE <<>>
  BY DEF Held, HostLatches, HostChannels, BackLatches
<1> QED BY <1>1, <1>2, <1>3, <1>4

\* An access turns u into v: v is sound, channel c now holds q, and every other
\* channel holds what it held.
Effect(u, v, c, q) ==
  /\ Sound(v) /\ v.control = u.control
  /\ Held(v, c) = q
  /\ \A d \in Channels \ {c} : Held(v, d) = Held(u, d)

\* What a channel holds depends on its own fields only.
LEMMA HeldSame ==
  ASSUME NEW u, NEW v, NEW d \in Channels,
         d = "r1p" => v.count = u.count /\ v.ring = u.ring /\ v.head = u.head,
         d = "r3p" => v.p2h_r3 = u.p2h_r3,
         d = "r3h" => v.h2p_r3 = u.h2p_r3,
         d \in HostLatches =>
           /\ v.h2p[Register(d)] = u.h2p[Register(d)]
           /\ "data" \in v.parasite_status[Register(d)] <=> "data" \in u.parasite_status[Register(d)],
         d \in BackLatches =>
           /\ v.p2h[Register(d)] = u.p2h[Register(d)]
           /\ "data" \in v.host_status[Register(d)] <=> "data" \in u.host_status[Register(d)]
  PROVE  Held(v, d) = Held(u, d)
<1>1. CASE d = "r1p"
  BY <1>1, HeldOf
<1>2. CASE d = "r3p" \/ d = "r3h"
  BY <1>2, HeldOf
<1>3. CASE d \in HostLatches
  BY <1>3, HeldOf
<1>4. CASE d \in BackLatches
  BY <1>4, HeldOf
<1> QED BY <1>1, <1>2, <1>3, <1>4, RegisterOf

\* A latch is empty when its sender's flag shows space.
LEMMA LatchEmpty ==
  ASSUME NEW u, Sound(u)
  PROVE  /\ \A c \in HostLatches : "space" \in u.host_status[Register(c)] <=> Held(u, c) = <<>>
         /\ \A c \in BackLatches : "space" \in u.parasite_status[Register(c)] <=> Held(u, c) = <<>>
BY HeldOf, RegisterOf DEF Sound, Agree

\* A latch to the parasite, written and read.
LEMMA LatchAccess ==
  ASSUME NEW u, Sound(u), NEW c \in HostLatches, NEW byte \in Nat
  PROVE  /\ Effect(u, LatchWrite(u, Register(c), byte), c, <<byte>>)
         /\ Effect(u, LatchRead(u, Register(c)), c, <<>>)
<1> DEFINE r == Register(c)
           v == LatchWrite(u, r, byte)
           w == LatchRead(u, r)
<1>1. r \in Latched /\ r \in Registers /\ u \in Ulas
  BY RegisterOf DEF Latched, Registers, Sound, Shaped
<1> HIDE DEF r
<1>2. /\ v = [u EXCEPT !.h2p = [u.h2p EXCEPT ![r] = byte],
              !.parasite_status = [u.parasite_status EXCEPT ![r] = @ \cup {"data"}],
              !.host_status = [u.host_status EXCEPT ![r] = @ \ {"space"}]]
      /\ w = [u EXCEPT !.parasite_status = [u.parasite_status EXCEPT ![r] = @ \ {"data"}],
              !.host_status = [u.host_status EXCEPT ![r] = @ \cup {"space"}]]
  BY <1>1 DEF LatchWrite, LatchRead, Add, Drop, Ulas
<1> HIDE DEF v, w
<1>3. v \in Ulas /\ w \in Ulas
  BY <1>1, <1>2 DEF Ulas, Flags
<1>4. /\ v.h2p = [u.h2p EXCEPT ![r] = byte] /\ w.h2p = u.h2p
      /\ v.p2h = u.p2h /\ w.p2h = u.p2h
      /\ v.parasite_status = [u.parasite_status EXCEPT ![r] = @ \cup {"data"}]
      /\ w.parasite_status = [u.parasite_status EXCEPT ![r] = @ \ {"data"}]
      /\ v.host_status = [u.host_status EXCEPT ![r] = @ \ {"space"}]
      /\ w.host_status = [u.host_status EXCEPT ![r] = @ \cup {"space"}]
      /\ v.control = u.control /\ w.control = u.control
  BY <1>1, <1>2 DEF Ulas
<1>5. /\ v.ring = u.ring /\ v.head = u.head /\ v.tail = u.tail /\ v.count = u.count
      /\ v.p2h_r3 = u.p2h_r3 /\ v.h2p_r3 = u.h2p_r3
      /\ w.ring = u.ring /\ w.head = u.head /\ w.tail = u.tail /\ w.count = u.count
      /\ w.p2h_r3 = u.p2h_r3 /\ w.h2p_r3 = u.h2p_r3
  BY <1>1, <1>2 DEF Ulas
<1>6. Shaped(v) /\ Shaped(w)
  BY <1>3, <1>5 DEF Sound, Shaped
<1>7. Agree(v) /\ Agree(w)
  BY <1>1, <1>4, <1>5 DEF Sound, Agree, Ulas, Latched, LatchedBack, Registers
<1>8. Held(v, c) = <<byte>> /\ Held(w, c) = <<>>
  <2>1. "data" \in v.parasite_status[r] /\ v.h2p[r] = byte /\ "data" \notin w.parasite_status[r]
    BY <1>1, <1>4 DEF Ulas
  <2> QED BY <2>1, HeldOf DEF r
<1>9. ASSUME NEW d \in Channels \ {c} PROVE Held(v, d) = Held(u, d) /\ Held(w, d) = Held(u, d)
  <2>1. d \in HostLatches =>
          /\ v.h2p[Register(d)] = u.h2p[Register(d)] /\ w.h2p[Register(d)] = u.h2p[Register(d)]
          /\ v.parasite_status[Register(d)] = u.parasite_status[Register(d)]
          /\ w.parasite_status[Register(d)] = u.parasite_status[Register(d)]
    <3>1. d \in HostLatches => Register(d) # r /\ Register(d) \in Latched /\ Register(d) \in Registers
      BY <1>9, RegisterOf DEF r, Latched, Registers
    <3> QED BY <1>1, <1>4, <3>1 DEF Ulas
  <2>2. d \in BackLatches =>
          /\ v.p2h[Register(d)] = u.p2h[Register(d)] /\ w.p2h[Register(d)] = u.p2h[Register(d)]
          /\ "data" \in v.host_status[Register(d)] <=> "data" \in u.host_status[Register(d)]
          /\ "data" \in w.host_status[Register(d)] <=> "data" \in u.host_status[Register(d)]
    <3>1. d \in BackLatches => Register(d) \in Registers
      BY RegisterOf DEF LatchedBack, Registers
    <3> QED BY <1>1, <1>4, <3>1 DEF Ulas
  <2> HIDE DEF Channels
  <2>3. d \in Channels
    BY <1>9
  <2>4. Held(v, d) = Held(u, d)
    BY <1>5, <2>1, <2>2, <2>3, HeldSame
  <2>5. Held(w, d) = Held(u, d)
    BY <1>5, <2>1, <2>2, <2>3, HeldSame
  <2> QED BY <2>4, <2>5
<1> QED BY <1>4, <1>6, <1>7, <1>8, <1>9 DEF Effect, Sound, r, v, w
\* A latch to the host, written and read.
LEMMA BackAccess ==
  ASSUME NEW u, Sound(u), NEW c \in BackLatches, NEW byte \in Nat
  PROVE  /\ Effect(u, BackWrite(u, Register(c), byte), c, <<byte>>)
         /\ Effect(u, BackRead(u, Register(c)), c, <<>>)
<1> DEFINE r == Register(c)
           v == BackWrite(u, r, byte)
           w == BackRead(u, r)
<1>1. r \in LatchedBack /\ r \in Registers /\ u \in Ulas
  BY RegisterOf DEF LatchedBack, Registers, Sound, Shaped
<1> HIDE DEF r
<1>2. /\ v = [u EXCEPT !.p2h = [u.p2h EXCEPT ![r] = byte],
              !.host_status = [u.host_status EXCEPT ![r] = @ \cup {"data"}],
              !.parasite_status = [u.parasite_status EXCEPT ![r] = @ \ {"space"}]]
      /\ w = [u EXCEPT !.host_status = [u.host_status EXCEPT ![r] = @ \ {"data"}],
              !.parasite_status = [u.parasite_status EXCEPT ![r] = @ \cup {"space"}]]
  BY <1>1 DEF BackWrite, BackRead, Add, Drop, Ulas
<1> HIDE DEF v, w
<1>3. v \in Ulas /\ w \in Ulas
  BY <1>1, <1>2 DEF Ulas, Flags
<1>4. /\ v.p2h = [u.p2h EXCEPT ![r] = byte] /\ w.p2h = u.p2h
      /\ v.h2p = u.h2p /\ w.h2p = u.h2p
      /\ v.host_status = [u.host_status EXCEPT ![r] = @ \cup {"data"}]
      /\ w.host_status = [u.host_status EXCEPT ![r] = @ \ {"data"}]
      /\ v.parasite_status = [u.parasite_status EXCEPT ![r] = @ \ {"space"}]
      /\ w.parasite_status = [u.parasite_status EXCEPT ![r] = @ \cup {"space"}]
      /\ v.control = u.control /\ w.control = u.control
  BY <1>1, <1>2 DEF Ulas
<1>5. /\ v.ring = u.ring /\ v.head = u.head /\ v.tail = u.tail /\ v.count = u.count
      /\ v.p2h_r3 = u.p2h_r3 /\ v.h2p_r3 = u.h2p_r3
      /\ w.ring = u.ring /\ w.head = u.head /\ w.tail = u.tail /\ w.count = u.count
      /\ w.p2h_r3 = u.p2h_r3 /\ w.h2p_r3 = u.h2p_r3
  BY <1>1, <1>2 DEF Ulas
<1>6. Shaped(v) /\ Shaped(w)
  BY <1>3, <1>5 DEF Sound, Shaped
<1>7. Agree(v) /\ Agree(w)
  BY <1>1, <1>4, <1>5 DEF Sound, Agree, Ulas, Latched, LatchedBack, Registers
<1>8. Held(v, c) = <<byte>> /\ Held(w, c) = <<>>
  <2>1. "data" \in v.host_status[r] /\ v.p2h[r] = byte /\ "data" \notin w.host_status[r]
    BY <1>1, <1>4 DEF Ulas
  <2> QED BY <2>1, HeldOf DEF r
<1>9. ASSUME NEW d \in Channels \ {c} PROVE Held(v, d) = Held(u, d) /\ Held(w, d) = Held(u, d)
  <2>1. d \in BackLatches =>
          /\ v.p2h[Register(d)] = u.p2h[Register(d)] /\ w.p2h[Register(d)] = u.p2h[Register(d)]
          /\ v.host_status[Register(d)] = u.host_status[Register(d)]
          /\ w.host_status[Register(d)] = u.host_status[Register(d)]
    <3>1. d \in BackLatches => Register(d) # r /\ Register(d) \in LatchedBack /\ Register(d) \in Registers
      BY <1>9, RegisterOf DEF r, LatchedBack, Registers
    <3> QED BY <1>1, <1>4, <3>1 DEF Ulas
  <2>2. d \in HostLatches =>
          /\ v.h2p[Register(d)] = u.h2p[Register(d)] /\ w.h2p[Register(d)] = u.h2p[Register(d)]
          /\ "data" \in v.parasite_status[Register(d)] <=> "data" \in u.parasite_status[Register(d)]
          /\ "data" \in w.parasite_status[Register(d)] <=> "data" \in u.parasite_status[Register(d)]
    <3>1. d \in HostLatches => Register(d) \in Registers
      BY RegisterOf DEF Latched, Registers
    <3> QED BY <1>1, <1>4, <3>1 DEF Ulas
  <2> HIDE DEF Channels
  <2>3. d \in Channels
    BY <1>9
  <2>4. Held(v, d) = Held(u, d)
    BY <1>5, <2>1, <2>2, <2>3, HeldSame
  <2>5. Held(w, d) = Held(u, d)
    BY <1>5, <2>1, <2>2, <2>3, HeldSame
  <2> QED BY <2>4, <2>5
<1> QED BY <1>4, <1>6, <1>7, <1>8, <1>9 DEF Effect, Sound, r, v, w

\* An access of register 3 leaves the channels of the other registers alone.
LEMMA OnlyR3 ==
  ASSUME NEW u, Sound(u), NEW v \in Ulas,
         Len(v.p2h_r3) <= 2, Len(v.h2p_r3) <= 2,
         v.ring = u.ring, v.head = u.head, v.tail = u.tail, v.count = u.count,
         v.p2h = u.p2h, v.h2p = u.h2p,
         \A r \in Latched : /\ v.host_status[r] = u.host_status[r]
                            /\ v.parasite_status[r] = u.parasite_status[r]
  PROVE  Sound(v) /\ \A d \in Channels \ {"r3h", "r3p"} : Held(v, d) = Held(u, d)
<1>1. Shaped(v)
  BY DEF Sound, Shaped
<1>2. Agree(v)
  BY DEF Sound, Agree, Latched, LatchedBack
<1>3. ASSUME NEW d \in Channels \ {"r3h", "r3p"} PROVE Held(v, d) = Held(u, d)
  <2>1. d \in Channels /\ d # "r3h" /\ d # "r3p"
    BY <1>3
  <2>2. d \in HostLatches \cup BackLatches => Register(d) \in Latched
    BY RegisterOf DEF Latched, LatchedBack
  <2> QED BY <2>1, <2>2, HeldSame
<1> QED BY <1>1, <1>2, <1>3 DEF Sound

\* The pair to the parasite: a third byte is dropped, the first one is taken.
LEMMA PairAccess ==
  ASSUME NEW u, Sound(u), NEW byte \in Nat
  PROVE  /\ Len(Held(u, "r3h")) < 2 =>
              Effect(u, PairWrite(u, byte), "r3h", Append(Held(u, "r3h"), byte))
         /\ Len(Held(u, "r3h")) >= 2 => PairWrite(u, byte) = u
         /\ Held(u, "r3h") # <<>> => Effect(u, PairRead(u), "r3h", Tail(Held(u, "r3h")))
         /\ Held(u, "r3h") = <<>> => PairRead(u) = u
<1> DEFINE q == u.h2p_r3
           v == PairWrite(u, byte)
           w == PairRead(u)
<1>0. /\ v = IF Len(q) = 2 THEN u
             ELSE [u EXCEPT !.h2p_r3 = Append(q, byte),
                    !.parasite_status = IF Len(q) + 1 >= Transfer(u)
                                          THEN Add(u.parasite_status, "r3", {"data"}) ELSE @,
                    !.host_status = IF Len(q) + 1 >= Transfer(u)
                                      THEN Drop(u.host_status, "r3", {"space"}) ELSE @]
      /\ w = IF q = <<>> THEN u
             ELSE [u EXCEPT !.h2p_r3 = Tail(q),
                    !.parasite_status = IF Len(q) = 1
                                          THEN Drop(u.parasite_status, "r3", {"data"}) ELSE @,
                    !.host_status = IF Len(q) = 1
                                      THEN Add(u.host_status, "r3", {"space", "data"}) ELSE @]
  BY DEF PairWrite, PairRead
<1>1. u \in Ulas /\ q \in Seq(Nat) /\ Held(u, "r3h") = q /\ Len(q) <= 2
  <2>1. u \in Ulas /\ Len(q) <= 2
    BY DEF Sound, Shaped
  <2> QED BY <2>1, HeldOf DEF Ulas
<1> HIDE DEF q, v, w
<1>2. ASSUME Len(q) < 2 PROVE Effect(u, v, "r3h", Append(q, byte))
  <2> DEFINE full == Len(q) + 1 >= Transfer(u)
  <2>1. v = [u EXCEPT !.h2p_r3 = Append(q, byte),
              !.parasite_status = IF full THEN [u.parasite_status EXCEPT !["r3"] = @ \cup {"data"}] ELSE @,
              !.host_status = IF full THEN [u.host_status EXCEPT !["r3"] = @ \ {"space"}] ELSE @]
    <3>1. Len(q) # 2
      BY <1>1, <1>2
    <3>2. v = [u EXCEPT !.h2p_r3 = Append(q, byte),
                 !.parasite_status = IF full THEN Add(u.parasite_status, "r3", {"data"}) ELSE @,
                 !.host_status = IF full THEN Drop(u.host_status, "r3", {"space"}) ELSE @]
      BY <1>0, <3>1
    <3> QED BY <3>2 DEF Add, Drop
  <2> HIDE DEF full
  <2>2. v \in Ulas
    <3>1. Append(q, byte) \in Seq(Nat)
      BY <1>1
    <3> QED BY <1>1, <2>1, <3>1 DEF Ulas, Flags, Registers
  <2>3. /\ v.ring = u.ring /\ v.head = u.head /\ v.tail = u.tail /\ v.count = u.count
        /\ v.p2h = u.p2h /\ v.h2p = u.h2p /\ v.control = u.control
        /\ v.p2h_r3 = u.p2h_r3 /\ v.h2p_r3 = Append(q, byte)
    BY <1>1, <2>1 DEF Ulas
  <2>4. \A r \in Latched : /\ v.host_status[r] = u.host_status[r]
                           /\ v.parasite_status[r] = u.parasite_status[r]
    BY <1>1, <2>1 DEF Ulas, Latched, Registers
  <2>5. Len(v.p2h_r3) <= 2 /\ Len(v.h2p_r3) <= 2
    BY <1>1, <1>2, <2>3 DEF Sound, Shaped
  <2>6. Sound(v) /\ \A d \in Channels \ {"r3h", "r3p"} : Held(v, d) = Held(u, d)
    BY <2>2, <2>3, <2>4, <2>5, OnlyR3
  <2>7. Held(v, "r3h") = Append(q, byte) /\ Held(v, "r3p") = Held(u, "r3p")
    BY <2>3, HeldOf
  <2> QED BY <2>3, <2>6, <2>7 DEF Effect
<1>3. ASSUME q # <<>> PROVE Effect(u, w, "r3h", Tail(q))
  <2> DEFINE last == Len(q) = 1
  <2>1. w = [u EXCEPT !.h2p_r3 = Tail(q),
              !.parasite_status = IF last THEN [u.parasite_status EXCEPT !["r3"] = @ \ {"data"}] ELSE @,
              !.host_status = IF last THEN [u.host_status EXCEPT !["r3"] = @ \cup {"space", "data"}] ELSE @]
    BY <1>0, <1>3 DEF Add, Drop
  <2> HIDE DEF last
  <2>2. w \in Ulas
    <3>1. Tail(q) \in Seq(Nat)
      BY <1>1, <1>3
    <3> QED BY <1>1, <2>1, <3>1 DEF Ulas, Flags, Registers
  <2>3. /\ w.ring = u.ring /\ w.head = u.head /\ w.tail = u.tail /\ w.count = u.count
        /\ w.p2h = u.p2h /\ w.h2p = u.h2p /\ w.control = u.control
        /\ w.p2h_r3 = u.p2h_r3 /\ w.h2p_r3 = Tail(q)
    BY <1>1, <2>1 DEF Ulas
  <2>4. \A r \in Latched : /\ w.host_status[r] = u.host_status[r]
                           /\ w.parasite_status[r] = u.parasite_status[r]
    BY <1>1, <2>1 DEF Ulas, Latched, Registers
  <2>5. Len(w.p2h_r3) <= 2 /\ Len(w.h2p_r3) <= 2
    <3>1. Len(Tail(q)) = Len(q) - 1
      BY <1>1, <1>3
    <3> QED BY <1>1, <3>1, <2>3 DEF Sound, Shaped
  <2>6. Sound(w) /\ \A d \in Channels \ {"r3h", "r3p"} : Held(w, d) = Held(u, d)
    BY <2>2, <2>3, <2>4, <2>5, OnlyR3
  <2>7. Held(w, "r3h") = Tail(q) /\ Held(w, "r3p") = Held(u, "r3p")
    BY <2>3, HeldOf
  <2> QED BY <2>3, <2>6, <2>7 DEF Effect
<1>4. Len(q) >= 2 => v = u
  <2>1. Len(q) >= 2 => Len(q) = 2
    <3>1. \A n \in Nat : n <= 2 /\ n >= 2 => n = 2
      OBVIOUS
    <3>2. Len(q) \in Nat /\ Len(q) <= 2
      BY <1>1
    <3> QED BY <3>1, <3>2
  <2> QED BY <1>0, <2>1
<1>5. q = <<>> => w = u
  BY <1>0
<1> QED BY <1>1, <1>2, <1>3, <1>4, <1>5 DEF v, w
\* The pair to the host: a third byte is dropped, the first one is taken.
LEMMA PairBackAccess ==
  ASSUME NEW u, Sound(u), NEW byte \in Nat
  PROVE  /\ Len(Held(u, "r3p")) < 2 =>
              Effect(u, PairBackWrite(u, byte), "r3p", Append(Held(u, "r3p"), byte))
         /\ Len(Held(u, "r3p")) >= 2 => PairBackWrite(u, byte) = u
         /\ Held(u, "r3p") # <<>> => Effect(u, PairBackRead(u), "r3p", Tail(Held(u, "r3p")))
         /\ Held(u, "r3p") = <<>> => PairBackRead(u) = u
<1> DEFINE q == u.p2h_r3
           v == PairBackWrite(u, byte)
           w == PairBackRead(u)
<1>0. /\ v = IF Len(q) = 2 THEN u
             ELSE [u EXCEPT !.p2h_r3 = Append(q, byte),
                    !.host_status = IF Len(q) + 1 >= Transfer(u)
                                          THEN Add(u.host_status, "r3", {"data"}) ELSE @,
                    !.parasite_status = IF Len(q) + 1 >= Transfer(u)
                                      THEN Drop(u.parasite_status, "r3", {"space", "data"}) ELSE @]
      /\ w = IF q = <<>> THEN u
             ELSE [u EXCEPT !.p2h_r3 = Tail(q),
                    !.host_status = IF Len(q) = 1
                                          THEN Drop(u.host_status, "r3", {"data"}) ELSE @,
                    !.parasite_status = IF Len(q) = 1
                                      THEN Add(u.parasite_status, "r3", {"space", "data"}) ELSE @]
  BY DEF PairBackWrite, PairBackRead
<1>1. u \in Ulas /\ q \in Seq(Nat) /\ Held(u, "r3p") = q /\ Len(q) <= 2
  <2>1. u \in Ulas /\ Len(q) <= 2
    BY DEF Sound, Shaped
  <2> QED BY <2>1, HeldOf DEF Ulas
<1> HIDE DEF q, v, w
<1>2. ASSUME Len(q) < 2 PROVE Effect(u, v, "r3p", Append(q, byte))
  <2> DEFINE full == Len(q) + 1 >= Transfer(u)
  <2>1. v = [u EXCEPT !.p2h_r3 = Append(q, byte),
              !.host_status = IF full THEN [u.host_status EXCEPT !["r3"] = @ \cup {"data"}] ELSE @,
              !.parasite_status = IF full THEN [u.parasite_status EXCEPT !["r3"] = @ \ {"space", "data"}] ELSE @]
    <3>1. Len(q) # 2
      BY <1>1, <1>2
    <3>2. v = [u EXCEPT !.p2h_r3 = Append(q, byte),
                 !.host_status = IF full THEN Add(u.host_status, "r3", {"data"}) ELSE @,
                 !.parasite_status = IF full THEN Drop(u.parasite_status, "r3", {"space", "data"}) ELSE @]
      BY <1>0, <3>1
    <3> QED BY <3>2 DEF Add, Drop
  <2> HIDE DEF full
  <2>2. v \in Ulas
    <3>1. Append(q, byte) \in Seq(Nat)
      BY <1>1
    <3> QED BY <1>1, <2>1, <3>1 DEF Ulas, Flags, Registers
  <2>3. /\ v.ring = u.ring /\ v.head = u.head /\ v.tail = u.tail /\ v.count = u.count
        /\ v.p2h = u.p2h /\ v.h2p = u.h2p /\ v.control = u.control
        /\ v.h2p_r3 = u.h2p_r3 /\ v.p2h_r3 = Append(q, byte)
    BY <1>1, <2>1 DEF Ulas
  <2>4. \A r \in Latched : /\ v.parasite_status[r] = u.parasite_status[r]
                           /\ v.host_status[r] = u.host_status[r]
    BY <1>1, <2>1 DEF Ulas, Latched, Registers
  <2>5. Len(v.h2p_r3) <= 2 /\ Len(v.p2h_r3) <= 2
    BY <1>1, <1>2, <2>3 DEF Sound, Shaped
  <2>6. Sound(v) /\ \A d \in Channels \ {"r3h", "r3p"} : Held(v, d) = Held(u, d)
    BY <2>2, <2>3, <2>4, <2>5, OnlyR3
  <2>7. Held(v, "r3p") = Append(q, byte) /\ Held(v, "r3h") = Held(u, "r3h")
    BY <2>3, HeldOf
  <2> QED BY <2>3, <2>6, <2>7 DEF Effect
<1>3. ASSUME q # <<>> PROVE Effect(u, w, "r3p", Tail(q))
  <2> DEFINE last == Len(q) = 1
  <2>1. w = [u EXCEPT !.p2h_r3 = Tail(q),
              !.host_status = IF last THEN [u.host_status EXCEPT !["r3"] = @ \ {"data"}] ELSE @,
              !.parasite_status = IF last THEN [u.parasite_status EXCEPT !["r3"] = @ \cup {"space", "data"}] ELSE @]
    BY <1>0, <1>3 DEF Add, Drop
  <2> HIDE DEF last
  <2>2. w \in Ulas
    <3>1. Tail(q) \in Seq(Nat)
      BY <1>1, <1>3
    <3> QED BY <1>1, <2>1, <3>1 DEF Ulas, Flags, Registers
  <2>3. /\ w.ring = u.ring /\ w.head = u.head /\ w.tail = u.tail /\ w.count = u.count
        /\ w.p2h = u.p2h /\ w.h2p = u.h2p /\ w.control = u.control
        /\ w.h2p_r3 = u.h2p_r3 /\ w.p2h_r3 = Tail(q)
    BY <1>1, <2>1 DEF Ulas
  <2>4. \A r \in Latched : /\ w.parasite_status[r] = u.parasite_status[r]
                           /\ w.host_status[r] = u.host_status[r]
    BY <1>1, <2>1 DEF Ulas, Latched, Registers
  <2>5. Len(w.h2p_r3) <= 2 /\ Len(w.p2h_r3) <= 2
    <3>1. Len(Tail(q)) = Len(q) - 1
      BY <1>1, <1>3
    <3> QED BY <1>1, <3>1, <2>3 DEF Sound, Shaped
  <2>6. Sound(w) /\ \A d \in Channels \ {"r3h", "r3p"} : Held(w, d) = Held(u, d)
    BY <2>2, <2>3, <2>4, <2>5, OnlyR3
  <2>7. Held(w, "r3p") = Tail(q) /\ Held(w, "r3h") = Held(u, "r3h")
    BY <2>3, HeldOf
  <2> QED BY <2>3, <2>6, <2>7 DEF Effect
<1>4. Len(q) >= 2 => v = u
  <2>1. Len(q) >= 2 => Len(q) = 2
    <3>1. \A n \in Nat : n <= 2 /\ n >= 2 => n = 2
      OBVIOUS
    <3>2. Len(q) \in Nat /\ Len(q) <= 2
      BY <1>1
    <3> QED BY <3>1, <3>2
  <2> QED BY <1>0, <2>1
<1>5. q = <<>> => w = u
  BY <1>0
<1> QED BY <1>1, <1>2, <1>3, <1>4, <1>5 DEF v, w

\* The bytes of the ring are a sequence; one more at the tail, one less at the head.
LEMMA RingBytes ==
  ASSUME NEW ring \in [Slots -> Nat], NEW head \in Slots, NEW count \in 0..RingSize
  PROVE  /\ InRing(count, ring, head) \in Seq(Nat)
         /\ Len(InRing(count, ring, head)) = count
         /\ (InRing(count, ring, head) = <<>>) <=> (count = 0)
         /\ count < RingSize =>
              \A byte \in Nat :
                InRing(count + 1, [ring EXCEPT ![(head + count) % RingSize] = byte], head)
                  = Append(InRing(count, ring, head), byte)
         /\ count > 0 =>
              InRing(count - 1, ring, (head + 1) % RingSize) = Tail(InRing(count, ring, head))
<1> USE TubeAssumption
<1> DEFINE q == InRing(count, ring, head)
           at(i) == (head + i - 1) % RingSize
<1>0. RingSize \in Nat \ {0} /\ head \in 0..(RingSize - 1) /\ count \in Nat /\ count <= RingSize
  BY DEF Slots
<1>1. \A i \in 1..count : at(i) \in Slots
  <2>1. ASSUME NEW i \in 1..count PROVE at(i) \in Slots
    <3>1. i - 1 \in 0..(RingSize - 1) /\ head + i - 1 = head + (i - 1)
      BY <1>0
    <3> QED BY <1>0, <3>1, ModNext DEF Slots
  <2> QED BY <2>1
<1>2. q = [i \in 1..count |-> ring[at(i)]]
  BY DEF InRing
<1> HIDE DEF q, at
<1>3. q \in [1..count -> Nat]
  BY <1>1, <1>2
<1>4. q \in Seq(Nat) /\ Len(q) = count
  BY <1>0, <1>3
<1>5. (q = <<>>) <=> (count = 0)
  BY <1>0, <1>4
<1>6. ASSUME count < RingSize, NEW byte \in Nat
      PROVE  InRing(count + 1, [ring EXCEPT ![(head + count) % RingSize] = byte], head) = Append(q, byte)
  <2> DEFINE new == [ring EXCEPT ![at(count + 1)] = byte]
             w == InRing(count + 1, new, head)
  <2>1. at(count + 1) = (head + count) % RingSize /\ at(count + 1) \in Slots
    <3>1. head + (count + 1) - 1 = head + count /\ count \in 0..(RingSize - 1)
      BY <1>0, <1>6
    <3> QED BY <1>0, <3>1, ModNext DEF at, Slots
  <2>2. \A i \in 1..count : at(i) # at(count + 1)
    <3>1. ASSUME NEW i \in 1..count PROVE at(i) # at(count + 1)
      <4> DEFINE a == head + i - 1
                 b == head + count
      <4>1. a \in Nat /\ a < 2 * RingSize /\ b \in Nat /\ b < 2 * RingSize /\ a < b /\ b - a < RingSize
        BY <1>0, <1>6
      <4> HIDE DEF a, b
      <4>2. /\ a % RingSize = IF a < RingSize THEN a ELSE a - RingSize
            /\ b % RingSize = IF b < RingSize THEN b ELSE b - RingSize
        BY <1>0, <4>1, ModOnce
      <4>3. a % RingSize # b % RingSize
        BY <1>0, <4>1, <4>2
      <4> QED BY <2>1, <4>3 DEF at, a, b
    <3> QED BY <3>1
  <2>3. w = [i \in 1..(count + 1) |-> new[at(i)]]
    BY DEF InRing, at
  <2>4. \A i \in 1..count : w[i] = q[i]
    <3>1. ASSUME NEW i \in 1..count PROVE w[i] = q[i]
      <4>1. w[i] = new[at(i)] /\ q[i] = ring[at(i)] /\ i \in 1..(count + 1)
        BY <1>0, <1>2, <2>3
      <4>2. new[at(i)] = ring[at(i)]
        BY <1>1, <2>1, <2>2
      <4> QED BY <4>1, <4>2
    <3> QED BY <3>1
  <2>5. w[count + 1] = byte
    <3>1. w[count + 1] = new[at(count + 1)]
      BY <1>0, <2>3
    <3> QED BY <2>1, <3>1
  <2>6. w \in Seq(Nat) /\ Len(w) = count + 1
    <3>1. \A i \in 1..(count + 1) : new[at(i)] \in Nat
      <4>1. \A i \in 1..(count + 1) : i = count + 1 \/ i \in 1..count
        BY <1>0
      <4>2. new \in [Slots -> Nat]
        BY <2>1
      <4> QED BY <1>1, <2>1, <4>1, <4>2
    <3>2. w \in [1..(count + 1) -> Nat]
      BY <2>3, <3>1
    <3>3. count + 1 \in Nat
      BY <1>0
    <3> HIDE DEF w, new
    <3> QED BY <3>2, <3>3
  <2>7. w = Append(q, byte)
    <3>1. /\ Append(q, byte) \in Seq(Nat) /\ Len(Append(q, byte)) = count + 1
          /\ \A i \in 1..count : Append(q, byte)[i] = q[i]
          /\ Append(q, byte)[count + 1] = byte
      BY <1>4, AppendProperties
    <3>2. \A i \in 1..(count + 1) : i = count + 1 \/ i \in 1..count
      BY <1>0
    <3> HIDE DEF new, w
    <3>3. \A i \in 1..(count + 1) : w[i] = Append(q, byte)[i]
      BY <2>4, <2>5, <3>1, <3>2
    <3> QED BY <2>6, <3>1, <3>3, SeqEqual
  <2> QED BY <2>1, <2>7
<1>7. ASSUME count > 0 PROVE InRing(count - 1, ring, (head + 1) % RingSize) = Tail(q)
  <2> DEFINE w == InRing(count - 1, ring, (head + 1) % RingSize)
             next == (head + 1) % RingSize
  <2>1. w = [i \in 1..(count - 1) |-> ring[(next + i - 1) % RingSize]]
    BY DEF InRing
  <2>2. \A i \in 1..(count - 1) : (next + i - 1) % RingSize = at(i + 1)
    <3>1. ASSUME NEW i \in 1..(count - 1) PROVE (next + i - 1) % RingSize = at(i + 1)
      <4>1. i - 1 \in 0..(RingSize - 1) /\ head + (i + 1) - 1 = head + ((i - 1) + 1)
        BY <1>0
      <4>2. (((head + 1) % RingSize) + (i - 1)) % RingSize = (head + ((i - 1) + 1)) % RingSize
        BY <1>0, <4>1, ModNext
      <4>3. next \in Nat
        <5> DEFINE n == head + 1
        <5>1. n \in Nat /\ n < 2 * RingSize
          BY <1>0
        <5> HIDE DEF n
        <5>2. n % RingSize = IF n < RingSize THEN n ELSE n - RingSize
          BY <1>0, <5>1, ModOnce
        <5>3. n % RingSize \in Nat
          BY <1>0, <5>1, <5>2
        <5> QED BY <5>3 DEF n
      <4>4. next + i - 1 = next + (i - 1)
        BY <4>3
      <4> QED BY <4>1, <4>2, <4>4 DEF at
    <3> QED BY <3>1
  <2>3. /\ Tail(q) \in Seq(Nat) /\ Len(Tail(q)) = count - 1
        /\ \A i \in 1..(count - 1) : Tail(q)[i] = q[i + 1]
    <3>1. q # <<>>
      BY <1>0, <1>5, <1>7
    <3> QED BY <1>4, <3>1, HeadTailProperties
  <2>4. \A i \in 1..(count - 1) : i + 1 \in 1..count /\ q[i + 1] = ring[at(i + 1)]
    BY <1>0, <1>2
  <2> HIDE DEF w, next
  <2>5. \A i \in 1..(count - 1) : w[i] = ring[at(i + 1)] /\ w[i] \in Nat
    BY <1>1, <2>1, <2>2, <2>4
  <2>6. w \in Seq(Nat) /\ Len(w) = count - 1
    <3>1. w \in [1..(count - 1) -> Nat] /\ count - 1 \in Nat
      BY <1>0, <1>7, <2>1, <2>5
    <3> QED BY <3>1
  <2>7. w = Tail(q)
    BY <2>3, <2>4, <2>5, <2>6, SeqEqual
  <2> QED BY <2>7 DEF w, next
<1> QED BY <1>4, <1>5, <1>6, <1>7 DEF q

\* The ring to the host: a byte more than it has room for is dropped, the oldest
\* one is taken.
LEMMA RingAccess ==
  ASSUME NEW u, Sound(u), NEW byte \in Nat
  PROVE  /\ Len(Held(u, "r1p")) < RingSize =>
              Effect(u, RingWrite(u, byte), "r1p", Append(Held(u, "r1p"), byte))
         /\ Len(Held(u, "r1p")) >= RingSize => RingWrite(u, byte) = u
         /\ Held(u, "r1p") # <<>> => Effect(u, RingRead(u), "r1p", Tail(Held(u, "r1p")))
         /\ Held(u, "r1p") = <<>> => RingRead(u) = u
<1> USE TubeAssumption
<1> DEFINE q == Held(u, "r1p")
           n == u.count
           h == u.head
           v == RingWrite(u, byte)
           w == RingRead(u)
<1>0. /\ v = IF n = RingSize THEN u
             ELSE [u EXCEPT !.ring = [u.ring EXCEPT ![u.tail] = byte], !.tail = (@ + 1) % RingSize,
                    !.count = n + 1,
                    !.host_status = [u.host_status EXCEPT !["r1"] = @ \cup {"data"}],
                    !.parasite_status = IF n + 1 = RingSize
                                          THEN [u.parasite_status EXCEPT !["r1"] = @ \ {"space"}]
                                          ELSE @]
      /\ w = IF n = 0 THEN u
             ELSE [u EXCEPT !.head = (h + 1) % RingSize, !.count = n - 1,
                    !.host_status = IF n = 1 THEN [u.host_status EXCEPT !["r1"] = @ \ {"data"}] ELSE @,
                    !.parasite_status = [u.parasite_status EXCEPT !["r1"] = @ \cup {"space"}]]
  BY DEF RingWrite, RingRead, Add, Drop
<1>1. u \in Ulas /\ Agree(u) /\ u.tail = (h + n) % RingSize /\ Len(u.p2h_r3) <= 2 /\ Len(u.h2p_r3) <= 2
  BY DEF Sound, Shaped
<1>2. /\ u.ring \in [Slots -> Nat] /\ h \in Slots /\ n \in 0..RingSize /\ u.tail \in Slots
      /\ u.host_status \in [Registers -> Flags] /\ u.parasite_status \in [Registers -> Flags]
  BY <1>1 DEF Ulas
<1>3. q = InRing(n, u.ring, h) /\ q \in Seq(Nat) /\ Len(q) = n /\ (q = <<>> <=> n = 0)
  <2>1. q = InRing(n, u.ring, h)
    BY HeldOf
  <2> HIDE DEF q, n, h
  <2> QED BY <1>2, <2>1, RingBytes
<1>4. RingSize \in Nat \ {0} /\ n \in Nat /\ n <= RingSize /\ h \in 0..(RingSize - 1)
  BY <1>2 DEF Slots
<1> HIDE DEF q, n, h, v, w
<1>5. ASSUME n < RingSize PROVE Effect(u, v, "r1p", Append(q, byte))
  <2> DEFINE full == n + 1 = RingSize
  <2>1. v = [u EXCEPT !.ring = [u.ring EXCEPT ![u.tail] = byte], !.tail = (u.tail + 1) % RingSize,
               !.count = n + 1,
               !.host_status = [u.host_status EXCEPT !["r1"] = @ \cup {"data"}],
               !.parasite_status = IF full THEN [u.parasite_status EXCEPT !["r1"] = @ \ {"space"}]
                                   ELSE @]
    BY <1>0, <1>4, <1>5
  <2>2. (u.tail + 1) % RingSize = (h + (n + 1)) % RingSize /\ (u.tail + 1) % RingSize \in Slots
    <3>1. n \in 0..(RingSize - 1)
      BY <1>4, <1>5
    <3> QED BY <1>1, <1>4, <3>1, ModNext, SMTT(30) DEF Slots
  <2>3. n + 1 \in 0..RingSize /\ n + 1 > 0 /\ (full <=> ~(n + 1 < RingSize)) /\ full \in BOOLEAN
    BY <1>4, <1>5
  <2> HIDE DEF full
  <2>4. v \in Ulas
    <3>1. [u.ring EXCEPT ![u.tail] = byte] \in [Slots -> Nat]
      BY <1>2
    <3>2. [u.host_status EXCEPT !["r1"] = @ \cup {"data"}] \in [Registers -> Flags]
      BY <1>2 DEF Flags
    <3>3. (IF full THEN [u.parasite_status EXCEPT !["r1"] = @ \ {"space"}] ELSE u.parasite_status)
            \in [Registers -> Flags]
      BY <1>2 DEF Flags
    <3> QED BY <1>1, <2>1, <2>2, <2>3, <3>1, <3>2, <3>3 DEF Ulas
  <2>5. /\ v.ring = [u.ring EXCEPT ![u.tail] = byte] /\ v.head = h /\ v.tail = (u.tail + 1) % RingSize
        /\ v.count = n + 1 /\ v.p2h = u.p2h /\ v.h2p = u.h2p /\ v.control = u.control
        /\ v.p2h_r3 = u.p2h_r3 /\ v.h2p_r3 = u.h2p_r3
    BY <1>1, <2>1 DEF Ulas, h
  <2>6. /\ v.host_status = [u.host_status EXCEPT !["r1"] = @ \cup {"data"}]
        /\ v.parasite_status = IF full THEN [u.parasite_status EXCEPT !["r1"] = @ \ {"space"}]
                               ELSE u.parasite_status
    BY <1>1, <2>1 DEF Ulas
  <2>7. Shaped(v)
    BY <1>1, <2>2, <2>4, <2>5 DEF Shaped
  <2>8. /\ \A r \in Registers \ {"r1"} : /\ v.host_status[r] = u.host_status[r]
                                         /\ v.parasite_status[r] = u.parasite_status[r]
        /\ "data" \in v.host_status["r1"]
        /\ "space" \in v.host_status["r1"] <=> "space" \in u.host_status["r1"]
        /\ "data" \in v.parasite_status["r1"] <=> "data" \in u.parasite_status["r1"]
        /\ "space" \in v.parasite_status["r1"] <=> ("space" \in u.parasite_status["r1"] /\ ~full)
    BY <1>2, <2>6 DEF Registers
  <2>9. "space" \in u.parasite_status["r1"]
    BY <1>1, <1>5 DEF Agree, n
  <2>10. Agree(v)
    <3>1. \A r \in Latched : "space" \in v.host_status[r] <=> "data" \notin v.parasite_status[r]
      BY <1>1, <2>8 DEF Agree, Latched, Registers
    <3>2. \A r \in LatchedBack : "space" \in v.parasite_status[r] <=> "data" \notin v.host_status[r]
      BY <1>1, <2>8 DEF Agree, LatchedBack, Registers
    <3>3. "data" \in v.host_status["r1"] <=> v.count > 0
      BY <2>3, <2>5, <2>8
    <3>4. "space" \in v.parasite_status["r1"] <=> v.count < RingSize
      BY <2>3, <2>5, <2>8, <2>9
    <3> QED BY <3>1, <3>2, <3>3, <3>4 DEF Agree
  <2>11. Held(v, "r1p") = Append(q, byte)
    <3>1. Held(v, "r1p") = InRing(n + 1, [u.ring EXCEPT ![(h + n) % RingSize] = byte], h)
      BY <1>1, <2>5, HeldOf
    <3>2. \A new \in Nat : InRing(n + 1, [u.ring EXCEPT ![(h + n) % RingSize] = new], h)
                             = Append(InRing(n, u.ring, h), new)
      BY <1>2, <1>5, RingBytes, ZenonT(60)
    <3> QED BY <1>3, <3>1, <3>2
  <2>12. ASSUME NEW d \in Channels \ {"r1p"} PROVE Held(v, d) = Held(u, d)
    <3>1. d \in Channels /\ d # "r1p"
      BY <2>12
    <3>2. d \in HostLatches => Register(d) \in Registers
      BY RegisterOf DEF Latched, Registers
    <3>3. d \in BackLatches => Register(d) \in Registers \ {"r1"}
      BY RegisterOf DEF LatchedBack, Registers
    <3>4. d \in HostLatches =>
            ("data" \in v.parasite_status[Register(d)] <=> "data" \in u.parasite_status[Register(d)])
      BY <2>8, <3>2
    <3>5. d \in BackLatches =>
            ("data" \in v.host_status[Register(d)] <=> "data" \in u.host_status[Register(d)])
      BY <2>8, <3>3
    <3> QED BY <2>5, <3>1, <3>4, <3>5, HeldSame
  <2> QED BY <2>5, <2>7, <2>10, <2>11, <2>12 DEF Effect, Sound
<1>6. ASSUME n > 0 PROVE Effect(u, w, "r1p", Tail(q))
  <2> DEFINE last == n = 1
  <2>1. w = [u EXCEPT !.head = (h + 1) % RingSize, !.count = n - 1,
               !.host_status = IF last THEN [u.host_status EXCEPT !["r1"] = @ \ {"data"}] ELSE @,
               !.parasite_status = [u.parasite_status EXCEPT !["r1"] = @ \cup {"space"}]]
    BY <1>0, <1>4, <1>6
  <2>2. (((h + 1) % RingSize) + (n - 1)) % RingSize = (h + n) % RingSize /\ (h + 1) % RingSize \in Slots
    <3>1. n - 1 \in 0..(RingSize - 1) /\ h + ((n - 1) + 1) = h + n /\ 0 \in 0..(RingSize - 1) /\ 0 + 1 = 1
      BY <1>4, <1>6
    <3>2. (((h + 1) % RingSize) + (n - 1)) % RingSize = (h + ((n - 1) + 1)) % RingSize
      BY <1>4, <3>1, ModNext
    <3>3. (h + (0 + 1)) % RingSize \in 0..(RingSize - 1)
      BY <1>4, <3>1, ModNext
    <3> QED BY <3>1, <3>2, <3>3 DEF Slots
  <2>3. n - 1 \in 0..RingSize /\ n - 1 < RingSize /\ (last <=> ~(n - 1 > 0)) /\ last \in BOOLEAN
    BY <1>4, <1>6
  <2> HIDE DEF last
  <2>4. w \in Ulas
    <3>1. [u.parasite_status EXCEPT !["r1"] = @ \cup {"space"}] \in [Registers -> Flags]
      BY <1>2 DEF Flags
    <3>2. (IF last THEN [u.host_status EXCEPT !["r1"] = @ \ {"data"}] ELSE u.host_status)
            \in [Registers -> Flags]
      BY <1>2 DEF Flags
    <3> QED BY <1>1, <2>1, <2>2, <2>3, <3>1, <3>2 DEF Ulas
  <2>5. /\ w.ring = u.ring /\ w.head = (h + 1) % RingSize /\ w.tail = u.tail
        /\ w.count = n - 1 /\ w.p2h = u.p2h /\ w.h2p = u.h2p /\ w.control = u.control
        /\ w.p2h_r3 = u.p2h_r3 /\ w.h2p_r3 = u.h2p_r3
    BY <1>1, <2>1 DEF Ulas
  <2>6. /\ w.parasite_status = [u.parasite_status EXCEPT !["r1"] = @ \cup {"space"}]
        /\ w.host_status = IF last THEN [u.host_status EXCEPT !["r1"] = @ \ {"data"}]
                           ELSE u.host_status
    BY <1>1, <2>1 DEF Ulas
  <2>7. Shaped(w)
    BY <1>1, <2>2, <2>4, <2>5 DEF Shaped
  <2>8. /\ \A r \in Registers \ {"r1"} : /\ w.host_status[r] = u.host_status[r]
                                         /\ w.parasite_status[r] = u.parasite_status[r]
        /\ "space" \in w.parasite_status["r1"]
        /\ "space" \in w.host_status["r1"] <=> "space" \in u.host_status["r1"]
        /\ "data" \in w.parasite_status["r1"] <=> "data" \in u.parasite_status["r1"]
        /\ "data" \in w.host_status["r1"] <=> ("data" \in u.host_status["r1"] /\ ~last)
    BY <1>2, <2>6 DEF Registers
  <2>9. "data" \in u.host_status["r1"]
    BY <1>1, <1>6 DEF Agree, n
  <2>10. Agree(w)
    <3>1. \A r \in Latched : "space" \in w.host_status[r] <=> "data" \notin w.parasite_status[r]
      BY <1>1, <2>8 DEF Agree, Latched, Registers
    <3>2. \A r \in LatchedBack : "space" \in w.parasite_status[r] <=> "data" \notin w.host_status[r]
      BY <1>1, <2>8 DEF Agree, LatchedBack, Registers
    <3>3. "data" \in w.host_status["r1"] <=> w.count > 0
      BY <2>3, <2>5, <2>8, <2>9
    <3>4. "space" \in w.parasite_status["r1"] <=> w.count < RingSize
      BY <2>3, <2>5, <2>8
    <3> QED BY <3>1, <3>2, <3>3, <3>4 DEF Agree
  <2>11. Held(w, "r1p") = Tail(q)
    <3>1. Held(w, "r1p") = InRing(n - 1, u.ring, (h + 1) % RingSize)
      BY <2>5, HeldOf
    <3> QED BY <1>2, <1>3, <1>6, <3>1, RingBytes
  <2>12. ASSUME NEW d \in Channels \ {"r1p"} PROVE Held(w, d) = Held(u, d)
    <3>1. d \in Channels /\ d # "r1p"
      BY <2>12
    <3>2. d \in HostLatches => Register(d) \in Registers
      BY RegisterOf DEF Latched, Registers
    <3>3. d \in BackLatches => Register(d) \in Registers \ {"r1"}
      BY RegisterOf DEF LatchedBack, Registers
    <3>4. d \in HostLatches =>
            ("data" \in w.parasite_status[Register(d)] <=> "data" \in u.parasite_status[Register(d)])
      BY <2>8, <3>2
    <3>5. d \in BackLatches =>
            ("data" \in w.host_status[Register(d)] <=> "data" \in u.host_status[Register(d)])
      BY <2>8, <3>3
    <3> QED BY <2>5, <3>1, <3>4, <3>5, HeldSame
  <2> QED BY <2>5, <2>7, <2>10, <2>11, <2>12 DEF Effect, Sound
<1>7. (n >= RingSize => v = u) /\ (n = 0 => w = u)
  <2>1. n >= RingSize => n = RingSize
    BY <1>4
  <2> QED BY <1>0, <2>1
<1>8. n # 0 => n > 0
  BY <1>4
<1> QED BY <1>3, <1>5, <1>6, <1>7, <1>8 DEF q, v, w

\* A write to a channel whose sender sees space, and a read, as the queue has them.
LEMMA WrittenQueue ==
  ASSUME NEW u, Sound(u), NEW c \in Channels, NEW byte \in Nat,
         c \in HostLatches => "space" \in u.host_status[Register(c)],
         c \in BackLatches => "space" \in u.parasite_status[Register(c)]
  PROVE  \/ Written(u, c, byte) = u
         \/ /\ Len(Held(u, c)) < Room(c)
            /\ Effect(u, Written(u, c, byte), c, Append(Held(u, c), byte))
<1>1. CASE c = "r1p"
  <2>1. Written(u, c, byte) = RingWrite(u, byte) /\ Room(c) = RingSize
    BY <1>1 DEF Written, Room, HostLatches, HostChannels
  <2>2. Len(Held(u, "r1p")) \in Nat
    <3>1. u.ring \in [Slots -> Nat] /\ u.head \in Slots /\ u.count \in 0..RingSize
      BY DEF Sound, Shaped, Ulas
    <3> QED BY <3>1, HeldOf, RingBytes
  <2> QED BY <1>1, <2>1, <2>2, TubeAssumption, RingAccess
<1>2. CASE c = "r3p"
  <2>1. Written(u, c, byte) = PairBackWrite(u, byte) /\ Room(c) = 2
    BY <1>2 DEF Written, Room, HostLatches, HostChannels
  <2>2. Len(Held(u, "r3p")) \in Nat
    <3>1. u.p2h_r3 \in Seq(Nat)
      BY DEF Sound, Shaped, Ulas
    <3> QED BY <3>1, HeldOf
  <2> QED BY <1>2, <2>1, <2>2, PairBackAccess
<1>3. CASE c = "r3h"
  <2>1. Written(u, c, byte) = PairWrite(u, byte) /\ Room(c) = 2
    BY <1>3 DEF Written, Room, HostLatches, HostChannels
  <2>2. Len(Held(u, "r3h")) \in Nat
    <3>1. u.h2p_r3 \in Seq(Nat)
      BY DEF Sound, Shaped, Ulas
    <3> QED BY <3>1, HeldOf
  <2> QED BY <1>3, <2>1, <2>2, PairAccess
<1>4. CASE c \in HostLatches
  <2>1. Written(u, c, byte) = LatchWrite(u, Register(c), byte) /\ Room(c) = 1
    BY <1>4 DEF Written, Room, HostLatches, HostChannels
  <2>2. Held(u, c) = <<>>
    BY <1>4, LatchEmpty
  <2>3. Append(<<>>, byte) = <<byte>> /\ Len(<<>>) < 1
    OBVIOUS
  <2> QED BY <1>4, <2>1, <2>2, <2>3, LatchAccess
<1>5. CASE c \in BackLatches
  <2>1. Written(u, c, byte) = BackWrite(u, Register(c), byte) /\ Room(c) = 1
    BY <1>5 DEF Written, Room, HostLatches, HostChannels, BackLatches
  <2>2. Held(u, c) = <<>>
    BY <1>5, LatchEmpty
  <2>3. Append(<<>>, byte) = <<byte>> /\ Len(<<>>) < 1
    OBVIOUS
  <2> QED BY <1>5, <2>1, <2>2, <2>3, BackAccess
<1> QED BY <1>1, <1>2, <1>3, <1>4, <1>5, RegisterOf

\* The channels after a byte was taken from one.
LEMMA TakenQueue ==
  ASSUME NEW u, Sound(u), NEW c \in Channels
  PROVE  /\ Held(u, c) # <<>> => Effect(u, Taken(u, c), c, Tail(Held(u, c)))
         /\ Held(u, c) = <<>> => Effect(u, Taken(u, c), c, <<>>)
<1>0. Held(u, c) = <<>> => Effect(u, u, c, <<>>)
  BY DEF Effect
<1>1. CASE c = "r1p"
  <2>1. Taken(u, c) = RingRead(u)
    BY <1>1 DEF Taken, HostLatches, HostChannels
  <2> QED BY <1>0, <1>1, <2>1, RingAccess
<1>2. CASE c = "r3p"
  <2>1. Taken(u, c) = PairBackRead(u)
    BY <1>2 DEF Taken, HostLatches, HostChannels
  <2> QED BY <1>0, <1>2, <2>1, PairBackAccess
<1>3. CASE c = "r3h"
  <2>1. Taken(u, c) = PairRead(u)
    BY <1>3 DEF Taken, HostLatches, HostChannels
  <2> QED BY <1>0, <1>3, <2>1, PairAccess
<1>4. CASE c \in HostLatches
  <2>1. Taken(u, c) = LatchRead(u, Register(c))
    BY <1>4 DEF Taken, HostLatches, HostChannels
  <2>2. Held(u, c) # <<>> => Tail(Held(u, c)) = <<>>
    <3>1. \A b : Tail(<<b>>) = <<>>
      OBVIOUS
    <3> QED BY <1>4, <3>1, HeldOf, ZenonT(60)
  <2> QED BY <1>4, <2>1, <2>2, LatchAccess
<1>5. CASE c \in BackLatches
  <2>1. Taken(u, c) = BackRead(u, Register(c))
    BY <1>5 DEF Taken, HostLatches, HostChannels, BackLatches
  <2>2. Held(u, c) # <<>> => Tail(Held(u, c)) = <<>>
    <3>1. \A b : Tail(<<b>>) = <<>>
      OBVIOUS
    <3> QED BY <1>5, <3>1, HeldOf, ZenonT(60)
  <2> QED BY <1>5, <2>1, <2>2, BackAccess
<1> QED BY <1>1, <1>2, <1>3, <1>4, <1>5, RegisterOf

\* A reset and a write of control bits.
LEMMA FreshSound ==
  ASSUME NEW bits \in SUBSET Bits
  PROVE  /\ Sound([FreshUla EXCEPT !.control = bits])
         /\ \A c \in Channels : Held([FreshUla EXCEPT !.control = bits], c) = <<>>
         /\ FreshUla = [FreshUla EXCEPT !.control = {}]
<1> DEFINE u == [FreshUla EXCEPT !.control = bits]
<1>0. RingSize \in Nat \ {0} /\ 0 \in Slots /\ 0 \in 0..RingSize
  BY TubeAssumption DEF Slots
<1>1. /\ u.ring = [i \in Slots |-> 0] /\ u.head = 0 /\ u.tail = 0 /\ u.count = 0
      /\ u.p2h = [r \in LatchedBack |-> 0] /\ u.h2p = [r \in Latched |-> 0]
      /\ u.p2h_r3 = <<>> /\ u.h2p_r3 = <<>>
      /\ u.host_status = [r \in Registers |-> IF r = "r3" THEN {"space", "data"} ELSE {"space"}]
      /\ u.parasite_status = [r \in Registers |-> IF r = "r3" THEN {} ELSE {"space"}]
      /\ u.control = bits
  BY DEF FreshUla
<1>2. u \in Ulas /\ FreshUla = [FreshUla EXCEPT !.control = {}]
  <2>1. ASSUME NEW a \in [Slots -> Nat], NEW b \in [LatchedBack -> Nat], NEW c \in [Latched -> Nat],
               NEW d \in [Registers -> Flags], NEW e \in [Registers -> Flags], NEW q \in Seq(Nat),
               FreshUla = [ring |-> a, head |-> 0, tail |-> 0, count |-> 0, p2h |-> b, h2p |-> c,
                           p2h_r3 |-> q, h2p_r3 |-> q, host_status |-> d, parasite_status |-> e,
                           control |-> {}]
        PROVE  u \in Ulas /\ FreshUla = [FreshUla EXCEPT !.control = {}]
    <3>1. FreshUla \in Ulas /\ FreshUla.control = {}
      BY <1>0, <2>1 DEF Ulas
    <3> QED BY <3>1 DEF Ulas
  <2>2. /\ [i \in Slots |-> 0] \in [Slots -> Nat] /\ [r \in LatchedBack |-> 0] \in [LatchedBack -> Nat]
        /\ [r \in Latched |-> 0] \in [Latched -> Nat]
        /\ [r \in Registers |-> IF r = "r3" THEN {"space", "data"} ELSE {"space"}] \in [Registers -> Flags]
        /\ [r \in Registers |-> IF r = "r3" THEN {} ELSE {"space"}] \in [Registers -> Flags]
        /\ <<>> \in Seq(Nat)
    BY DEF Flags
  <2> HIDE DEF u
  <2> QED BY <2>1, <2>2 DEF FreshUla
<1>3. FreshUla = [FreshUla EXCEPT !.control = {}]
  BY <1>2
<1> HIDE DEF u
<1>4. Shaped(u)
  <2>1. Len(<<>>) <= 2 /\ 0 = (0 + 0) % RingSize
    BY <1>0, ModOnce
  <2> QED BY <1>1, <1>2, <2>1 DEF Shaped
<1>5. Agree(u)
  BY <1>0, <1>1 DEF Agree, Latched, LatchedBack, Registers
<1>6. ASSUME NEW c \in Channels PROVE Held(u, c) = <<>>
  <2>1. CASE c = "r1p"
    <3>1. Held(u, c) = InRing(0, u.ring, 0) /\ u.ring \in [Slots -> Nat]
      BY <1>1, <2>1, HeldOf
    <3> QED BY <1>0, <3>1, RingBytes
  <2>2. CASE c \in {"r3p", "r3h"}
    BY <1>1, <2>2, HeldOf
  <2>3. CASE c \in HostLatches \cup BackLatches
    BY <1>1, <1>4, <1>5, <2>3, LatchEmpty, RegisterOf DEF Sound, Registers, Latched, LatchedBack
  <2> QED BY <2>1, <2>2, <2>3, RegisterOf
<1> QED BY <1>3, <1>4, <1>5, <1>6 DEF Sound, u

\* A write to the control register leaves sound flags.
LEMMA ControlSound ==
  ASSUME NEW u, Sound(u), NEW bits \in SUBSET Bits
  PROVE  /\ Sound([u EXCEPT !.control = bits])
         /\ \A c \in Channels : Held([u EXCEPT !.control = bits], c) = Held(u, c)
<1> DEFINE v == [u EXCEPT !.control = bits]
<1>1. v \in Ulas
  BY DEF Sound, Shaped, Ulas
<1>2. /\ v.ring = u.ring /\ v.head = u.head /\ v.tail = u.tail /\ v.count = u.count
      /\ v.p2h = u.p2h /\ v.h2p = u.h2p /\ v.p2h_r3 = u.p2h_r3 /\ v.h2p_r3 = u.h2p_r3
      /\ v.host_status = u.host_status /\ v.parasite_status = u.parasite_status
  BY DEF Sound, Shaped, Ulas
<1> HIDE DEF v
<1>3. Sound(v)
  BY <1>1, <1>2 DEF Sound, Shaped, Agree
<1>4. \A c \in Channels : Held(v, c) = Held(u, c)
  BY <1>2, HeldSame
<1> QED BY <1>3, <1>4 DEF v

-----------------------------------------------------------------------------
(* The steps of the Tube.                                                   *)

Uses == HostUses \cup ParasiteUses

TubeInv ==
  /\ Sound(ula) /\ work \in Nat
  /\ board \in [selected : BOOLEAN, rom_mapped : BOOLEAN]

\* The queues after an access.
LEMMA QueueEffect ==
  ASSUME NEW c \in Uses, NEW q, Effect(ula, ula', c, q)
  PROVE  Queues' = [Queues EXCEPT ![c] = q]
<1>1. Uses \subseteq Channels
  BY TubeAssumption DEF Uses, Channels
<1>2. \A d \in Uses : Held(ula', d) = IF d = c THEN q ELSE Held(ula, d)
  BY <1>1 DEF Effect
<1> QED BY <1>2 DEF Queues, Uses

\* A data access that stores a byte is a Send of the channels.
LEMMA SendStep ==
  ASSUME TubeInv, NEW c \in Uses, SendOn(c)
  PROVE  /\ TubeInv' /\ ula'.control = ula.control
         /\ [Promise!Next]_(Promise!vars)
<1>1. c \in Channels /\ work + 1 \in Nat /\ work + 1 \in 1..MaxWork
  BY TubeAssumption DEF Uses, Channels, SendOn, TubeInv
<1>2. /\ c \in HostLatches => "space" \in ula.host_status[Register(c)]
      /\ c \in BackLatches => "space" \in ula.parasite_status[Register(c)]
  BY DEF SendOn, SpaceShown, HostLatches, BackLatches, HostChannels
<1>3. ula' = Written(ula, c, work + 1) /\ work' = work + 1 /\ UNCHANGED <<board, received>>
  BY DEF SendOn
<1>4. \/ ula' = ula
      \/ Len(Held(ula, c)) < Room(c) /\ Effect(ula, ula', c, Append(Held(ula, c), work + 1))
  BY <1>1, <1>2, <1>3, WrittenQueue DEF TubeInv
<1>5. CASE ula' = ula
  <2>1. UNCHANGED Promise!vars
    BY <1>3, <1>5 DEF Promise!vars, Queues
  <2> QED BY <1>1, <1>3, <1>5, <2>1 DEF TubeInv
<1>6. CASE Len(Held(ula, c)) < Room(c) /\ Effect(ula, ula', c, Append(Held(ula, c), work + 1))
  <2>1. Queues[c] = Held(ula, c) /\ Capacities[c] = Room(c)
    BY DEF Queues, Capacities, Uses, Room
  <2>2. Promise!Send(c, work + 1)
    BY <1>3, <1>6, <2>1, QueueEffect DEF Promise!Send
  <2>3. Promise!Next
    BY <1>1, <2>2 DEF Promise!Next, Uses
  <2> QED BY <1>1, <1>3, <1>6, <2>3 DEF TubeInv, Effect
<1> QED BY <1>4, <1>5, <1>6

\* A data access that takes a byte is a Take of the channels.
LEMMA TakeStep ==
  ASSUME TubeInv, NEW c \in Uses, TakeFrom(c)
  PROVE  /\ TubeInv' /\ ula'.control = ula.control
         /\ [Promise!Next]_(Promise!vars)
<1>1. c \in Channels
  BY TubeAssumption DEF Uses, Channels
<1>2. /\ ula' = Taken(ula, c) /\ UNCHANGED <<board, work>>
      /\ received' = IF Held(ula, c) = <<>> THEN received
                     ELSE [channel |-> c, byte |-> Head(Held(ula, c))]
  BY DEF TakeFrom
<1>3. Queues[c] = Held(ula, c)
  BY DEF Queues, Uses
<1>4. CASE Held(ula, c) = <<>>
  <2>1. Effect(ula, ula', c, <<>>)
    BY <1>1, <1>2, <1>4, TakenQueue DEF TubeInv
  <2>2. Queues' = [Queues EXCEPT ![c] = <<>>]
    BY <2>1, QueueEffect
  <2>3. Queues' = Queues
    BY <1>3, <1>4, <2>2 DEF Queues
  <2> QED BY <1>2, <1>4, <2>1, <2>3 DEF Effect, TubeInv, Promise!vars
<1>5. CASE Held(ula, c) # <<>>
  <2>1. Effect(ula, ula', c, Tail(Held(ula, c)))
    BY <1>1, <1>2, <1>5, TakenQueue DEF TubeInv
  <2>2. Promise!Receive(c)
    BY <1>2, <1>3, <1>5, <2>1, QueueEffect DEF Promise!Receive
  <2>3. Promise!Next
    BY <2>2 DEF Promise!Next, Uses
  <2> QED BY <1>2, <2>1, <2>3 DEF Effect, TubeInv
<1> QED BY <1>4, <1>5

\* A fresh ULA is a reset of the channels.
LEMMA FreshStep ==
  ASSUME NEW bits \in SUBSET Bits, ula' = [FreshUla EXCEPT !.control = bits], UNCHANGED received
  PROVE  Sound(ula') /\ Promise!Next
<1>1. Sound(ula') /\ \A c \in Channels : Held(ula', c) = <<>>
  BY FreshSound
<1>2. Uses \subseteq Channels
  BY TubeAssumption DEF Uses, Channels
<1>3. Queues' = [c \in Uses |-> <<>>]
  BY <1>1, <1>2 DEF Queues, Uses
<1> QED BY <1>1, <1>3 DEF Promise!Next, Promise!Reset, Uses

\* A control write resets the channels, or leaves them.
LEMMA ControlStep ==
  ASSUME TubeInv, NEW write \in Controls, Control(write.set, write.bits, write.clear)
  PROVE  TubeInv' /\ [Promise!Next]_(Promise!vars)
<1> DEFINE bits == IF write.set THEN ula.control \cup write.bits ELSE ula.control \ write.bits
<1>1. /\ write.bits \in SUBSET Bits /\ write.set \in BOOLEAN /\ write.clear \in BOOLEAN
      /\ ula \in Ulas /\ ula.control \in SUBSET Bits
  BY TubeAssumption DEF TubeInv, Sound, Shaped, Ulas, Bits
<1>2. bits \in SUBSET Bits
  BY <1>1
<1>3. /\ work' = work + 1 /\ UNCHANGED received
      /\ board' = [board EXCEPT !.rom_mapped =
           @ \/ (~write.set /\ "P" \notin write.bits /\ "P" \in ula.control)]
  BY DEF Control
<1>4. board' \in [selected : BOOLEAN, rom_mapped : BOOLEAN] /\ work' \in Nat
  <2>1. board' \in [selected : BOOLEAN, rom_mapped : BOOLEAN]
    BY <1>3, Zenon DEF TubeInv
  <2> QED BY <1>3, <2>1 DEF TubeInv
<1>5. CASE write.clear
  <2>1. ula' = [[FreshUla EXCEPT !.control = ula.control] EXCEPT !.control = bits]
    BY <1>5 DEF Control, FreshUla
  <2>2. ula' = [FreshUla EXCEPT !.control = bits]
    BY <2>1, FreshSound DEF Sound, Shaped, Ulas
  <2>3. Sound(ula') /\ Promise!Next
    BY <1>2, <1>3, <2>2, FreshStep
  <2> QED BY <1>4, <2>3 DEF TubeInv
<1>6. CASE ~write.clear
  <2>1. ula' = [ula EXCEPT !.control = bits]
    BY <1>6 DEF Control
  <2>2. Sound(ula') /\ \A c \in Channels : Held(ula', c) = Held(ula, c)
    BY <1>2, <2>1, ControlSound DEF TubeInv
  <2>3. Queues' = Queues
    BY <2>2, TubeAssumption DEF Queues, Channels
  <2> QED BY <1>3, <1>4, <2>2, <2>3 DEF TubeInv, Promise!vars
<1> QED BY <1>5, <1>6

\* Every step keeps the shape and the flags, and is a step of the channels.
LEMMA TubeStep ==
  ASSUME TubeInv, [Next]_vars
  PROVE  TubeInv' /\ [Promise!Next]_(Promise!vars)
<1>0. ASSUME UNCHANGED <<ula, received>>
      PROVE  Sound(ula') /\ UNCHANGED Promise!vars
  BY <1>0 DEF TubeInv, Promise!vars, Queues
<1>1. FreshUla = [FreshUla EXCEPT !.control = {}] /\ {} \in SUBSET Bits
  BY FreshSound
<1>2. ASSUME ap5_tube_reset PROVE TubeInv' /\ Promise!Next
  <2>1. ula' = FreshUla /\ UNCHANGED received /\ work' = work + 1
        /\ board' = [board EXCEPT !.rom_mapped = TRUE]
    BY <1>2 DEF ap5_tube_reset, TubeReset
  <2>2. Sound(ula') /\ Promise!Next
    BY <1>1, <2>1, FreshStep
  <2>3. board' \in [selected : BOOLEAN, rom_mapped : BOOLEAN]
    BY <2>1 DEF TubeInv
  <2>4. work' \in Nat
    BY <2>1 DEF TubeInv
  <2> QED BY <2>2, <2>3, <2>4 DEF TubeInv
<1>3. ASSUME NEW this \in BOOLEAN, SelectCopro(this) PROVE TubeInv' /\ Promise!Next
  <2>1. /\ ula' = FreshUla /\ UNCHANGED received /\ work' = work + 1
        /\ \/ board' = [board EXCEPT !.selected = TRUE, !.rom_mapped = TRUE]
           \/ board' = [board EXCEPT !.selected = FALSE]
    BY <1>3 DEF SelectCopro, TubeReset
  <2>2. Sound(ula') /\ Promise!Next
    BY <1>1, <2>1, FreshStep
  <2>3. board' \in [selected : BOOLEAN, rom_mapped : BOOLEAN]
    BY <2>1 DEF TubeInv
  <2>4. work' \in Nat
    BY <2>1 DEF TubeInv
  <2> QED BY <2>2, <2>3, <2>4 DEF TubeInv
<1>4. ASSUME NEW c \in Uses, SendOn(c) \/ TakeFrom(c)
      PROVE  TubeInv' /\ [Promise!Next]_(Promise!vars)
  BY <1>4, SendStep, TakeStep
<1>5. ASSUME ParasiteStatus \/ TakeNmi \/ ap5_tube_sync_host_clock \/ ap5_tube_rebase_host_clock
             \/ \E advance \in Advances : HostRuns(advance)
      PROVE  TubeInv' /\ UNCHANGED Promise!vars
  <2>1. UNCHANGED <<ula, received>>
    BY <1>5 DEF ParasiteStatus, TakeNmi, ap5_tube_sync_host_clock, ap5_tube_rebase_host_clock, HostRuns
  <2>2. work' = work \/ work' = work + 1
    BY <1>5 DEF ParasiteStatus, TakeNmi, ap5_tube_sync_host_clock, ap5_tube_rebase_host_clock, HostRuns
  <2>3. board' = board \/ board' = [board EXCEPT !.rom_mapped = FALSE]
    BY <1>5 DEF ParasiteStatus, TakeNmi, ap5_tube_sync_host_clock, ap5_tube_rebase_host_clock, HostRuns
  <2>4. board' \in [selected : BOOLEAN, rom_mapped : BOOLEAN]
    BY <2>3 DEF TubeInv
  <2>5. work' \in Nat
    BY <2>2 DEF TubeInv
  <2> QED BY <1>0, <2>1, <2>4, <2>5 DEF TubeInv
<1>6. ASSUME UNCHANGED vars PROVE TubeInv' /\ UNCHANGED Promise!vars
  <2>1. UNCHANGED <<ula, received, work, board>>
    BY <1>6 DEF vars
  <2> QED BY <1>0, <2>1 DEF TubeInv
<1>7. ASSUME Next
      PROVE  \/ ap5_tube_reset
             \/ \E this \in BOOLEAN : SelectCopro(this)
             \/ \E c \in Uses : SendOn(c) \/ TakeFrom(c)
             \/ \E write \in Controls : Control(write.set, write.bits, write.clear)
             \/ ParasiteStatus \/ TakeNmi \/ ap5_tube_sync_host_clock \/ ap5_tube_rebase_host_clock
             \/ \E advance \in Advances : HostRuns(advance)
  BY <1>7 DEF Next, HostWrite, HostRead, parasite_write, parasite_read, Uses
<1> QED BY <1>2, <1>3, <1>4, <1>5, <1>6, <1>7, ControlStep

\* The first state is sound and has empty channels.
LEMMA TubeStart == Init => TubeInv /\ Promise!Init
<1> SUFFICES ASSUME Init PROVE TubeInv /\ Promise!Init
  OBVIOUS
<1>1. ula = FreshUla /\ received = TubeNothing /\ work = 0
      /\ board = [selected |-> TRUE, rom_mapped |-> TRUE]
  BY DEF Init
<1>2. Sound(ula) /\ \A c \in Channels : Held(ula, c) = <<>>
  BY <1>1, FreshSound
<1>3. Queues = [c \in Uses |-> <<>>]
  BY <1>2, TubeAssumption DEF Queues, Uses, Channels
<1> QED BY <1>1, <1>2, <1>3 DEF TubeInv, Promise!Init, Promise!Nothing, TubeNothing, Uses

\* The flags of registers 1, 2 and 4 agree after every sequence of accesses,
\* control writes and resets of ap5_tube.c.
THEOREM FlagsAlwaysAgree == Spec => []FlagsAgree
<1>1. TubeInv => FlagsAgree
  BY DEF TubeInv, Sound, Agree, FlagsAgree
<1> QED BY <1>1, TubeStart, TubeStep, PTL DEF Spec

\* The ULA of ap5_tube.c implements the bounded, ordered channels of
\* TubeChannels: no access loses, repeats or makes up a byte, a full ring or pair
\* drops the new byte and nothing else, and only a reset empties a channel.
THEOREM UlaKeepsPromise == Spec => PromiseKept
<1> QED BY TubeStart, TubeStep, PTL DEF Spec, PromiseKept, Promise!Spec

-----------------------------------------------------------------------------
(* The clock.                                                               *)

\* Between two looks the parasite is owed the cycles that have elapsed, if it
\* runs and the counter is known.
Owed(p) == (p.counter - p.last_cycle) + (IF p.counter < p.last_cycle THEN Wrap ELSE 0)

Paces == [half_cycle : {0, 1}, valid : BOOLEAN, last_cycle : 0..(Wrap - 1), counter : 0..(Wrap - 1)]

ClockInv ==
  /\ pace \in Paces /\ ran \in [passed : Nat, ticks : Nat]
  /\ 2 * ran.ticks + pace.half_cycle + (IF pace.valid /\ Running THEN 3 * Owed(pace) ELSE 0)
       = 3 * ran.passed

\* An advance is what is owed afterwards, if nothing was before.
LEMMA OwedAdvance ==
  ASSUME NEW c \in 0..(Wrap - 1), NEW advance \in 1..(Wrap - 1)
  PROVE  /\ (c + advance) % Wrap \in 0..(Wrap - 1)
         /\ (((c + advance) % Wrap) - c) + (IF (c + advance) % Wrap < c THEN Wrap ELSE 0) = advance
<1>0. Wrap \in Nat \ {0}
  BY TubeAssumption
<1> DEFINE n == c + advance
<1>1. n \in Nat /\ n < 2 * Wrap
  BY <1>0
<1> HIDE DEF n
<1>2. n % Wrap = IF n < Wrap THEN n ELSE n - Wrap
  BY <1>0, <1>1, ModOnce
<1> DEFINE m == n % Wrap
<1>3. m = IF n < Wrap THEN n ELSE n - Wrap
  BY <1>2
<1> HIDE DEF m
<1>4. m \in 0..(Wrap - 1) /\ (m - c) + (IF m < c THEN Wrap ELSE 0) = advance
  BY <1>0, <1>1, <1>3 DEF n
<1> QED BY <1>4 DEF m, n

\* Three ticks for two cycles, with the half that is carried over.
LEMMA TicksExact ==
  ASSUME NEW cycles \in Nat, NEW half \in {0, 1}
  PROVE  /\ Ticks(cycles, half).ticks \in Nat /\ Ticks(cycles, half).half \in {0, 1}
         /\ 2 * Ticks(cycles, half).ticks + Ticks(cycles, half).half = 3 * cycles + half
<1> DEFINE two == cycles \div 2
           one == cycles % 2
           odd == half + one
<1>1. two \in Nat /\ one \in {0, 1} /\ cycles = 2 * two + one
  OBVIOUS
<1>2. /\ Ticks(cycles, half).ticks = cycles + two + (IF odd >= 2 THEN 1 ELSE 0)
      /\ Ticks(cycles, half).half = IF odd >= 2 THEN odd - 2 ELSE odd
  BY DEF Ticks
<1> HIDE DEF two, one
<1>3. /\ cycles + two + (IF odd >= 2 THEN 1 ELSE 0) \in Nat
      /\ (IF odd >= 2 THEN odd - 2 ELSE odd) \in {0, 1}
      /\ 2 * (cycles + two + (IF odd >= 2 THEN 1 ELSE 0)) + (IF odd >= 2 THEN odd - 2 ELSE odd)
           = 3 * cycles + half
  BY <1>1
<1> QED BY <1>2, <1>3

\* Nothing is owed at an access.
LEMMA NothingOwed ==
  ASSUME ClockInv, Access
  PROVE  2 * ran.ticks + pace.half_cycle = 3 * ran.passed
<1>1. /\ ran.ticks \in Nat /\ ran.passed \in Nat /\ pace.half_cycle \in {0, 1}
      /\ pace.counter \in 0..(Wrap - 1) /\ pace.last_cycle \in 0..(Wrap - 1)
  BY DEF ClockInv, Paces
<1>2. CASE pace.valid /\ Running
  <2>1. pace.last_cycle = pace.counter
    BY <1>2 DEF Access
  <2>2. Owed(pace) = 0
    BY <1>1, <2>1 DEF Owed
  <2>3. 2 * ran.ticks + pace.half_cycle + 3 * Owed(pace) = 3 * ran.passed
    BY <1>2 DEF ClockInv
  <2> QED BY <1>1, <2>2, <2>3
<1>3. CASE ~(pace.valid /\ Running)
  <2>1. 2 * ran.ticks + pace.half_cycle + 0 = 3 * ran.passed
    BY <1>3 DEF ClockInv
  <2> QED BY <1>1, <2>1
<1> QED BY <1>2, <1>3

\* A step after which nothing is owed and the account is even keeps the invariant.
LEMMA Settled ==
  ASSUME pace' \in Paces, ran' \in [passed : Nat, ticks : Nat], Access',
         2 * ran'.ticks + pace'.half_cycle = 3 * ran'.passed
  PROVE  ClockInv'
<1>1. /\ ran'.ticks \in Nat /\ ran'.passed \in Nat /\ pace'.half_cycle \in {0, 1}
      /\ pace'.counter \in 0..(Wrap - 1) /\ pace'.last_cycle \in 0..(Wrap - 1)
  BY DEF Paces
<1>2. pace'.valid => Owed(pace') = 0
  BY <1>1 DEF Access, Owed
<1>3. 2 * ran'.ticks + pace'.half_cycle + (IF pace'.valid /\ Running' THEN 3 * Owed(pace') ELSE 0)
        = 3 * ran'.passed
  <2>1. CASE pace'.valid /\ Running'
    <3>1. 2 * ran'.ticks + pace'.half_cycle + 3 * Owed(pace') = 3 * ran'.passed
      BY <1>1, <1>2, <2>1
    <3> QED BY <2>1, <3>1
  <2>2. CASE ~(pace'.valid /\ Running')
    <3>1. 2 * ran'.ticks + pace'.half_cycle + 0 = 3 * ran'.passed
      BY <1>1
    <3> QED BY <2>2, <3>1
  <2> QED BY <2>1, <2>2
<1> QED BY <1>3 DEF ClockInv

\* A host cycle adds to the account of the clock.
LEMMA HostRunsClock ==
  ASSUME ClockInv, NEW advance \in Advances, HostRuns(advance)
  PROVE  ClockInv'
<1>1. advance \in 1..(Wrap - 1) /\ Wrap \in Nat \ {0}
  BY TubeAssumption
<1>2. /\ pace \in Paces /\ ran \in [passed : Nat, ticks : Nat] /\ Access
      /\ pace' = [pace EXCEPT !.counter = (pace.counter + advance) % Wrap]
      /\ ran' = [ran EXCEPT !.passed = IF pace.valid /\ Running THEN @ + advance ELSE @]
      /\ ula' = ula /\ board' = board
  BY DEF HostRuns, ClockInv
<1>3. pace.counter \in 0..(Wrap - 1) /\ ran.ticks \in Nat /\ ran.passed \in Nat /\ pace.half_cycle \in {0, 1}
  BY <1>2 DEF Paces
<1> DEFINE m == (pace.counter + advance) % Wrap
<1>4. m \in 0..(Wrap - 1) /\ (m - pace.counter) + (IF m < pace.counter THEN Wrap ELSE 0) = advance
  BY <1>1, <1>3, OwedAdvance
<1> HIDE DEF m
<1>5. pace' = [pace EXCEPT !.counter = m]
  BY <1>2 DEF m
<1>6. /\ pace' \in Paces /\ pace'.valid = pace.valid /\ pace'.half_cycle = pace.half_cycle
      /\ pace'.counter = m /\ pace'.last_cycle = pace.last_cycle
  BY <1>2, <1>4, <1>5 DEF Paces
<1>7. Running' <=> Running
  BY <1>2 DEF Running
<1>8. 2 * ran.ticks + pace.half_cycle = 3 * ran.passed
  BY <1>2, NothingOwed
<1>9. CASE pace.valid /\ Running
  <2>1. ran' = [ran EXCEPT !.passed = @ + advance]
    BY <1>2, <1>9
  <2>2. ran' \in [passed : Nat, ticks : Nat] /\ ran'.passed = ran.passed + advance /\ ran'.ticks = ran.ticks
    BY <1>1, <1>2, <2>1
  <2>3. pace.last_cycle = pace.counter
    BY <1>2, <1>9 DEF Access
  <2>4. Owed(pace') = advance
    BY <1>4, <1>6, <2>3 DEF Owed
  <2>5. 2 * ran'.ticks + pace'.half_cycle + 3 * Owed(pace') = 3 * ran'.passed
    BY <1>1, <1>3, <1>6, <1>8, <2>2, <2>4
  <2> QED BY <1>6, <1>7, <1>9, <2>2, <2>5 DEF ClockInv
<1>10. CASE ~(pace.valid /\ Running)
  <2>1. ran' = ran
    BY <1>2, <1>10
  <2>2. 2 * ran'.ticks + pace'.half_cycle + 0 = 3 * ran'.passed
    BY <1>3, <1>6, <1>8, <2>1
  <2> QED BY <1>2, <1>6, <1>7, <1>10, <2>1, <2>2 DEF ClockInv
<1> QED BY <1>9, <1>10

\* A look at the counter pays what the clock owes.
LEMMA SyncClock ==
  ASSUME ClockInv, ap5_tube_sync_host_clock
  PROVE  ClockInv'
<1>1. pace \in Paces /\ ran \in [passed : Nat, ticks : Nat]
  BY DEF ClockInv
<1>2. /\ pace.counter \in 0..(Wrap - 1) /\ pace.last_cycle \in 0..(Wrap - 1) /\ ran.ticks \in Nat
      /\ ran.passed \in Nat /\ pace.half_cycle \in {0, 1} /\ Wrap \in Nat \ {0}
  BY <1>1, TubeAssumption DEF Paces
<1>3. CASE ~pace.valid
  <2>1. pace' = [pace EXCEPT !.valid = TRUE, !.last_cycle = pace.counter] /\ ran' = ran
    BY <1>3 DEF ap5_tube_sync_host_clock
  <2>2. pace' \in Paces /\ pace'.last_cycle = pace'.counter /\ pace'.half_cycle = pace.half_cycle
    BY <1>1, <2>1 DEF Paces
  <2>3. 2 * ran.ticks + pace.half_cycle = 3 * ran.passed
    BY <1>3, NothingOwed DEF Access
  <2> QED BY <1>1, <2>1, <2>2, <2>3, Settled DEF Access
<1>4. CASE pace.valid
  <2> DEFINE run == Ticks(Owed(pace), pace.half_cycle)
  <2>1. /\ pace' = [pace EXCEPT !.last_cycle = pace.counter,
                      !.half_cycle = IF Running THEN run.half ELSE @]
        /\ ran' = [ran EXCEPT !.ticks = IF Running THEN @ + run.ticks ELSE @]
    BY <1>4 DEF ap5_tube_sync_host_clock, Elapsed, Owed
  <2>2. Owed(pace) \in Nat
    BY <1>2 DEF Owed
  <2>3. /\ run.ticks \in Nat /\ run.half \in {0, 1}
        /\ 2 * run.ticks + run.half = 3 * Owed(pace) + pace.half_cycle
    BY <1>2, <2>2, TicksExact
  <2> HIDE DEF run
  <2>4. CASE Running
    <3>1. /\ pace' = [pace EXCEPT !.last_cycle = pace.counter, !.half_cycle = run.half]
          /\ ran' = [ran EXCEPT !.ticks = @ + run.ticks]
      BY <2>1, <2>4
    <3>2. /\ pace' \in Paces /\ pace'.last_cycle = pace'.counter /\ pace'.half_cycle = run.half
      BY <1>1, <2>3, <3>1 DEF Paces
    <3>3. ran' \in [passed : Nat, ticks : Nat] /\ ran'.ticks = ran.ticks + run.ticks /\ ran'.passed = ran.passed
      BY <1>1, <2>3, <3>1
    <3>4. 2 * ran.ticks + pace.half_cycle + 3 * Owed(pace) = 3 * ran.passed
      BY <1>4, <2>4 DEF ClockInv
    <3>5. 2 * ran'.ticks + pace'.half_cycle = 3 * ran'.passed
      BY <1>2, <2>2, <2>3, <3>2, <3>3, <3>4
    <3> QED BY <3>2, <3>3, <3>5, Settled DEF Access
  <2>5. CASE ~Running
    <3>1. pace' = [pace EXCEPT !.last_cycle = pace.counter] /\ ran' = ran
      BY <1>1, <2>1, <2>5 DEF Paces
    <3>2. pace' \in Paces /\ pace'.last_cycle = pace'.counter /\ pace'.half_cycle = pace.half_cycle
      BY <1>1, <3>1 DEF Paces
    <3>3. 2 * ran.ticks + pace.half_cycle + 0 = 3 * ran.passed
      BY <2>5 DEF ClockInv
    <3>4. 2 * ran'.ticks + pace'.half_cycle = 3 * ran'.passed
      BY <1>2, <3>1, <3>2, <3>3
    <3> QED BY <1>1, <3>1, <3>2, <3>4, Settled DEF Access
  <2> QED BY <2>4, <2>5
<1> QED BY <1>3, <1>4

\* The parasite of ap5_tube.c is given three ticks for two host cycles, to the half
\* cycle, over any pattern of looks, wraps of the counter, rebases and resets.
THEOREM ClockAlwaysExact == Spec => []ClockExact
<1>1. Init => ClockInv
  <2> SUFFICES ASSUME Init PROVE ClockInv
    OBVIOUS
  <2>1. /\ pace = [half_cycle |-> 0, valid |-> FALSE, last_cycle |-> 0, counter |-> 0]
        /\ ran = [passed |-> 0, ticks |-> 0]
    BY DEF Init, NotRun
  <2>2. pace \in Paces /\ ran \in [passed : Nat, ticks : Nat] /\ ~pace.valid
    BY <2>1, TubeAssumption DEF Paces
  <2>3. 2 * ran.ticks + pace.half_cycle + 0 = 3 * ran.passed
    BY <2>1
  <2> QED BY <2>2, <2>3 DEF ClockInv
<1>2. TubeInv /\ ClockInv /\ [Next]_vars => ClockInv'
  <2> SUFFICES ASSUME TubeInv, ClockInv, [Next]_vars PROVE ClockInv'
    OBVIOUS
  <2>0. pace \in Paces /\ ran \in [passed : Nat, ticks : Nat] /\ Wrap \in Nat \ {0}
    BY TubeAssumption DEF ClockInv
  <2>1. ASSUME TubeReset PROVE ClockInv'
    <3>1. /\ pace' = [pace EXCEPT !.half_cycle = 0, !.valid = FALSE]
          /\ ran' = [passed |-> 0, ticks |-> 0]
      BY <2>1 DEF TubeReset, NotRun
    <3>2. pace' \in Paces /\ ~pace'.valid /\ pace'.half_cycle = 0
      BY <2>0, <3>1 DEF Paces
    <3>3. ran' \in [passed : Nat, ticks : Nat] /\ ran'.ticks = 0 /\ ran'.passed = 0
      BY <3>1
    <3> QED BY <3>2, <3>3, Settled DEF Access
  <2>2. ASSUME Access, UNCHANGED <<pace, ran>> PROVE ClockInv'
    <3>1. 2 * ran.ticks + pace.half_cycle = 3 * ran.passed
      BY <2>2, NothingOwed
    <3> QED BY <2>0, <2>2, <3>1, Settled DEF Access
  <2>3. ASSUME UNCHANGED <<pace, ran, board>>, ula'.control = ula.control PROVE ClockInv'
    <3>1. Running' <=> Running
      BY <2>3 DEF Running
    <3> QED BY <2>3, <3>1 DEF ClockInv, Owed
  <2>4. ASSUME NEW c \in Uses, SendOn(c) \/ TakeFrom(c) PROVE ClockInv'
    <3>1. ula'.control = ula.control
      BY <2>4, SendStep, TakeStep
    <3>2. UNCHANGED <<pace, ran, board>>
      BY <2>4 DEF SendOn, TakeFrom
    <3> QED BY <2>3, <3>1, <3>2
  <2>5. ASSUME ParasiteStatus \/ TakeNmi PROVE ClockInv'
    <3>1. UNCHANGED <<pace, ran, ula>> /\ (board' = board \/ board' = [board EXCEPT !.rom_mapped = FALSE])
      BY <2>5 DEF ParasiteStatus, TakeNmi
    <3>2. board'.selected = board.selected
      BY <3>1 DEF TubeInv
    <3>3. Running' <=> Running
      BY <3>1, <3>2 DEF Running
    <3> QED BY <3>1, <3>3 DEF ClockInv, Owed
  <2>6. ASSUME ap5_tube_rebase_host_clock PROVE ClockInv'
    <3>1. /\ Access /\ ran' = ran
          /\ pace' = [pace EXCEPT !.counter = 0, !.valid = TRUE, !.last_cycle = 0]
      BY <2>6 DEF ap5_tube_rebase_host_clock
    <3>2. pace' \in Paces /\ pace'.last_cycle = pace'.counter /\ pace'.half_cycle = pace.half_cycle
      <4>1. 0 \in 0..(Wrap - 1)
        BY <2>0
      <4>2. pace' \in Paces
        BY <2>0, <3>1, <4>1 DEF Paces
      <4> QED BY <2>0, <3>1, <4>2 DEF Paces
    <3>3. 2 * ran.ticks + pace.half_cycle = 3 * ran.passed
      BY <3>1, NothingOwed
    <3> QED BY <2>0, <3>1, <3>2, <3>3, Settled DEF Access
  <2>7. ASSUME NEW this \in BOOLEAN, SelectCopro(this) PROVE ClockInv'
    BY <2>1, <2>2, <2>7 DEF SelectCopro
  <2>8. ASSUME NEW write \in Controls, Control(write.set, write.bits, write.clear) PROVE ClockInv'
    BY <2>2, <2>8 DEF Control
  <2>9. ASSUME ap5_tube_reset PROVE ClockInv'
    BY <2>1, <2>9 DEF ap5_tube_reset
  <2>10. ASSUME UNCHANGED vars PROVE ClockInv'
    <3>1. UNCHANGED <<pace, ran, board, ula>>
      BY <2>10 DEF vars
    <3> QED BY <2>3, <3>1
  <2>11. ASSUME Next
         PROVE  \/ ap5_tube_reset
                \/ \E this \in BOOLEAN : SelectCopro(this)
                \/ \E c \in Uses : SendOn(c) \/ TakeFrom(c)
                \/ \E write \in Controls : Control(write.set, write.bits, write.clear)
                \/ ParasiteStatus \/ TakeNmi \/ ap5_tube_sync_host_clock \/ ap5_tube_rebase_host_clock
                \/ \E advance \in Advances : HostRuns(advance)
    BY <2>11 DEF Next, HostWrite, HostRead, parasite_write, parasite_read, Uses
  <2> QED BY <2>4, <2>5, <2>6, <2>7, <2>8, <2>9, <2>10, <2>11, HostRunsClock, SyncClock
<1>3. ClockInv => ClockExact
  BY NothingOwed DEF ClockExact
<1> QED BY <1>1, <1>2, <1>3, TubeStart, TubeStep, PTL DEF Spec
=============================================================================
