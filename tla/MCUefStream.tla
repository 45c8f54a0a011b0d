---------------------------- MODULE MCUefStream ----------------------------
(* Small instances of UefStream: raw tapes of one to three windows, packed   *)
(* images of every outcome, and window sizes of two bytes and one byte.      *)
EXTENDS UefStream

MCByte == 0..9
MCMagic == {1}

\* <<4>>: a sound ZIP of a two-byte tape; <<5>>: a ZIP whose CRC fails after
\* inflating; <<6>>: a ZIP whose header declares too much; <<7>>: a gzip that
\* does not fit the buffer.  (A sound gzip is in MCUefSession.)
MCDecode ==
  [s \in {<<b>> : b \in 4..7} |->
     [container |-> IF s[1] = 7 THEN "gzip" ELSE "zip",
      result    |-> CASE s[1] = 4 -> "ok"
                      [] s[1] = 5 -> "malformed"
                      [] s[1] = 6 -> "declaredTooLarge"
                      [] s[1] = 7 -> "overflow",
      out       |-> CASE s[1] = 4 -> <<1, 2>>
                      [] s[1] = 5 -> <<1>>
                      [] s[1] = 6 -> <<>>
                      [] s[1] = 7 -> [i \in 1..Capacity |-> IF i = 1 THEN 1 ELSE 3]]]

RawChunks == {<<1, 2>>, <<3>>}
PackedChunks == {<<1>>} \cup {<<b>> : b \in 4..7}
=============================================================================
