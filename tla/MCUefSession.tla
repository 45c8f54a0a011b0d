---------------------------- MODULE MCUefSession ----------------------------
(* Windows of two pages, a page of three bytes of which the reader takes two. *)
(* A raw tape of seven bytes (three upload windows; a flat window of six and  *)
(* one of one, guarded ones of four and three), a gzip that expands to three  *)
(* bytes, and a ZIP whose check fails after a byte was inflated.              *)
EXTENDS UefSession

MCByte == 0..7
MCMagic == {1}
RawFile == <<1, 2, 3, 4, 2, 5, 7>>
GzipFile == <<4, 5, 2>>
BadFile == <<5, 5>>
MCDecode ==
  [s \in {GzipFile, BadFile} |->
     IF s = GzipFile
     THEN [container |-> "gzip", result |-> "ok", out |-> <<1, 3, 3>>]
     ELSE [container |-> "zip", result |-> "malformed", out |-> <<1>>]]
MCFiles == {RawFile, GzipFile, BadFile}
MCChunks == {}
=============================================================================
