---------------------------- MODULE MCFtpService ----------------------------
(* One server, a file longer than the ring, requests that reach a    *)
(* transfer and go on after it.  LIST (DIR and LS) is left to the proofs: it  *)
(* takes the path of READ but for the verb it sends.                          *)
EXTENDS FtpService

OneHost == {"alpha"}
SomeKinds == {"SIMPLE", "READ", "WRITE", "NOARG", "EMPTY"}
Downloads == {"SIMPLE", "READ"}
=============================================================================
