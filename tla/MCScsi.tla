------------------------------- MODULE MCScsi -------------------------------
(* Two whole sectors of two bytes and a short one; a transfer of up to three *)
(* blocks from any sector crosses the end of the image.                      *)
EXTENDS BeebScsi

Requests == {"test", "start", "sense", "translate", "mode_sense", "mode_select",
             "verify", "read", "write", "other", "other10"}
=============================================================================
