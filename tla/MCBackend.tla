----------------------------- MODULE MCBackend -----------------------------
(* Two networks; passwords of nine bytes, which a torn write may shorten to *)
(* eight and still be valid, and one too short for any mode.                *)
EXTENDS Backend

Pass(n) == [len |-> n, hex |-> FALSE]
Joins == {[ssid |-> "home", mode |-> "WPA", password |-> Pass(9)],
          [ssid |-> "shed", mode |-> "OPEN", password |-> Pass(0)],
          [ssid |-> "shed", mode |-> "none", password |-> Pass(3)]}
=============================================================================
