------------------------------ MODULE MCCache ------------------------------
(* Small instances of Cache for TLC: 4 ticks are a millisecond, 5 of them  *)
(* the longest latency, a Duration is from -32 to 31.                      *)
EXTENDS Cache

(* 2 is another spelling of 1, 4 is refused. *)
MCCanonical == (1 :> 1) @@ (2 :> 1) @@ (3 :> 3) @@ (4 :> Refused)

LOCAL Saved(address, latency, at) ==
    [address |-> address, latency |-> latency, verifiedAt |-> at]
LOCAL Record(address, ms, at) ==
    [address |-> address, latencyMS |-> ms, verifiedAt |-> at]
LOCAL File(proxies) == [version |-> SchemaVersion, proxies |-> proxies]

(* Copies, the bounds of the latency and its rounding, several ages; a     *)
(* refused address, a latency below and above the bounds, no time, one     *)
(* entry too many.                                                         *)
MCBatches == {
    <<Saved(1, 6, 3), Saved(2, 9, 4), Saved(3, 20, 2)>>,
    <<Saved(3, 4, 1), Saved(2, 18, 5)>>,
    <<Saved(1, 8, 3), Saved(4, 8, 3)>>,
    <<Saved(1, 3, 3)>>, <<Saved(1, 21, 3)>>, <<Saved(1, 8, 0)>>,
    <<Saved(1, 8, 3), Saved(1, 8, 3), Saved(3, 8, 3), Saved(3, 8, 3)>>}

(* 17 and -15 milliseconds are 1 after the overflow; 6 is too long.        *)
MCFound == {
    Missing,
    File(<<Record(2, 17, 3), Record(3, 6, 3), Record(1, 2, 3)>>),
    File(<<Record(4, 2, 3), Record(3, -15, 1), Record(1, 5, 4)>>),
    File(<<Record(1, 1, 3), Record(3, 1, 3), Record(2, 1, 3), Record(3, 2, 3)>>)}
=============================================================================
