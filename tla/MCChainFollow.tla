--------------------------- MODULE MCChainFollow ---------------------------
(* Instances of ChainFollow for TLC: the daemon's faults and whether block *)
(* notifications are used or only the call that adds the coin.             *)
EXTENDS ChainFollow

NoAnswer == {"cached", "nohash"}
NoBlock == {"cached", "noblock"}
NoNotification == {}
EveryBlock == 1 .. MaxHeight
=============================================================================
