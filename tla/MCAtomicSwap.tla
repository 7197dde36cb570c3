---------------------------- MODULE MCAtomicSwap ----------------------------
(* Instances of AtomicSwap for TLC: who may be away, and what may fail.    *)
EXTENDS AtomicSwap

Nobody == {}
OnlyAlice == {"alice"}
OnlyBob == {"bob"}

NoFaults == {}
EveryFault == {"daemon", "broadcast"}
=============================================================================
