---------------------------- MODULE MCOrderMatch ----------------------------
(* Instances of OrderMatch for TLC: what each node has, how many orders    *)
(* each Alice places and when, and how old a message arrives.              *)
EXTENDS OrderMatch

OneCoin == [n \in Node |-> {10 * n}]
BobTwo == [n \in Node |-> IF n \in Bobs THEN {10 * n, 10 * n + 1} ELSE {10 * n}]

OneEach == [a \in Alices |-> 1]
TwoEach == [a \in Alices |-> 2]

FirstOrder == {<<a, 1>> : a \in Alices}

AtOnce == [a \in Alices |-> {1}]
InTurn == [a \in Alices |-> {1, 2}]

(* A connect may come when Bob's hold has lapsed.  Late is later than      *)
(* QueueTime.                                                              *)
Slow == [k \in Kind |-> IF k = "request" THEN 0 ELSE IF k = "reserved" THEN 1 ELSE 4]
Late == [k \in Kind |-> 3]
=============================================================================
