--------------------------- MODULE MCNotaryRound ---------------------------
(* Instances of NotaryRound for TLC: the links of the bus that work, how   *)
(* many pings each notary sends, and the symmetry of the branches, whose   *)
(* hashes are only compared.                                               *)
EXTENDS NotaryRound, TLC

Branches == Permutations(Hashes)

AllLinks == Notary \X Notary

(* Two pairs that hear each other; one of the second hears the first too.  *)
TwoPairs == {<<0, 2>>, <<2, 0>>, <<1, 3>>, <<3, 1>>, <<0, 3>>, <<2, 3>>}

OnePing == [n \in Notary |-> 1]
FewPings == [n \in Notary |-> IF n = 0 THEN 2 ELSE 1]
NoBound == [n \in Notary |-> 0]
SplitPings == [n \in Notary |-> IF n \in {1, 2} THEN 2 ELSE 1]
=============================================================================
