---------------------------- MODULE Notarization ----------------------------
(***************************************************************************)
(* What a notarization round promises, without messages, elections and     *)
(* signatures: a notary commits to one set of signers and keeps to it, the *)
(* destination chain takes a transaction only of signers committed to      *)
(* their set, and the source chain only one whose signers all know that    *)
(* the destination chain took theirs.                                      *)
(*                                                                         *)
(* A handler may do all of this at once (the last signer commits, signs,   *)
(* publishes and sees the transaction accepted), so a step is what one     *)
(* notary does with its commitment, what it saw, and what the chains took. *)
(***************************************************************************)
CONSTANTS
  Notary,     \* the notaries
  Complete    \* the sets of them that can sign a notarization

VARIABLES
  commitment, \* commitment[n]: the set n is committed to, {} for none yet
  seen,       \* seen[n]: the destination transaction n saw accepted, or {}
  chain       \* chain[c]: the sets of signers whose transaction chain c took

notarization == <<commitment, seen, chain>>

Init ==
  /\ commitment = [n \in Notary |-> {}]
  /\ seen = [n \in Notary |-> {}]
  /\ chain = [c \in {"src", "dest"} |-> {}]

(* A notary commits once, to a complete set.                               *)
Commit(n) ==
  \/ commitment' = commitment
  \/ /\ commitment[n] = {}
     /\ \E S \in Complete : commitment' = [commitment EXCEPT ![n] = S]

(* It sees the transaction of the set it is committed to accepted.         *)
See(n) ==
  \/ seen' = seen
  \/ /\ seen[n] = {}
     /\ commitment'[n] \in chain'["dest"]
     /\ seen' = [seen EXCEPT ![n] = commitment'[n]]

(* Every signer stands behind the transaction of S on chain c.             *)
Backed(c, S) ==
  /\ S # {}
  /\ \A i \in S : /\ commitment[i] = S
                  /\ c = "src" => seen[i] = S

Accept(c) ==
  /\ chain[c] \subseteq chain'[c]
  /\ \A S \in chain'[c] \ chain[c] : Backed(c, S)'

Next ==
  \E n \in Notary :
    /\ Commit(n)
    /\ See(n)
    /\ Accept("dest")
    /\ Accept("src")

Spec == Init /\ [][Next]_notarization
=============================================================================
