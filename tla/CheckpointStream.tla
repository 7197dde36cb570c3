-------------------------- MODULE CheckpointStream --------------------------
(***************************************************************************)
(* What the chain follower promises the rounds: it walks up the source     *)
(* chain, one height after the other, and starts a round for the blocks    *)
(* whose height is a multiple of Freq, each when it is Confirms blocks     *)
(* below those already walked.  Before the first round the walk may begin  *)
(* anywhere.                                                               *)
(***************************************************************************)
EXTENDS Integers, Sequences

CONSTANTS
  Confirms,  \* dp->srcconfirms
  Freq       \* dp->freq

VARIABLES
  visited,   \* the height walked last; 0 before the first
  started    \* the heights of the rounds started, in order

Init == visited = 0 /\ started = <<>>

(* The height the walk may go to from here.                                *)
Onward(h) == h = visited + 1 \/ started = <<>>

(* The height visited' is walked, and perhaps a round started.             *)
Visit ==
  /\ visited' \in Nat
  /\ Onward(visited')
  /\ \/ started' = started
     \/ /\ (visited' - 1 - Confirms) % Freq = 0
        /\ started' = Append(started, visited' - 1 - Confirms)

Spec == Init /\ [][Visit]_<<visited, started>>
=============================================================================
