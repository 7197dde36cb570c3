----------------------------- MODULE BlockTable -----------------------------
(***************************************************************************)
(* The threads of dpow_statemachinestart for one coin, and what they       *)
(* share: the table dp->blocks, the blocks in it, a mutex, the count       *)
(* dp->ratifying, dp->checkpoint and the locks of the daemon's wallet.     *)
(*                                                                         *)
(* A thread, or round, is started for a checkpoint or for a ratification.  *)
(* The block it allocates has the round's own name.  The mutex is static,  *)
(* but every thread initialises it when it starts, which sets it free.     *)
(***************************************************************************)
EXTENDS Integers, FiniteSets

CONSTANTS
  Rounds,         \* the threads
  Ratifications,  \* those that dpow_ratify starts
  HeightOf,       \* the height of a round's checkpoint
  MaxBlocks,      \* dp->maxblocks
  MaxStarted,     \* bound: the rounds started in one behaviour
  Utxos,          \* the wallet's utxos, in its order
  MayExpire,      \* the rounds whose duration may pass
  Apart,          \* whether ratifications are started seconds apart
  Garbage         \* what freed memory may hold besides what it held

ASSUME TableAssumption ==
  /\ Rounds \subseteq Nat \ {0}
  /\ Ratifications \subseteq Rounds
  /\ HeightOf \in [Rounds -> Nat]
  /\ \A r \in Rounds : HeightOf[r] = 0 <=> r \in Ratifications
  /\ MaxBlocks \in Nat
  /\ MaxStarted \in Nat
  /\ Utxos \subseteq Nat \ {0}
  /\ MayExpire \subseteq Rounds
  /\ Apart \in BOOLEAN
  /\ Garbage \subseteq {0, 1}

VARIABLES
  pc,           \* where a round is
  scan,         \* the index its search has come to
  slot,         \* blockindex
  bp,           \* the block it works on
  mutex,        \* dpowT_mutex: who holds it
  blocks,       \* dp->blocks
  heap,         \* the blocks that were allocated
  ratifying,    \* dp->ratifying
  checkpoint,   \* the height of dp->checkpoint
  destupdated,  \* dp->destupdated # 0: a block of the destination was seen
  locked        \* the utxos locked in the wallet

local == <<scan, slot, bp>>
table == <<mutex, blocks, heap>>
shared == <<ratifying, checkpoint, destupdated, locked>>
vars == <<pc, local, table, shared>>

None == 0
Slot == 0 .. MaxBlocks - 1

Block == [life : {"none", "live", "freed"}, height : Nat, isratify : {0, 1},
          done : BOOLEAN, utxo : Utxos \cup {None}]
Unused == [life |-> "none", height |-> 0, isratify |-> 0, done |-> FALSE, utxo |-> None]

(* calloc.  The height is filled in when the round is ready.               *)
UnsetBlock == [Unused EXCEPT !.life = "live", !.height = -1]  \* mutant
NewBlock == [Unused EXCEPT !.life = "live"]

Init ==
  /\ pc = [r \in Rounds |-> "off"]
  /\ scan = [r \in Rounds |-> 0]
  /\ slot = [r \in Rounds |-> -1]
  /\ bp = [r \in Rounds |-> None]
  /\ mutex = None
  /\ blocks = [s \in Slot |-> None]
  /\ heap = [r \in Rounds |-> Unused]
  /\ ratifying = 0
  /\ checkpoint = 0
  /\ destupdated = FALSE
  /\ locked = {}

Goto(r, to) == pc' = [pc EXCEPT ![r] = to]

-----------------------------------------------------------------------------
(* Finding a block.                                                        *)

(* dpow_srcupdate starts the rounds of the checkpoints in order;           *)
(* ratifications come when an operator asks for them.                      *)
Finding == {"find", "search", "place", "prepare"}

Start(r) ==
  /\ pc[r] = "off"
  /\ Cardinality({q \in Rounds : pc[q] # "off"}) < MaxStarted
  /\ Apart /\ r \in Ratifications => \A q \in Ratifications : pc[q] \notin Finding
  /\ \A q \in Rounds \ Ratifications : HeightOf[q] < HeightOf[r] => pc[q] # "off"
  /\ mutex' = None
  /\ Goto(r, "find")
  /\ UNCHANGED <<local, blocks, heap, shared>>

Lock(r) ==
  /\ pc[r] = "find"
  /\ mutex = None
  /\ mutex' = r
  /\ Goto(r, "search")
  /\ UNCHANGED <<local, blocks, heap, shared>>

AtOrBelow(b, r) == heap[b].height <= HeightOf[r]  \* mutant

SameHeight(b, r) == heap[b].height = HeightOf[r]

(* The last block of the height is taken, or the first free slot.          *)
Search(r) ==
  /\ pc[r] = "search"
  /\ scan[r] \in Slot
  /\ scan' = [scan EXCEPT ![r] = @ + 1]
  /\ LET b == blocks[scan[r]]
     IN  /\ slot' = IF b = None /\ slot[r] = -1 THEN [slot EXCEPT ![r] = scan[r]] ELSE slot
         /\ bp' = IF b # None /\ SameHeight(b, r) THEN [bp EXCEPT ![r] = b] ELSE bp
  /\ UNCHANGED <<pc, table, shared>>

Searched(r) ==
  /\ pc[r] = "search"
  /\ scan[r] = MaxBlocks
  /\ mutex' = None
  /\ Goto(r, IF bp[r] # None THEN "count" ELSE IF slot[r] = -1 THEN "gone" ELSE "place")
  /\ UNCHANGED <<local, blocks, heap, shared>>

(* The slot was free when it was found.                                    *)
Place(r) ==
  /\ pc[r] = "place"
  /\ mutex = None
  /\ heap' = [heap EXCEPT ![r] = NewBlock]
  /\ blocks' = [blocks EXCEPT ![slot[r]] = r]
  /\ bp' = [bp EXCEPT ![r] = r]
  /\ Goto(r, "prepare")
  /\ UNCHANGED <<mutex, scan, slot, shared>>

(* A ratification reads its list, which may be too long.                   *)
Prepare(r) ==
  /\ pc[r] = "prepare"
  /\ IF r \in Ratifications
     THEN /\ heap' = [heap EXCEPT ![r].isratify = 1]
          /\ \E next \in {"count", "drop"} : Goto(r, next)
     ELSE heap' = heap /\ Goto(r, "count")
  /\ UNCHANGED <<local, mutex, blocks, shared>>

-----------------------------------------------------------------------------
(* Ratifications and notarizations keep out of each other's way.           *)

(* bp->isratify, as the round reads it: the block may have been freed.     *)
IsRatify(r) ==
  LET b == heap[bp[r]]
  IN  {b.isratify} \cup (IF b.life = "freed" THEN Garbage ELSE {})

Count(r) ==
  /\ pc[r] = "count"
  /\ \E isratify \in IsRatify(r) :
       IF isratify # 0 /\ ratifying # 0
       THEN ratifying' = ratifying + 1 /\ Goto(r, "wait")
       ELSE ratifying' = ratifying /\ Goto(r, "gate")
  /\ UNCHANGED <<local, table, checkpoint, destupdated, locked>>

Wait(r) ==
  /\ pc[r] = "wait"
  /\ ratifying <= 1
  /\ Goto(r, "gate")
  /\ UNCHANGED <<local, table, shared>>

Gate(r) ==
  /\ pc[r] = "gate"
  /\ \E tested, added \in IsRatify(r) :
       IF tested = 0 /\ ratifying # 0
       THEN ratifying' = ratifying /\ Goto(r, "drop")
       ELSE ratifying' = ratifying + added /\ Goto(r, "elect")
  /\ UNCHANGED <<local, table, checkpoint, destupdated, locked>>

(* This node may be no official notary, or the ratification may be of      *)
(* others.                                                                 *)
Elect(r) ==
  /\ pc[r] = "elect"
  /\ \/ ratifying' = ratifying /\ Goto(r, "choose")
     \/ \E isratify \in IsRatify(r) : ratifying' = ratifying - isratify /\ Goto(r, "drop")
  /\ UNCHANGED <<local, table, checkpoint, destupdated, locked>>

-----------------------------------------------------------------------------
(* The utxo.                                                               *)

(* dpow_haveutxo: the first utxo that is not locked.                       *)
FirstUnlocked ==
  LET free == Utxos \ locked
  IN  IF free = {} THEN None ELSE CHOOSE u \in free : \A v \in free : u <= v

(* A ratification may name a utxo, which is not locked.                    *)
Choose(r) ==
  /\ pc[r] = "choose"
  /\ \/ heap' = [heap EXCEPT ![bp[r]].utxo = FirstUnlocked] /\ Goto(r, "secure")
     \/ /\ r \in Ratifications
        /\ \E u \in Utxos : heap' = [heap EXCEPT ![bp[r]].utxo = u]
        /\ Goto(r, "publish")
  /\ UNCHANGED <<local, mutex, blocks, shared>>

Secure(r) ==
  /\ pc[r] = "secure"
  /\ locked' = locked \cup ({heap[bp[r]].utxo} \ {None})
  /\ Goto(r, "publish")
  /\ UNCHANGED <<local, table, ratifying, checkpoint, destupdated>>

-----------------------------------------------------------------------------
(* The round itself.                                                       *)

Publish(r) ==
  /\ pc[r] = "publish"
  /\ checkpoint' = HeightOf[r]
  /\ heap' = [heap EXCEPT ![bp[r]].height = HeightOf[r]]
  /\ Goto(r, "await")
  /\ UNCHANGED <<local, mutex, blocks, ratifying, destupdated, locked>>

DestUpdate ==
  /\ ~destupdated
  /\ destupdated' = TRUE
  /\ UNCHANGED <<pc, local, table, ratifying, checkpoint, locked>>

(* A notarization waits for a block of the destination; a newer checkpoint *)
(* ends it.                                                                *)
Await(r) ==
  /\ pc[r] = "await"
  /\ \E tested, taken \in IsRatify(r) :
       \/ (tested # 0 \/ destupdated) /\ ratifying' = ratifying /\ Goto(r, "loop")
       \/ /\ tested = 0 /\ ~destupdated /\ checkpoint > HeightOf[r]
          /\ ratifying' = ratifying - taken
          /\ Goto(r, "unlock")
  /\ UNCHANGED <<local, table, checkpoint, destupdated, locked>>

(* The loop pings; it, or the handler of messages, may complete the round. *)
Complete(r) ==
  /\ pc[r] \in {"await", "loop"}
  /\ heap[bp[r]].life = "live"
  /\ ~heap[bp[r]].done
  /\ heap' = [heap EXCEPT ![bp[r]].done = TRUE]
  /\ UNCHANGED <<pc, local, mutex, blocks, shared>>

(* The loop ends when the round is complete or out of time, when the block *)
(* was reorganised away, for a newer checkpoint or for a ratification.     *)
Leave(r) ==
  /\ pc[r] = "loop"
  /\ \/ heap[bp[r]].done
     \/ r \in MayExpire
     \/ ratifying > 1
     \/ 0 \in IsRatify(r) /\ (ratifying # 0 \/ checkpoint > HeightOf[r])
  /\ Goto(r, "close")
  /\ UNCHANGED <<local, table, shared>>

Close(r) ==
  /\ pc[r] = "close"
  /\ \E isratify \in IsRatify(r) : ratifying' = ratifying - isratify
  /\ Goto(r, "unlock")
  /\ UNCHANGED <<local, table, checkpoint, destupdated, locked>>

StillLocked(r) == locked  \* mutant

Unlocked(r) == locked \ {heap[bp[r]].utxo}

Unlock(r) ==
  /\ pc[r] = "unlock"
  /\ locked' = Unlocked(r)
  /\ Goto(r, "drop")
  /\ UNCHANGED <<local, table, ratifying, checkpoint, destupdated>>

(* The block is freed and the slot cleared.  A round that shares a block   *)
(* clears the free slot it had found; if it had found none, it writes      *)
(* below the table.                                                        *)
KeepSlot(r) == blocks  \* mutant

ClearSlot(r) == IF slot[r] \in Slot THEN [blocks EXCEPT ![slot[r]] = None] ELSE blocks

Drop(r) ==
  /\ pc[r] = "drop"
  /\ mutex = None
  /\ blocks' = ClearSlot(r)
  /\ heap' = [heap EXCEPT ![bp[r]].life = "freed", ![bp[r]].done = TRUE]
  /\ Goto(r, "gone")
  /\ UNCHANGED <<local, mutex, shared>>

-----------------------------------------------------------------------------
Next ==
  \/ \E r \in Rounds :
       \/ Start(r) \/ Lock(r) \/ Search(r) \/ Searched(r) \/ Place(r) \/ Prepare(r)
       \/ Count(r) \/ Wait(r) \/ Gate(r) \/ Elect(r)
       \/ Choose(r) \/ Secure(r) \/ Publish(r)
       \/ Await(r) \/ Complete(r) \/ Leave(r) \/ Close(r) \/ Unlock(r) \/ Drop(r)
  \/ DestUpdate

Spec == Init /\ [][Next]_vars

-----------------------------------------------------------------------------
(* Properties.                                                             *)

Counting == {"count", "wait", "gate", "elect", "choose", "secure", "publish", "await", "loop", "close"}
Using == Counting \cup {"prepare", "unlock", "drop"}

TypeOK ==
  /\ pc \in [Rounds -> Using \cup Finding \cup {"off", "gone"}]
  /\ scan \in [Rounds -> 0 .. MaxBlocks]
  /\ slot \in [Rounds -> Slot \cup {-1}]
  /\ bp \in [Rounds -> Rounds \cup {None}]
  /\ mutex \in Rounds \cup {None}
  /\ blocks \in [Slot -> Rounds \cup {None}]
  /\ heap \in [Rounds -> Block]
  /\ ratifying \in Int
  /\ checkpoint \in Nat
  /\ destupdated \in BOOLEAN
  /\ locked \subseteq Utxos

(* The table drains: what is in it belongs to a round that is still        *)
(* running and will clear that very slot, although two rounds may take the *)
(* same slot and although rounds share blocks.                             *)
SlotsOwned ==
  \A s \in Slot : blocks[s] # None => slot[blocks[s]] = s /\ pc[blocks[s]] \in Using

NoneRatified == \A r \in Ratifications : pc[r] = "off"

(* As long as nothing was ratified and checkpoints have heights of their   *)
(* own, a round has its block to itself until it frees it: no block is     *)
(* used after it was freed or freed twice, whatever the races for the      *)
(* table.                                                                  *)
OwnBlock ==
  NoneRatified => \A r \in Rounds : pc[r] \in Using => bp[r] = r /\ heap[r].life = "live"

(* As long as nothing was ratified, no utxo stays locked without a round:  *)
(* every way out of a round that has locked one passes the unlocking.      *)
LocksHeld ==
  NoneRatified => \A u \in locked : \E r \in Rounds : pc[r] \in Using /\ heap[bp[r]].utxo = u

(* dpow_fsm.c:436, "skip notarization ht.%d when ratifying": a             *)
(* notarization is skipped only while there is a ratification.             *)
SkippedWhenRatifying ==
  [][\A r \in Rounds : pc[r] = "gate" /\ pc'[r] = "drop" =>
       \E q \in Ratifications : pc[q] \in Counting]_vars
=============================================================================
