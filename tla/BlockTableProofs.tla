-------------------------- MODULE BlockTableProofs --------------------------
(***************************************************************************)
(* Proofs about BlockTable, for every number of rounds and every size of   *)
(* the table.                                                              *)
(***************************************************************************)
EXTENDS BlockTable, WellFoundedInduction, TLAPS

(* The inductive invariant that holds whatever rounds there are.           *)
Placing == \A r \in Rounds : pc[r] = "place" => slot[r] \in Slot
HasBlock == \A r \in Rounds : pc[r] \in Using => bp[r] \in Rounds

IInv == TypeOK /\ Placing /\ HasBlock /\ SlotsOwned

LEMMA RoundsAreNumbers == None \notin Rounds /\ \A r \in Rounds : r # 0
BY TableAssumption DEF None

-----------------------------------------------------------------------------
(* What a step of a round may change.                                      *)

(* Steps that leave the table alone.  A round that is not searching keeps  *)
(* its slot and its block; one that is using a block goes on using it.     *)
Steady(r) ==
  /\ UNCHANGED <<scan, slot, bp, blocks>>
  /\ \E to \in Using : pc' = [pc EXCEPT ![r] = to]
  /\ pc[r] \in Using

LEMMA SteadyKeeps ==
  ASSUME IInv, NEW r \in Rounds, Steady(r), heap' \in [Rounds -> Block], mutex' = mutex,
         ratifying' \in Int, checkpoint' \in Nat, destupdated' \in BOOLEAN, locked' \subseteq Utxos
  PROVE  IInv'
<1>1. PICK to \in Using : pc' = [pc EXCEPT ![r] = to]
  BY DEF Steady
<1>2. UNCHANGED <<scan, slot, bp, blocks>> /\ pc[r] \in Using
  BY DEF Steady
<1>3. TypeOK'
  BY <1>1, <1>2 DEF IInv, TypeOK
<1>4. \A q \in Rounds : pc[q] \in Using <=> pc'[q] \in Using
  BY <1>1, <1>2 DEF IInv, TypeOK
<1>5. \A q \in Rounds : pc'[q] = "place" => pc[q] = "place"
  BY <1>1 DEF IInv, TypeOK, Using, Counting
<1>6. Placing' /\ HasBlock'
  BY <1>2, <1>4, <1>5 DEF IInv, Placing, HasBlock
<1>7. SlotsOwned'
  <2> SUFFICES ASSUME NEW s \in Slot, blocks[s] # None
               PROVE  slot[blocks[s]] = s /\ pc'[blocks[s]] \in Using
    BY <1>2 DEF SlotsOwned
  <2>1. blocks[s] \in Rounds
    BY DEF IInv, TypeOK
  <2> QED BY <1>4, <2>1 DEF IInv, SlotsOwned
<1> QED BY <1>3, <1>6, <1>7 DEF IInv

(* The steps on the way to a block.                                        *)
LEMMA NotInTable ==
  ASSUME IInv, NEW r \in Rounds, pc[r] \notin Using, NEW s \in Slot
  PROVE  blocks[s] # r
BY RoundsAreNumbers DEF IInv, SlotsOwned

LEMMA FindingKeeps ==
  ASSUME IInv, NEW r \in Rounds, Start(r) \/ Lock(r) \/ Searched(r)
  PROVE  IInv'
<1>1. /\ UNCHANGED <<local, blocks, heap, shared>>
      /\ mutex' \in Rounds \cup {None}
  BY DEF Start, Lock, Searched
<1>2. PICK to \in {"find", "search", "count", "gone", "place"} :
        /\ pc' = [pc EXCEPT ![r] = to]
        /\ to = "count" => bp[r] # None
        /\ to = "place" => slot[r] # -1
  BY DEF Start, Lock, Searched, Goto
<1>3. pc[r] \notin Using
  BY DEF Start, Lock, Searched, Using, Counting
<1>4. TypeOK'
  BY <1>1, <1>2 DEF IInv, TypeOK, local, shared, Using, Counting, Finding
<1>5. Placing'
  BY <1>1, <1>2 DEF IInv, TypeOK, Placing, local
<1>6. HasBlock'
  <2>1. bp[r] # None => bp[r] \in Rounds
    BY DEF IInv, TypeOK
  <2>2. to # "count" => to \notin Using
    BY DEF Using, Counting
  <2>3. pc'[r] \in Using => bp'[r] \in Rounds
    BY <1>1, <1>2, <2>1, <2>2 DEF IInv, TypeOK, local
  <2>4. \A q \in Rounds : q # r => pc'[q] = pc[q]
    BY <1>2 DEF IInv, TypeOK
  <2> QED BY <1>1, <2>3, <2>4 DEF IInv, HasBlock, local
<1>7. SlotsOwned'
  <2> SUFFICES ASSUME NEW s \in Slot, blocks[s] # None
               PROVE  slot[blocks[s]] = s /\ pc'[blocks[s]] \in Using
    BY <1>1 DEF SlotsOwned, local
  <2>1. blocks[s] \in Rounds /\ blocks[s] # r
    BY <1>3, NotInTable DEF IInv, TypeOK
  <2>2. pc'[blocks[s]] = pc[blocks[s]]
    BY <1>2, <2>1 DEF IInv, TypeOK
  <2> QED BY <2>2 DEF IInv, SlotsOwned
<1> QED BY <1>4, <1>5, <1>6, <1>7 DEF IInv

LEMMA SearchKeeps ==
  ASSUME IInv, NEW r \in Rounds, Search(r)
  PROVE  IInv'
<1> DEFINE b == blocks[scan[r]]
<1>1. /\ pc[r] = "search" /\ scan[r] \in Slot
      /\ scan' = [scan EXCEPT ![r] = @ + 1]
      /\ slot' = slot \/ slot' = [slot EXCEPT ![r] = scan[r]]
      /\ bp' = bp \/ bp' = [bp EXCEPT ![r] = b]
      /\ UNCHANGED <<pc, table, shared>>
  BY DEF Search
<1>2. b \in Rounds \cup {None}
  BY <1>1 DEF IInv, TypeOK
<1> HIDE DEF b
<1>3. scan' \in [Rounds -> 0 .. MaxBlocks]
  BY <1>1, TableAssumption DEF IInv, TypeOK, Slot
<1>4. slot' \in [Rounds -> Slot \cup {-1}] /\ bp' \in [Rounds -> Rounds \cup {None}]
  BY <1>1, <1>2 DEF IInv, TypeOK
<1>5. TypeOK'
  BY <1>1, <1>3, <1>4 DEF IInv, TypeOK, table, shared
<1>6. \A q \in Rounds : q # r => slot'[q] = slot[q] /\ bp'[q] = bp[q]
  BY <1>1 DEF IInv, TypeOK
<1>7. pc[r] \notin Using /\ pc[r] # "place"
  BY <1>1 DEF Using, Counting
<1>8. Placing' /\ HasBlock'
  BY <1>1, <1>6, <1>7 DEF IInv, Placing, HasBlock
<1>9. SlotsOwned'
  <2> SUFFICES ASSUME NEW s \in Slot, blocks[s] # None
               PROVE  slot'[blocks[s]] = s /\ pc[blocks[s]] \in Using
    BY <1>1 DEF SlotsOwned, table
  <2>1. blocks[s] \in Rounds /\ blocks[s] # r
    BY <1>7, NotInTable DEF IInv, TypeOK
  <2> QED BY <1>6, <2>1 DEF IInv, SlotsOwned
<1> QED BY <1>5, <1>8, <1>9 DEF IInv

LEMMA NewBlockType == NewBlock \in Block /\ NewBlock.life = "live" /\ NewBlock.height = 0
BY DEF NewBlock, Unused, Block, None

LEMMA PlaceKeeps ==
  ASSUME IInv, NEW r \in Rounds, Place(r)
  PROVE  IInv'
<1>1. /\ pc[r] = "place" /\ slot[r] \in Slot
      /\ heap' = [heap EXCEPT ![r] = NewBlock]
      /\ blocks' = [blocks EXCEPT ![slot[r]] = r]
      /\ bp' = [bp EXCEPT ![r] = r]
      /\ pc' = [pc EXCEPT ![r] = "prepare"]
      /\ UNCHANGED <<mutex, scan, slot, shared>>
  BY DEF Place, Goto, IInv, Placing
<1>2. "prepare" \in Using /\ "place" \notin Using
  BY DEF Using, Counting
<1>3. TypeOK'
  BY <1>1, <1>2, NewBlockType DEF IInv, TypeOK, shared
<1>4. Placing' /\ HasBlock'
  BY <1>1, <1>2 DEF IInv, TypeOK, Placing, HasBlock
<1>5. SlotsOwned'
  <2> SUFFICES ASSUME NEW s \in Slot, blocks'[s] # None
               PROVE  slot[blocks'[s]] = s /\ pc'[blocks'[s]] \in Using
    BY <1>1 DEF SlotsOwned
  <2>1. CASE s = slot[r]
    BY <1>1, <1>2, <2>1 DEF IInv, TypeOK
  <2>2. CASE s # slot[r]
    <3>1. blocks'[s] = blocks[s] /\ blocks[s] \in Rounds
      BY <1>1, <2>2 DEF IInv, TypeOK
    <3>2. blocks[s] # r
      BY <1>1, <1>2, NotInTable
    <3> QED BY <1>1, <3>1, <3>2 DEF IInv, TypeOK, SlotsOwned
  <2> QED BY <2>1, <2>2
<1> QED BY <1>3, <1>4, <1>5 DEF IInv

LEMMA DropKeeps ==
  ASSUME IInv, NEW r \in Rounds, Drop(r)
  PROVE  IInv'
<1>1. /\ pc[r] = "drop"
      /\ blocks' = ClearSlot(r)
      /\ heap' = [heap EXCEPT ![bp[r]].life = "freed", ![bp[r]].done = TRUE]
      /\ pc' = [pc EXCEPT ![r] = "gone"]
      /\ UNCHANGED <<local, mutex, shared>>
  BY DEF Drop, Goto
<1>2. "drop" \in Using /\ "gone" \notin Using
  BY DEF Using, Counting
<1>3. heap' \in [Rounds -> Block]
  <2>1. bp[r] \in Rounds /\ heap[bp[r]] \in Block
    BY <1>1, <1>2 DEF IInv, TypeOK, HasBlock
  <2>2. [heap[bp[r]] EXCEPT !.life = "freed", !.done = TRUE] \in Block
    BY <2>1 DEF Block
  <2>3. heap' = [heap EXCEPT ![bp[r]] = [heap[bp[r]] EXCEPT !.life = "freed", !.done = TRUE]]
    BY <1>1, <2>1 DEF IInv, TypeOK
  <2> QED BY <2>1, <2>2, <2>3 DEF IInv, TypeOK
<1>4. blocks' \in [Slot -> Rounds \cup {None}]
  BY <1>1 DEF IInv, TypeOK, ClearSlot
<1>5. TypeOK'
  BY <1>1, <1>3, <1>4 DEF IInv, TypeOK, local, shared
<1>6. Placing' /\ HasBlock'
  BY <1>1, <1>2 DEF IInv, TypeOK, Placing, HasBlock, local
<1>7. SlotsOwned'
  <2> SUFFICES ASSUME NEW s \in Slot, blocks'[s] # None
               PROVE  slot[blocks'[s]] = s /\ pc'[blocks'[s]] \in Using
    BY <1>1 DEF SlotsOwned, local
  <2>1. s # slot[r] /\ blocks'[s] = blocks[s]
    BY <1>1 DEF ClearSlot, IInv, TypeOK
  <2>2. blocks[s] \in Rounds /\ slot[blocks[s]] = s /\ pc[blocks[s]] \in Using
    BY <2>1 DEF IInv, TypeOK, SlotsOwned
  <2>3. blocks[s] # r
    BY <2>1, <2>2
  <2> QED BY <1>1, <2>1, <2>2, <2>3 DEF IInv, TypeOK
<1> QED BY <1>5, <1>6, <1>7 DEF IInv
-----------------------------------------------------------------------------
(* The steps of a round that has its block.                                *)

(* What a round writes into its block leaves the heap well typed.          *)
LEMMA HeapUpdate ==
  ASSUME IInv, NEW r \in Rounds, pc[r] \in Using, NEW b \in Block,
         heap' = [heap EXCEPT ![bp[r]] = b]
  PROVE  heap' \in [Rounds -> Block]
BY DEF IInv, TypeOK

LEMMA OwnType ==
  ASSUME IInv, NEW r \in Rounds, pc[r] \in Using
  PROVE  bp[r] \in Rounds /\ heap[bp[r]] \in Block /\ HeightOf[r] \in Nat
BY TableAssumption DEF IInv, TypeOK, HasBlock

LEMMA IsRatifyType ==
  ASSUME IInv, NEW r \in Rounds, pc[r] \in Using
  PROVE  IsRatify(r) \subseteq Int
<1>1. heap[bp[r]].isratify \in {0, 1}
  BY OwnType DEF Block
<1>2. Garbage \subseteq Int
  BY TableAssumption
<1> QED BY <1>1, <1>2 DEF IsRatify

LEMMA LeastNumber ==
  ASSUME NEW S, S \subseteq Nat, S # {}
  PROVE  \E u \in S : \A v \in S : u <= v
<1>1. PICK u \in S : \A v \in S : <<v, u>> \notin OpToRel(<, Nat)
  BY WFMin, NatLessThanWellFounded, Zenon
<1>2. \A v \in S : ~(v < u)
  BY <1>1 DEF OpToRel
<1> QED BY <1>2

LEMMA FirstUnlockedType == ASSUME TypeOK PROVE FirstUnlocked \in Utxos \cup {None}
<1> DEFINE free == Utxos \ locked
<1> SUFFICES ASSUME free # {} PROVE (CHOOSE u \in free : \A v \in free : u <= v) \in free
  BY DEF FirstUnlocked
<1>1. free \subseteq Nat
  BY TableAssumption
<1>2. \E u \in free : \A v \in free : u <= v
  BY <1>1, LeastNumber
<1> QED BY <1>2

LEMMA PrepareKeeps == ASSUME IInv, NEW r \in Rounds, Prepare(r) PROVE IInv'
<1>1. /\ pc[r] = "prepare"
      /\ heap' = heap \/ heap' = [heap EXCEPT ![r].isratify = 1]
      /\ \E to \in {"count", "drop"} : pc' = [pc EXCEPT ![r] = to]
      /\ UNCHANGED <<local, mutex, blocks, shared>>
  BY DEF Prepare, Goto
<1>2. Steady(r)
  BY <1>1 DEF Steady, local, Using, Counting
<1>3. heap' \in [Rounds -> Block]
  <2>1. [heap[r] EXCEPT !.isratify = 1] \in Block
    BY DEF IInv, TypeOK, Block
  <2> QED BY <1>1, <2>1 DEF IInv, TypeOK
<1> QED BY <1>1, <1>2, <1>3, SteadyKeeps DEF IInv, TypeOK, shared

(* The steps that count ratifications.                                     *)
LEMMA CountingKeeps ==
  ASSUME IInv, NEW r \in Rounds,
         Count(r) \/ Wait(r) \/ Gate(r) \/ Elect(r) \/ Await(r) \/ Close(r)
  PROVE  IInv'
<1>1. /\ pc[r] \in {"count", "wait", "gate", "elect", "await", "close"}
      /\ \E to \in {"wait", "gate", "elect", "choose", "loop", "unlock", "drop"} :
           pc' = [pc EXCEPT ![r] = to]
      /\ UNCHANGED <<local, table, checkpoint, destupdated, locked>>
  BY DEF Count, Wait, Gate, Elect, Await, Close, Goto, shared
<1>2. Steady(r)
  BY <1>1 DEF Steady, local, table, Using, Counting
<1>3. ratifying' \in Int
  <2>1. pc[r] \in Using
    BY <1>2 DEF Steady
  <2>2. \/ ratifying' = ratifying \/ ratifying' = ratifying + 1
        \/ \E i \in IsRatify(r) : ratifying' = ratifying + i \/ ratifying' = ratifying - i
    BY DEF Count, Wait, Gate, Elect, Await, Close, shared
  <2> QED BY <2>1, <2>2, IsRatifyType DEF IInv, TypeOK
<1> QED BY <1>1, <1>2, <1>3, SteadyKeeps DEF IInv, TypeOK, table

(* The steps that write the block.                                         *)
LEMMA WritingKeeps ==
  ASSUME IInv, NEW r \in Rounds, Choose(r) \/ Publish(r) \/ Complete(r)
  PROVE  IInv'
<1>1. /\ pc[r] \in {"choose", "publish", "await", "loop"}
      /\ \E to \in {"secure", "publish", "await", "loop"} : pc' = [pc EXCEPT ![r] = to]
      /\ UNCHANGED <<local, mutex, blocks, ratifying, destupdated, locked>>
      /\ checkpoint' \in {checkpoint, HeightOf[r]}
  BY DEF Choose, Publish, Complete, Goto, shared, IInv, TypeOK
<1>2. Steady(r)
  BY <1>1 DEF Steady, local, Using, Counting
<1>3. pc[r] \in Using
  BY <1>2 DEF Steady
<1>4. heap' \in [Rounds -> Block]
  <2>1. PICK u \in Utxos \cup {None} :
          \/ heap' = [heap EXCEPT ![bp[r]].utxo = u]
          \/ heap' = [heap EXCEPT ![bp[r]].height = HeightOf[r]]
          \/ heap' = [heap EXCEPT ![bp[r]].done = TRUE]
    BY FirstUnlockedType DEF Choose, Publish, Complete, IInv
  <2> DEFINE b == heap[bp[r]]
  <2>2. /\ [b EXCEPT !.utxo = u] \in Block
        /\ [b EXCEPT !.height = HeightOf[r]] \in Block
        /\ [b EXCEPT !.done = TRUE] \in Block
    BY <1>3, OwnType DEF Block
  <2>3. \/ heap' = [heap EXCEPT ![bp[r]] = [b EXCEPT !.utxo = u]]
        \/ heap' = [heap EXCEPT ![bp[r]] = [b EXCEPT !.height = HeightOf[r]]]
        \/ heap' = [heap EXCEPT ![bp[r]] = [b EXCEPT !.done = TRUE]]
    BY <2>1
  <2> HIDE DEF b
  <2> QED BY <1>3, <2>2, <2>3, HeapUpdate
<1>5. checkpoint' \in Nat
  BY <1>1, <1>3, OwnType DEF IInv, TypeOK
<1> QED BY <1>1, <1>2, <1>4, <1>5, SteadyKeeps DEF IInv, TypeOK

(* The steps that leave the block as it is.                                *)
LEMMA OtherKeeps ==
  ASSUME IInv, NEW r \in Rounds, Secure(r) \/ Leave(r) \/ Unlock(r)
  PROVE  IInv'
<1>1. /\ pc[r] \in {"secure", "loop", "unlock"}
      /\ \E to \in {"publish", "close", "drop"} : pc' = [pc EXCEPT ![r] = to]
      /\ UNCHANGED <<local, table, ratifying, checkpoint, destupdated>>
  BY DEF Secure, Leave, Unlock, Goto, shared
<1>2. Steady(r)
  BY <1>1 DEF Steady, local, table, Using, Counting
<1>3. pc[r] \in Using
  BY <1>2 DEF Steady
<1>4. locked' \subseteq Utxos
  <2>1. heap[bp[r]].utxo \in Utxos \cup {None}
    BY <1>3, OwnType DEF Block
  <2> QED BY <2>1 DEF Secure, Leave, Unlock, Unlocked, shared, IInv, TypeOK
<1> QED BY <1>1, <1>2, <1>4, SteadyKeeps DEF IInv, TypeOK, table

-----------------------------------------------------------------------------
LEMMA InitIInv == Init => IInv
<1> SUFFICES ASSUME Init PROVE IInv
  OBVIOUS
<1>1. Unused \in Block
  BY DEF Unused, Block, None
<1>2. TypeOK
  <2>1. /\ pc \in [Rounds -> Using \cup Finding \cup {"off", "gone"}]
        /\ slot \in [Rounds -> Slot \cup {-1}] /\ bp \in [Rounds -> Rounds \cup {None}]
        /\ heap \in [Rounds -> Block] /\ blocks \in [Slot -> Rounds \cup {None}]
    BY <1>1 DEF Init
  <2>2. scan \in [Rounds -> 0 .. MaxBlocks]
    BY TableAssumption DEF Init
  <2>3. mutex \in Rounds \cup {None} /\ destupdated \in BOOLEAN /\ locked \subseteq Utxos
    BY Zenon DEF Init
  <2>4. ratifying \in Int /\ checkpoint \in Nat
    BY DEF Init
  <2> QED BY <2>1, <2>2, <2>3, <2>4, Zenon DEF TypeOK
<1>3. Placing /\ HasBlock
  BY DEF Init, Placing, HasBlock, Using, Counting
<1>4. SlotsOwned
  BY DEF Init, SlotsOwned
<1> QED BY <1>2, <1>3, <1>4 DEF IInv

LEMMA StepIInv == IInv /\ [Next]_vars => IInv'
<1> SUFFICES ASSUME IInv, [Next]_vars PROVE IInv'
  OBVIOUS
<1>1. CASE UNCHANGED vars
  BY <1>1 DEF vars, local, table, shared, IInv, TypeOK, Placing, HasBlock, SlotsOwned
<1>2. CASE DestUpdate
  BY <1>2 DEF DestUpdate, local, table, IInv, TypeOK, Placing, HasBlock, SlotsOwned
<1>3. ASSUME NEW r \in Rounds, Start(r) \/ Lock(r) \/ Searched(r) PROVE IInv'
  BY <1>3, FindingKeeps
<1>4. ASSUME NEW r \in Rounds, Search(r) PROVE IInv'
  BY <1>4, SearchKeeps
<1>5. ASSUME NEW r \in Rounds, Place(r) PROVE IInv'
  BY <1>5, PlaceKeeps
<1>6. ASSUME NEW r \in Rounds, Prepare(r) PROVE IInv'
  BY <1>6, PrepareKeeps
<1>7. ASSUME NEW r \in Rounds,
             Count(r) \/ Wait(r) \/ Gate(r) \/ Elect(r) \/ Await(r) \/ Close(r)
      PROVE  IInv'
  BY <1>7, CountingKeeps
<1>8. ASSUME NEW r \in Rounds, Choose(r) \/ Publish(r) \/ Complete(r) PROVE IInv'
  BY <1>8, WritingKeeps
<1>9. ASSUME NEW r \in Rounds, Secure(r) \/ Leave(r) \/ Unlock(r) PROVE IInv'
  BY <1>9, OtherKeeps
<1>10. ASSUME NEW r \in Rounds, Drop(r) PROVE IInv'
  BY <1>10, DropKeeps
<1> QED BY <1>1, <1>2, <1>3, <1>4, <1>5, <1>6, <1>7, <1>8, <1>9, <1>10 DEF Next

THEOREM Invariance == Spec => []IInv
BY InitIInv, StepIInv, PTL DEF Spec

(* The variables keep their types, whatever the rounds do to each other's  *)
(* blocks: a round that works has a block, freed or not.                   *)
THEOREM TypeCorrect == Spec => []TypeOK
<1>1. IInv => TypeOK
  BY DEF IInv
<1> QED BY <1>1, Invariance, PTL

(* dp->blocks drains: every entry belongs to a running round that will     *)
(* clear it, although the mutex does not keep two rounds from one slot.    *)
THEOREM TableDrains == Spec => []SlotsOwned
<1>1. IInv => SlotsOwned
  BY DEF IInv
<1> QED BY <1>1, Invariance, PTL

-----------------------------------------------------------------------------
(* What the races for the table cannot break as long as nothing was        *)
(* ratified, when every checkpoint has a height of its own: a round keeps  *)
(* its block to itself, and the utxo it locked is unlocked in the end.     *)

DistinctHeights ==
  \A q, r \in Rounds \ Ratifications : HeightOf[q] = HeightOf[r] => q = r

(* A block in the table has no height or that of its own round, so that a  *)
(* search never takes another round's block.                               *)
OwnHeight == \A r \in Rounds : heap[r].height \in {0, HeightOf[r]}
NoBlockYet == \A r \in Rounds : pc[r] \in {"off", "find", "search", "place"} => bp[r] = None

(* Between the locking and the unlocking a round holds its utxo.           *)
Holding == {"publish", "await", "loop", "close", "unlock"}
LocksInHand == \A u \in locked : \E r \in Rounds : pc[r] \in Holding /\ heap[r].utxo = u

OInv == NoneRatified /\ IInv /\ OwnHeight /\ NoBlockYet /\ OwnBlock /\ LocksInHand

(* Nothing of another round's is written.                                  *)
LeavesOthers(r) ==
  \A q \in Rounds \ {r} : pc'[q] = pc[q] /\ bp'[q] = bp[q] /\ heap'[q] = heap[q]

LEMMA OthersKeep ==
  ASSUME OInv, IInv', NEW r \in Rounds \ Ratifications, LeavesOthers(r),
         heap'[r].height \in {0, HeightOf[r]},
         pc'[r] \in {"off", "find", "search", "place"} => bp'[r] = None,
         pc'[r] \in Using => bp'[r] = r /\ heap'[r].life = "live",
         LocksInHand'
  PROVE  OInv'
<1>1. OwnHeight'
  BY DEF OInv, OwnHeight, LeavesOthers
<1>2. NoBlockYet'
  BY DEF OInv, NoBlockYet, LeavesOthers
<1>3. OwnBlock'
  BY DEF OInv, OwnBlock, NoneRatified, LeavesOthers
<1>4. NoneRatified'
  BY TableAssumption DEF OInv, NoneRatified, LeavesOthers
<1> QED BY <1>1, <1>2, <1>3, <1>4 DEF OInv

LEMMA HoldersKeep ==
  ASSUME OInv, NEW r \in Rounds, LeavesOthers(r), locked' = locked,
         pc[r] \in Holding => pc'[r] \in Holding /\ heap'[r].utxo = heap[r].utxo
  PROVE  LocksInHand'
BY DEF OInv, LocksInHand, LeavesOthers

-----------------------------------------------------------------------------
(* A search finds no block: those in the table are of other heights.       *)
LEMMA SearchFindsNone ==
  ASSUME DistinctHeights, OInv, NEW r \in Rounds \ Ratifications, Search(r)
  PROVE  bp' = bp
<1> DEFINE b == blocks[scan[r]]
<1>1. pc[r] = "search" /\ scan[r] \in Slot
  BY DEF Search
<1>2. pc[r] \notin Using
  BY <1>1 DEF Using, Counting
<1>3. b # r /\ b \in Rounds \cup {None}
  BY <1>1, <1>2, NotInTable DEF OInv, IInv, TypeOK
<1>4. HeightOf[r] # 0
  BY TableAssumption
<1>5. b # None => ~SameHeight(b, r)
  BY <1>3, <1>4, TableAssumption DEF DistinctHeights, OInv, OwnHeight, SameHeight
<1> QED BY <1>5 DEF Search

LEMMA FindingKeepsOwn ==
  ASSUME DistinctHeights, OInv, NEW r \in Rounds \ Ratifications, Start(r) \/ Lock(r) \/ Search(r) \/ Searched(r)
  PROVE  OInv'
<1>1. IInv'
  BY FindingKeeps, SearchKeeps DEF OInv
<1>2. /\ pc[r] \in {"off", "find", "search"}
      /\ UNCHANGED <<bp, heap, locked>>
  BY SearchFindsNone DEF Start, Lock, Search, Searched, local, table, shared
<1>3. \E to \in {"find", "search", "gone", "place"} : pc' = [pc EXCEPT ![r] = to]
  <2>1. bp[r] = None
    BY <1>2 DEF OInv, NoBlockYet
  <2>2. CASE Search(r)
    BY <2>2 DEF Search, OInv, IInv, TypeOK
  <2> QED BY <2>1, <2>2 DEF Start, Lock, Searched, Goto
<1>4. LeavesOthers(r)
  BY <1>2, <1>3 DEF LeavesOthers, OInv, IInv, TypeOK
<1>5. LocksInHand'
  BY <1>2, <1>4, HoldersKeep DEF Holding
<1>6. pc'[r] \notin Using
  BY <1>3 DEF Using, Counting, OInv, IInv, TypeOK
<1>7. bp'[r] = None /\ heap'[r].height \in {0, HeightOf[r]}
  BY <1>2 DEF OInv, NoBlockYet, OwnHeight
<1> QED BY <1>1, <1>4, <1>5, <1>6, <1>7, OthersKeep

LEMMA PlaceKeepsOwn ==
  ASSUME OInv, NEW r \in Rounds \ Ratifications, Place(r)
  PROVE  OInv'
<1>1. IInv'
  BY PlaceKeeps DEF OInv
<1>2. /\ pc[r] = "place"
      /\ heap' = [heap EXCEPT ![r] = NewBlock]
      /\ bp' = [bp EXCEPT ![r] = r]
      /\ pc' = [pc EXCEPT ![r] = "prepare"]
      /\ locked' = locked
  BY DEF Place, Goto, shared
<1>3. LeavesOthers(r)
  BY <1>2 DEF LeavesOthers, OInv, IInv, TypeOK
<1>4. LocksInHand'
  BY <1>2, <1>3, HoldersKeep DEF Holding
<1>5. pc'[r] = "prepare" /\ bp'[r] = r /\ heap'[r] = NewBlock
  BY <1>2 DEF OInv, IInv, TypeOK
<1> QED BY <1>1, <1>3, <1>4, <1>5, NewBlockType, OthersKeep

-----------------------------------------------------------------------------
(* The steps of a round that has its block.                                *)
LEMMA OwnKeeps ==
  ASSUME OInv, IInv', NEW r \in Rounds \ Ratifications, pc[r] \in Using,
         UNCHANGED <<bp, locked>>,
         \E to \in Using : pc' = [pc EXCEPT ![r] = to],
         pc[r] \in Holding => pc'[r] \in Holding,
         NEW f, heap' = [heap EXCEPT ![r] = f],
         f.life = heap[r].life, f.height \in {0, HeightOf[r]},
         pc[r] \in Holding => f.utxo = heap[r].utxo
  PROVE  OInv'
<1>1. LeavesOthers(r) /\ heap'[r] = f
  BY DEF LeavesOthers, OInv, IInv, TypeOK
<1>2. LocksInHand'
  BY <1>1, HoldersKeep
<1>3. bp'[r] = r /\ heap'[r].life = "live"
  BY <1>1 DEF OInv, OwnBlock
<1>4. pc'[r] \in Using
  BY DEF OInv, IInv, TypeOK
<1>5. pc'[r] \notin {"off", "find", "search", "place"}
  BY <1>4 DEF Using, Counting
<1> QED BY <1>1, <1>2, <1>3, <1>5, OthersKeep
(* Steps that do not write the block.                                      *)
LEMMA ReadingKeepsOwn ==
  ASSUME OInv, IInv', NEW r \in Rounds \ Ratifications,
         \/ Count(r) \/ Wait(r) \/ Gate(r) \/ Elect(r)
         \/ Await(r) \/ Leave(r) \/ Close(r)
  PROVE  OInv'
<1>1. /\ pc[r] \in {"count", "wait", "gate", "elect", "await", "loop", "close"}
      /\ UNCHANGED <<bp, heap, locked>>
      /\ \E to \in {"wait", "gate", "elect", "choose", "loop", "close", "unlock", "drop"} :
           /\ pc' = [pc EXCEPT ![r] = to]
           /\ pc[r] \in {"await", "loop", "close"} => to \in {"loop", "close", "unlock"}
  BY DEF Count, Wait, Gate, Elect, Await, Leave, Close, Goto, local, table, shared
<1>2. pc[r] \in Using /\ \E to \in Using : pc' = [pc EXCEPT ![r] = to]
  BY <1>1 DEF Using, Counting
<1>3. pc[r] \in Holding => pc'[r] \in Holding
  BY <1>1 DEF Holding, OInv, IInv, TypeOK
<1>4. heap' = [heap EXCEPT ![r] = heap[r]]
  BY <1>1 DEF OInv, IInv, TypeOK
<1>5. heap[r].height \in {0, HeightOf[r]}
  BY DEF OInv, OwnHeight
<1> QED BY <1>1, <1>2, <1>3, <1>4, <1>5, OwnKeeps

(* Steps that write the block.                                             *)
LEMMA WritingKeepsOwn ==
  ASSUME OInv, IInv', NEW r \in Rounds \ Ratifications,
         Prepare(r) \/ Choose(r) \/ Publish(r) \/ Complete(r)
  PROVE  OInv'
<1>1. /\ pc[r] \in {"prepare", "choose", "publish", "await", "loop"}
      /\ UNCHANGED <<bp, locked>>
      /\ \E to \in {"count", "secure", "publish", "await", "loop"} :
           /\ pc' = [pc EXCEPT ![r] = to]
           /\ pc[r] \in {"publish", "await", "loop"} => to \in {"await", "loop"}
  BY DEF Prepare, Choose, Publish, Complete, Goto, local, shared, OInv, IInv, TypeOK
<1>2. pc[r] \in Using /\ \E to \in Using : pc' = [pc EXCEPT ![r] = to]
  BY <1>1 DEF Using, Counting
<1>3. pc[r] \in Holding => pc'[r] \in Holding
  BY <1>1 DEF Holding, OInv, IInv, TypeOK
<1>4. bp[r] = r
  BY <1>2 DEF OInv, OwnBlock
<1>5. \E f : /\ heap' = [heap EXCEPT ![r] = f]
             /\ f.life = heap[r].life /\ f.height \in {0, HeightOf[r]}
             /\ pc[r] \in Holding => f.utxo = heap[r].utxo
  <2>0. heap \in [Rounds -> Block] /\ heap[r] \in Block /\ heap[r].height \in {0, HeightOf[r]}
    BY DEF OInv, IInv, TypeOK, OwnHeight
  <2>1. CASE Prepare(r)
    <3>1. heap' = [heap EXCEPT ![r] = heap[r]]
      BY <2>0, <2>1 DEF Prepare
    <3> QED BY <2>0, <3>1
  <2>2. CASE Choose(r)
    <3>1. PICK u : heap' = [heap EXCEPT ![r] = [heap[r] EXCEPT !.utxo = u]]
      BY <1>4, <2>2 DEF Choose
    <3>2. pc[r] \notin Holding
      BY <2>2 DEF Choose, Holding
    <3> DEFINE f == [heap[r] EXCEPT !.utxo = u]
    <3>3. f.life = heap[r].life /\ f.height = heap[r].height
      BY <2>0 DEF Block
    <3> QED BY <2>0, <3>1, <3>2, <3>3
  <2>3. CASE Publish(r)
    <3> DEFINE f == [heap[r] EXCEPT !.height = HeightOf[r]]
    <3>1. heap' = [heap EXCEPT ![r] = f]
      BY <1>4, <2>3 DEF Publish
    <3>2. f.life = heap[r].life /\ f.height = HeightOf[r] /\ f.utxo = heap[r].utxo
      BY <2>0 DEF Block
    <3> HIDE DEF f
    <3> QED BY <3>1, <3>2
  <2>4. CASE Complete(r)
    <3> DEFINE f == [heap[r] EXCEPT !.done = TRUE]
    <3>1. heap' = [heap EXCEPT ![r] = f]
      BY <1>4, <2>4 DEF Complete
    <3>2. f.life = heap[r].life /\ f.height = heap[r].height /\ f.utxo = heap[r].utxo
      BY <2>0 DEF Block
    <3> HIDE DEF f
    <3> QED BY <2>0, <3>1, <3>2
  <2> QED BY <2>1, <2>2, <2>3, <2>4
<1> QED BY <1>1, <1>2, <1>3, <1>5, OwnKeeps

-----------------------------------------------------------------------------
(* The locks of the wallet, and the end of a round.                        *)
LEMMA LockingKeepsOwn ==
  ASSUME OInv, IInv', NEW r \in Rounds \ Ratifications, Secure(r) \/ Unlock(r) \/ Drop(r)
  PROVE  OInv'
<1> DEFINE utxo == heap[r].utxo
<1>1. pc[r] \in {"secure", "unlock", "drop"} /\ pc[r] \in Using
  BY DEF Secure, Unlock, Drop, Using, Counting
<1>2. bp[r] = r
  BY <1>1 DEF OInv, OwnBlock
<1>3. \/ /\ pc[r] = "secure" /\ pc' = [pc EXCEPT ![r] = "publish"]
         /\ heap' = heap /\ locked' = locked \cup ({utxo} \ {None})
      \/ /\ pc[r] = "unlock" /\ pc' = [pc EXCEPT ![r] = "drop"]
         /\ heap' = heap /\ locked' = locked \ {utxo}
      \/ /\ pc[r] = "drop" /\ pc' = [pc EXCEPT ![r] = "gone"]
         /\ heap' = [heap EXCEPT ![r] = [heap[r] EXCEPT !.life = "freed", !.done = TRUE]]
         /\ locked' = locked
  BY <1>2 DEF Secure, Unlock, Unlocked, Drop, Goto, table, shared
<1>4. bp' = bp /\ heap \in [Rounds -> Block] /\ heap[r] \in Block
  BY DEF Secure, Unlock, Drop, local, OInv, IInv, TypeOK
<1>5. LeavesOthers(r)
  BY <1>3, <1>4 DEF LeavesOthers, OInv, IInv, TypeOK
<1>6. heap'[r].height = heap[r].height /\ (pc[r] # "drop" => heap'[r] = heap[r])
  BY <1>3, <1>4 DEF Block
<1>7. pc'[r] \in {"publish", "drop", "gone"} /\ (pc'[r] = "gone" <=> pc[r] = "drop")
  BY <1>3 DEF OInv, IInv, TypeOK
<1>8. LocksInHand'
  <2>1. CASE pc[r] = "secure"
    <3>1. pc'[r] \in Holding /\ heap'[r].utxo = utxo
      BY <1>3, <1>6, <2>1 DEF Holding, OInv, IInv, TypeOK
    <3>2. pc[r] \notin Holding
      BY <2>1 DEF Holding
    <3> HIDE DEF utxo
    <3> QED BY <1>3, <1>5, <2>1, <3>1, <3>2 DEF LocksInHand, OInv, LeavesOthers
  <2>2. CASE pc[r] = "unlock"
    BY <1>3, <1>5, <2>2 DEF LocksInHand, OInv, LeavesOthers
  <2>3. CASE pc[r] = "drop"
    BY <1>3, <1>5, <2>3, HoldersKeep DEF Holding
  <2> QED BY <1>1, <2>1, <2>2, <2>3
<1>9. pc'[r] \in Using => bp'[r] = r /\ heap'[r].life = "live"
  <2>1. "gone" \notin Using
    BY DEF Using, Counting
  <2> QED BY <1>1, <1>2, <1>4, <1>6, <1>7, <2>1 DEF OInv, OwnBlock
<1> QED BY <1>5, <1>6, <1>7, <1>8, <1>9, OthersKeep DEF OInv, OwnHeight

-----------------------------------------------------------------------------
LEMMA InitOInv == Init => OInv
<1> SUFFICES ASSUME Init PROVE OInv
  OBVIOUS
<1>1. OwnHeight /\ NoBlockYet
  BY DEF Init, OwnHeight, NoBlockYet, Unused
<1>2. OwnBlock /\ LocksInHand
  BY DEF Init, OwnBlock, LocksInHand, Using, Counting
<1>3. NoneRatified
  BY TableAssumption DEF Init, NoneRatified
<1> QED BY <1>1, <1>2, <1>3, InitIInv DEF OInv

LEMMA RoundKeepsOwn ==
  ASSUME DistinctHeights, OInv, IInv', NEW r \in Rounds \ Ratifications,
         \/ Start(r) \/ Lock(r) \/ Search(r) \/ Searched(r) \/ Place(r) \/ Prepare(r)
         \/ Count(r) \/ Wait(r) \/ Gate(r) \/ Elect(r) \/ Choose(r) \/ Secure(r) \/ Publish(r)
         \/ Await(r) \/ Complete(r) \/ Leave(r) \/ Close(r) \/ Unlock(r) \/ Drop(r)
  PROVE  OInv'
<1>1. CASE Start(r) \/ Lock(r) \/ Search(r) \/ Searched(r)
  BY <1>1, FindingKeepsOwn
<1>2. CASE Place(r)
  BY <1>2, PlaceKeepsOwn
<1>3. CASE Prepare(r) \/ Choose(r) \/ Publish(r) \/ Complete(r)
  BY <1>3, WritingKeepsOwn
<1>4. CASE Count(r) \/ Wait(r) \/ Gate(r) \/ Elect(r) \/ Await(r) \/ Leave(r) \/ Close(r)
  BY <1>4, ReadingKeepsOwn
<1>5. CASE Secure(r) \/ Unlock(r) \/ Drop(r)
  BY <1>5, LockingKeepsOwn
<1> QED BY <1>1, <1>2, <1>3, <1>4, <1>5

(* A ratification that was not started can only start.                     *)
LEMMA RatificationStarts ==
  ASSUME OInv, NEW r \in Ratifications,
         \/ Start(r) \/ Lock(r) \/ Search(r) \/ Searched(r) \/ Place(r) \/ Prepare(r)
         \/ Count(r) \/ Wait(r) \/ Gate(r) \/ Elect(r) \/ Choose(r) \/ Secure(r) \/ Publish(r)
         \/ Await(r) \/ Complete(r) \/ Leave(r) \/ Close(r) \/ Unlock(r) \/ Drop(r)
  PROVE  ~NoneRatified'
<1>1. pc[r] = "off" /\ r \in Rounds
  BY TableAssumption DEF OInv, NoneRatified
<1>2. Start(r)
  BY <1>1 DEF Lock, Search, Searched, Place, Prepare, Count, Wait, Gate, Elect, Choose, Secure,
              Publish, Await, Complete, Leave, Close, Unlock, Drop
<1>3. pc'[r] = "find"
  BY <1>1, <1>2 DEF Start, Goto, OInv, IInv, TypeOK
<1> QED BY <1>3 DEF NoneRatified

LEMMA StepOInv == DistinctHeights /\ OInv /\ [Next]_vars => OInv' \/ ~NoneRatified'
<1> SUFFICES ASSUME DistinctHeights, OInv, [Next]_vars PROVE OInv' \/ ~NoneRatified'
  OBVIOUS
<1>1. IInv'
  BY StepIInv DEF OInv
<1>2. CASE UNCHANGED <<pc, local, heap, locked>>
  BY <1>1, <1>2 DEF local, OInv, NoneRatified, OwnHeight, NoBlockYet, OwnBlock, LocksInHand
<1>3. CASE \E r \in Rounds :
         \/ Start(r) \/ Lock(r) \/ Search(r) \/ Searched(r) \/ Place(r) \/ Prepare(r)
         \/ Count(r) \/ Wait(r) \/ Gate(r) \/ Elect(r) \/ Choose(r) \/ Secure(r) \/ Publish(r)
         \/ Await(r) \/ Complete(r) \/ Leave(r) \/ Close(r) \/ Unlock(r) \/ Drop(r)
  <2>1. PICK r \in Rounds :
         \/ Start(r) \/ Lock(r) \/ Search(r) \/ Searched(r) \/ Place(r) \/ Prepare(r)
         \/ Count(r) \/ Wait(r) \/ Gate(r) \/ Elect(r) \/ Choose(r) \/ Secure(r) \/ Publish(r)
         \/ Await(r) \/ Complete(r) \/ Leave(r) \/ Close(r) \/ Unlock(r) \/ Drop(r)
    BY <1>3
  <2>2. CASE r \in Ratifications
    BY <2>1, <2>2, RatificationStarts
  <2>3. CASE r \notin Ratifications
    BY <1>1, <2>1, <2>3, RoundKeepsOwn
  <2> QED BY <2>2, <2>3
<1>4. UNCHANGED vars \/ DestUpdate => UNCHANGED <<pc, local, heap, locked>>
  BY DEF vars, table, shared, DestUpdate
<1> QED BY <1>2, <1>3, <1>4 DEF Next

(* A round that was started stays so: there is no way back to not having   *)
(* ratified.                                                               *)
LEMMA StaysRatified == IInv /\ ~NoneRatified /\ [Next]_vars => ~NoneRatified'
<1> SUFFICES ASSUME IInv, [Next]_vars, NEW q \in Ratifications, pc[q] # "off"
             PROVE  pc'[q] # "off"
  BY DEF NoneRatified
<1>1. q \in Rounds /\ pc \in [Rounds -> Using \cup Finding \cup {"off", "gone"}]
  BY TableAssumption DEF IInv, TypeOK
<1>2. CASE pc' = pc
  BY <1>2
<1>3. CASE \E r \in Rounds : \E to : to # "off" /\ pc' = [pc EXCEPT ![r] = to]
  BY <1>1, <1>3
<1>4. \/ pc' = pc
      \/ \E r \in Rounds : \E to : to # "off" /\ pc' = [pc EXCEPT ![r] = to]
  BY DEF Next, vars, DestUpdate, Start, Lock, Search, Searched, Place, Prepare, Count, Wait, Gate,
         Elect, Choose, Secure, Publish, Await, Complete, Leave, Close, Unlock, Drop, Goto
<1> QED BY <1>2, <1>3, <1>4

UntilRatified == IInv /\ (NoneRatified => OInv)

THEOREM OwnInvariance == ASSUME DistinctHeights PROVE Spec => []UntilRatified
<1>1. Init => UntilRatified
  BY InitOInv DEF OInv, UntilRatified
<1>2. UntilRatified /\ [Next]_vars => UntilRatified'
  BY StepIInv, StepOInv, StaysRatified DEF UntilRatified
<1> QED BY <1>1, <1>2, PTL DEF Spec

(* As long as nothing was ratified, and with a height of its own for every *)
(* checkpoint, no thread of dpow_statemachinestart uses or frees the block *)
(* of another, although the mutex of the search may be set free under it.  *)
THEOREM BlocksApart == ASSUME DistinctHeights PROVE Spec => []OwnBlock
<1>1. UntilRatified => OwnBlock
  BY DEF UntilRatified, OInv, OwnBlock
<1> QED BY <1>1, OwnInvariance, PTL

(* Then no utxo stays locked in the wallet without a round that will       *)
(* unlock it, whichever way the rounds end.                                *)
THEOREM UtxosComeBack == ASSUME DistinctHeights PROVE Spec => []LocksHeld
<1>1. UntilRatified => LocksHeld
  <2> SUFFICES ASSUME UntilRatified, NoneRatified, NEW u \in locked
               PROVE  \E r \in Rounds : pc[r] \in Using /\ heap[bp[r]].utxo = u
    BY DEF LocksHeld
  <2>1. PICK r \in Rounds : pc[r] \in Holding /\ heap[r].utxo = u
    BY DEF UntilRatified, OInv, LocksInHand
  <2>2. pc[r] \in Using
    BY <2>1 DEF Holding, Using, Counting
  <2>3. bp[r] = r
    BY <2>2 DEF UntilRatified, OInv, OwnBlock
  <2> QED BY <2>1, <2>2, <2>3
<1> QED BY <1>1, OwnInvariance, PTL
=============================================================================
