--------------------------- MODULE ChainWalkProofs ---------------------------
(***************************************************************************)
(* Proofs about the walk of ChainFollow's poller when the daemon of the    *)
(* source chain sends no block notifications, for every chain, every       *)
(* reorganisation and every fault.  The call that adds the coin (which is  *)
(* handled like a notification) may interleave with the poller at the      *)
(* start.                                                                  *)
(***************************************************************************)
EXTENDS ChainFollowProofs

(* The poller is the only one who sees blocks after the start; and a       *)
(* checkpoint has two blocks on top, as the call that adds the coin may    *)
(* make the poller see the starting height twice.                          *)
Alone == NotifyHeights = {} /\ Confirms >= 2

(* Nothing is known but the two blocks at which a walk begins.             *)
Shallow ==
  /\ started = <<>>
  /\ \A i \in 0 .. FifoSize - 1 : srcfifo[i] = Empty \/ srcfifo[i].height \in {Start - 1, Start}
  /\ \A h \in 1 .. MaxHeight : seen[h] # Zero => h \in {Start - 1, Start}

(* Until the call that adds the coin is over.                              *)
Landing ==
  /\ tip = Start
  /\ coin.height \in {0, Start}
  /\ Shallow
  /\ lastheight \in {0, Start - 1, Start, Start + 1}
  /\ last.height \in {0, Start - 1, Start}
  /\ poller.pc # "idle" => poller.height = Start
  /\ poller.pc = "see" => lastheight # Start + 1
  /\ notifier.pc = "see" => notifier.height = Start

(* No block was seen; or the next height is looked at next; or the call    *)
(* that adds the coin has set the poller back to the starting height.      *)
Unseen ==
  /\ last.height = 0
  /\ started = <<>>
  /\ \A i \in 0 .. FifoSize - 1 : srcfifo[i] = Empty
  /\ \A h \in 1 .. MaxHeight : seen[h] = Zero

SetBack == last.height = Start /\ lastheight = Start /\ Shallow

Position ==
  \/ Unseen
  \/ last.height >= 1 /\ lastheight = last.height + 1
  \/ SetBack

Walk ==
  /\ tip >= 2
  /\ coin.height # 1
  /\ poller.pc # "idle" => lastheight >= 1
  /\ notifier.pc # "idle" => Landing
  /\ Position

(* What was started lies deep enough below the block seen last.            *)
StartedDeep == \A i \in 1 .. Len(started) : started[i].height + Confirms < last.height

(* The fifo has the hash seen last at every height it reaches.             *)
Kept ==
  \A i \in 0 .. FifoSize - 1 :
    LET h == last.height - i
    IN  h >= 1 /\ seen[h] # Zero => srcfifo[i] = [height |-> h, hash |-> seen[h]]

WInv ==
  /\ IInv
  /\ Walk
  /\ StartedInOrder
  /\ StartedDeep
  /\ Kept
  /\ NoneSkipped

-----------------------------------------------------------------------------
(* The fifo when a block comes.                                            *)

LEMMA Sizes ==
  ASSUME Alone, IInv
  PROVE  /\ Confirms \in 2 .. FifoSize - 1 /\ FifoSize \in Nat
         /\ Start \in 2 .. MaxHeight /\ MaxHeight \in Nat
         /\ last.height \in 0 .. MaxHeight
         /\ tip \in 1 .. MaxHeight
         /\ coin.height \in 0 .. MaxHeight
         /\ lastheight \in 0 .. MaxHeight + 1
         /\ \A i \in 0 .. FifoSize - 1 : srcfifo[i] \in Checkpoint /\ srcfifo[i].height \in 0 .. MaxHeight
         /\ started \in Seq(Checkpoint)
BY FollowAssumption DEF Alone, IInv, TypeOK, Checkpoint, Height

(* An entry whose distance still fits is found again.                      *)
LEMMA FifoFinds ==
  ASSUME IInv, NEW block \in Checkpoint,
         NEW i \in 1 .. FifoSize - 1, NEW j \in 0 .. FifoSize - 2,
         srcfifo[j].height = block.height - i, block.height - i >= 1
  PROVE  FifoUpdate(block)[i] = srcfifo[j]
<1> DEFINE at == {k \in 0 .. FifoSize - 2 : srcfifo[k].height = block.height - i}
<1>1. ASSUME NEW k \in at PROVE k = j
  <2>1. k \in 0 .. FifoSize - 1 /\ j \in 0 .. FifoSize - 1
    BY FollowAssumption
  <2>2. srcfifo[k].height = srcfifo[j].height /\ srcfifo[k].height # 0
    BY FollowAssumption DEF Checkpoint, Height
  <2>3. srcfifo[k] # Empty /\ srcfifo[j] # Empty
    BY <2>2 DEF Empty
  <2>4. srcfifo[k].height = last.height - k /\ srcfifo[j].height = last.height - j
    BY <2>1, <2>3 DEF IInv, FifoByDistance
  <2>5. last.height \in Nat
    BY FollowAssumption DEF IInv, TypeOK, Checkpoint, Height
  <2> QED BY <2>1, <2>2, <2>4, <2>5, FollowAssumption
<1>2. at = {j}
  BY <1>1
<1>3. i \in 0 .. FifoSize - 1 /\ i # 0
  BY FollowAssumption
<1>4. FifoUpdate(block)[i] = IF at = {} THEN Empty ELSE srcfifo[CHOOSE k \in at : TRUE]
  BY <1>3 DEF FifoUpdate
<1> HIDE DEF at
<1> QED BY <1>2, <1>4

(* Nothing is in it that was not in it before.                             *)
LEMMA FifoFrom ==
  ASSUME NEW block, NEW i \in 0 .. FifoSize - 1
  PROVE  \/ FifoUpdate(block)[i] = block
         \/ FifoUpdate(block)[i] = Empty
         \/ \E j \in 0 .. FifoSize - 1 : FifoUpdate(block)[i] = srcfifo[j]
<1> DEFINE at == {k \in 0 .. FifoSize - 2 : srcfifo[k].height = block.height - i}
           k == CHOOSE k \in at : TRUE
<1>1. FifoUpdate(block)[i] = IF i = 0 THEN block ELSE IF at = {} THEN Empty ELSE srcfifo[k]
  BY DEF FifoUpdate
<1>2. at # {} => k \in 0 .. FifoSize - 1
  <2> SUFFICES ASSUME at # {} PROVE k \in 0 .. FifoSize - 1
    OBVIOUS
  <2>1. k \in at
    OBVIOUS
  <2> QED BY <2>1, FollowAssumption
<1> HIDE DEF at, k
<1> QED BY <1>1, <1>2

-----------------------------------------------------------------------------
(* The ways in which the block at height h is seen after those before it.  *)
Onwards(h) == last.height >= 1 /\ h = last.height + 1

Ways(h) ==
  \/ Unseen
  \/ Onwards(h)
  \/ Shallow /\ last.height \in {Start - 1, Start} /\ h \in {Start - 1, Start}

LEMMA SrcUpdateSays ==
  ASSUME IInv, NEW h \in Height, NEW hash \in Hash, SrcUpdate(h, hash)
  PROVE  LET block == [height |-> h, hash |-> hash]
         IN  /\ block \in Checkpoint
             /\ last' = block /\ last'.height = h
             /\ srcfifo' = FifoUpdate(block)
             /\ \A g \in 1 .. MaxHeight : seen'[g] = IF g = h THEN hash ELSE seen[g]
BY DEF SrcUpdate, Checkpoint, IInv, TypeOK

(* Two blocks are too few for a checkpoint.                                *)
LEMMA ShallowStep ==
  ASSUME Alone, IInv, Shallow, last.height \in {0, Start - 1, Start},
         NEW h \in Height, NEW hash \in Hash, h \in {Start - 1, Start}, SrcUpdate(h, hash)
  PROVE  Shallow'
<1> DEFINE block == [height |-> h, hash |-> hash]
           c == srcfifo[Confirms]
<1>1. started' = <<>>
  <2>1. SUFFICES ASSUME started' # started PROVE FALSE
    BY DEF Shallow
  <2>2. c.height = last.height - Confirms /\ IsCheckpoint(c)
    BY <2>1, StartsDeep DEF SrcUpdate
  <2>3. c # Empty
    BY <2>2 DEF IsCheckpoint, Empty
  <2>4. c.height \in {Start - 1, Start}
    BY <2>3, Sizes DEF Shallow
  <2> HIDE DEF c
  <2> QED BY <2>2, <2>4, Sizes
<1>2. ASSUME NEW i \in 0 .. FifoSize - 1
      PROVE  srcfifo'[i] = Empty \/ srcfifo'[i].height \in {Start - 1, Start}
  <2>1. srcfifo' = FifoUpdate(block) /\ block.height = h
    BY SrcUpdateSays
  <2> HIDE DEF block
  <2>2. \/ srcfifo'[i] = block
        \/ srcfifo'[i] = Empty
        \/ \E j \in 0 .. FifoSize - 1 : srcfifo'[i] = srcfifo[j]
    BY <2>1, FifoFrom
  <2> QED BY <2>1, <2>2 DEF Shallow
<1>3. ASSUME NEW g \in 1 .. MaxHeight, seen'[g] # Zero
      PROVE  g \in {Start - 1, Start}
  BY <1>3, SrcUpdateSays DEF Shallow
<1> QED BY <1>1, <1>2, <1>3 DEF Shallow

(* A round is started only when the next height is seen, for the block     *)
(* Confirms below the one seen before.                                     *)
LEMMA StartStep ==
  ASSUME Alone, IInv, NEW h \in Height, NEW hash \in Hash, Ways(h), SrcUpdate(h, hash),
         started' # started
  PROVE  /\ Onwards(h)
         /\ started' = Append(started, srcfifo[Confirms])
         /\ srcfifo[Confirms] \in Checkpoint
         /\ srcfifo[Confirms].height = last.height - Confirms
         /\ srcfifo[Confirms].height % Freq = 0
<1> DEFINE c == srcfifo[Confirms]
<1>1. /\ started' = Append(started, c)
      /\ c.height = last.height - Confirms
      /\ c.height % Freq = 0
      /\ IsCheckpoint(c)
  BY StartsDeep DEF SrcUpdate
<1>2. c # Empty /\ c \in Checkpoint
  BY <1>1, Sizes DEF IsCheckpoint, Empty
<1>3. ~Unseen
  BY <1>2, Sizes DEF Unseen
<1>4. ASSUME Shallow, last.height \in {Start - 1, Start} PROVE FALSE
  <2>1. c.height \in {Start - 1, Start}
    BY <1>2, <1>4, Sizes DEF Shallow
  <2> HIDE DEF c
  <2> QED BY <1>1, <1>4, <2>1, Sizes
<1> HIDE DEF c
<1>5. Onwards(h)
  BY <1>3, <1>4 DEF Ways
<1> QED BY <1>1, <1>2, <1>5 DEF c

LEMMA KeptStep ==
  ASSUME Alone, IInv, Kept, NEW h \in Height, NEW hash \in Hash, Ways(h), SrcUpdate(h, hash)
  PROVE  Kept'
<1> DEFINE block == [height |-> h, hash |-> hash]
<1>0. /\ block \in Checkpoint /\ block.height = h
      /\ last'.height = h /\ srcfifo' = FifoUpdate(block)
      /\ \A g \in 1 .. MaxHeight : seen'[g] = IF g = h THEN hash ELSE seen[g]
  BY SrcUpdateSays
<1> SUFFICES ASSUME NEW i \in 0 .. FifoSize - 1, h - i >= 1, seen'[h - i] # Zero
             PROVE  srcfifo'[i] = [height |-> h - i, hash |-> seen'[h - i]]
  BY <1>0 DEF Kept
<1>1. h \in 0 .. MaxHeight /\ h - i \in 1 .. MaxHeight /\ i \in Nat
  BY Sizes DEF Height
<1>2. CASE i = 0
  <2>1. srcfifo'[0] = block
    BY <1>0, <1>2 DEF FifoUpdate
  <2>2. h - i = h /\ seen'[h] = hash
    BY <1>0, <1>1, <1>2
  <2> QED BY <1>2, <2>1, <2>2
<1> HIDE DEF block
<1>3. CASE i # 0
  <2>1. seen'[h - i] = seen[h - i]
    BY <1>0, <1>1, <1>3
  <2>2. ASSUME NEW j \in 0 .. FifoSize - 2, last.height - j = h - i
        PROVE  srcfifo'[i] = [height |-> h - i, hash |-> seen'[h - i]]
    <3>1. j \in 0 .. FifoSize - 1
      BY Sizes
    <3>2. srcfifo[j] = [height |-> h - i, hash |-> seen[h - i]]
      BY <1>1, <2>1, <2>2, <3>1 DEF Kept
    <3>3. srcfifo[j].height = h - i
      BY <3>2
    <3>4. i \in 1 .. FifoSize - 1
      BY <1>3, Sizes
    <3> QED BY <1>0, <1>1, <2>1, <3>2, <3>3, <3>4, FifoFinds
  <2>3. CASE Unseen
    BY <1>1, <2>1, <2>3 DEF Unseen
  <2>4. CASE Onwards(h)
    <3>1. FifoSize \in Nat /\ last.height \in Nat
      BY Sizes
    <3>2. i \in 0 .. FifoSize - 1 /\ i # 0
      BY <1>3
    <3>3. i - 1 \in 0 .. FifoSize - 2
      BY <3>1, <3>2
    <3>4. last.height - (i - 1) = h - i
      BY <2>4, <3>1, <3>2 DEF Onwards
    <3> QED BY <2>2, <3>3, <3>4
  <2>5. CASE Shallow /\ last.height \in {Start - 1, Start} /\ h \in {Start - 1, Start}
    <3>1. h - i \in {Start - 1, Start}
      BY <1>1, <2>1, <2>5 DEF Shallow
    <3>2. h = Start /\ i = 1
      BY <1>1, <1>3, <2>5, <3>1, Sizes
    <3>3. CASE last.height = Start
      <4>1. 1 \in 0 .. FifoSize - 2 /\ last.height - 1 = h - i
        BY <3>2, <3>3, Sizes
      <4> QED BY <2>2, <4>1
    <3>4. CASE last.height = Start - 1
      <4>1. 0 \in 0 .. FifoSize - 2 /\ last.height - 0 = h - i
        BY <3>2, <3>4, Sizes
      <4> QED BY <2>2, <4>1
    <3> QED BY <2>5, <3>3, <3>4
  <2> QED BY <2>3, <2>4, <2>5 DEF Ways
<1> QED BY <1>2, <1>3

(* The parts of the invariant that are about rounds started.               *)
LEMMA StartedKept ==
  ASSUME Alone, IInv, StartedInOrder, StartedDeep, Kept, NoneSkipped,
         NEW h \in Height, NEW hash \in Hash, Ways(h), SrcUpdate(h, hash)
  PROVE  StartedInOrder' /\ StartedDeep' /\ NoneSkipped'
<1> DEFINE c == srcfifo[Confirms]
           block == [height |-> h, hash |-> hash]
<1>1. /\ last'.height = h
      /\ \A g \in 1 .. MaxHeight : seen'[g] = IF g = h THEN hash ELSE seen[g]
  BY SrcUpdateSays
<1>2. started' # started =>
        /\ Onwards(h)
        /\ started' = Append(started, c)
        /\ c \in Checkpoint
        /\ c.height = last.height - Confirms
  BY StartStep
<1>3. started \in Seq(Checkpoint) /\ last.height \in Nat /\ h \in Nat
  BY Sizes DEF Height
<1>4. started # <<>> => Onwards(h)
  BY DEF Ways, Unseen, Shallow
<1>5. ASSUME NEW i \in 1 .. Len(started) PROVE started[i].height \in Nat
  <2>1. started[i] \in Checkpoint
    BY <1>3
  <2>2. started[i].height \in 0 .. MaxHeight
    BY <2>1 DEF Checkpoint, Height
  <2> QED BY <2>2, FollowAssumption
<1>6. c.height \in Nat /\ Confirms \in Nat
  BY Sizes
<1> HIDE DEF c
<1>7. StartedDeep'
  <2> SUFFICES ASSUME NEW i \in 1 .. Len(started') PROVE started'[i].height + Confirms < h
    BY <1>1 DEF StartedDeep
  <2>1. CASE started' = started
    <3>1. started[i].height + Confirms < last.height /\ Onwards(h)
      BY <1>3, <1>4, <2>1 DEF StartedDeep
    <3>2. started[i].height \in Nat
      BY <1>5, <2>1
    <3> QED BY <1>3, <1>6, <2>1, <3>1, <3>2 DEF Onwards
  <2>2. CASE started' # started
    <3>1. i \in 1 .. Len(started) \/ (i = Len(started) + 1 /\ started'[i] = c)
      BY <1>2, <1>3, <2>2
    <3>2. CASE i \in 1 .. Len(started)
      <4>1. started'[i] = started[i] /\ started[i].height + Confirms < last.height
        BY <1>2, <1>3, <2>2, <3>2 DEF StartedDeep
      <4> QED BY <1>2, <1>3, <1>5, <1>6, <2>2, <3>2, <4>1 DEF Onwards
    <3>3. CASE started'[i] = c
      BY <1>2, <1>3, <1>6, <2>2, <3>3 DEF Onwards
    <3> QED BY <3>1, <3>2, <3>3
  <2> QED BY <2>1, <2>2
<1>8. StartedInOrder'
  <2>1. CASE started' = started
    BY <2>1 DEF StartedInOrder
  <2>2. CASE started' # started
    <3> SUFFICES ASSUME NEW i \in 1 .. Len(started'), NEW j \in 1 .. Len(started'), i < j
                 PROVE  started'[i].height < started'[j].height
      BY DEF StartedInOrder
    <3>1. Len(started') = Len(started) + 1 /\ Len(started) \in Nat
      BY <1>2, <1>3, <2>2
    <3>2. i \in 1 .. Len(started) /\ started'[i] = started[i]
      BY <1>2, <1>3, <2>2, <3>1
    <3>3. CASE j \in 1 .. Len(started)
      <4>1. started'[j] = started[j]
        BY <1>2, <1>3, <2>2, <3>3
      <4> QED BY <3>2, <3>3, <4>1 DEF StartedInOrder
    <3>4. CASE j \notin 1 .. Len(started)
      <4>1. started'[j] = c
        BY <1>2, <1>3, <2>2, <3>1, <3>4
      <4>2. started[i].height + Confirms < last.height /\ started[i].height \in Nat
        BY <1>5, <3>2 DEF StartedDeep
      <4> QED BY <1>2, <1>3, <1>6, <2>2, <3>2, <4>1, <4>2
    <3> QED BY <3>3, <3>4
  <2> QED BY <2>1, <2>2
<1>9. NoneSkipped'
  <2> SUFFICES ASSUME NEW g \in 1 .. MaxHeight, seen'[g] # Zero, g % Freq = 0, g + Confirms < h
               PROVE  \E i \in 1 .. Len(started') : started'[i] = [height |-> g, hash |-> seen'[g]]
    BY <1>1 DEF NoneSkipped
  <2>1. g # h /\ seen'[g] = seen[g]
    BY <1>1, <1>3, <1>6
  <2>2. Onwards(h)
    <3>1. ~Unseen
      BY <2>1 DEF Unseen
    <3>2. ASSUME Shallow, h \in {Start - 1, Start} PROVE FALSE
      <4>1. g \in {Start - 1, Start}
        BY <2>1, <3>2 DEF Shallow
      <4>2. Confirms >= 2 /\ Start \in Nat
        BY Sizes
      <4> QED BY <1>6, <3>2, <4>1, <4>2
    <3> QED BY <3>1, <3>2 DEF Ways
  <2>3. CASE g + Confirms < last.height
    <3>1. PICK i \in 1 .. Len(started) : started[i] = [height |-> g, hash |-> seen[g]]
      BY <2>1, <2>3 DEF NoneSkipped
    <3>2. i \in 1 .. Len(started') /\ started'[i] = started[i]
      BY <1>2, <1>3
    <3> QED BY <2>1, <3>1, <3>2
  <2>4. CASE g + Confirms = last.height
    <3>1. Confirms \in 0 .. FifoSize - 1 /\ last.height - Confirms = g
      BY <1>3, <1>6, <2>4, Sizes
    <3>2. c = [height |-> g, hash |-> seen[g]]
      BY <2>1, <3>1 DEF Kept, c
    <3>3. started' = Append(started, c)
      BY <2>1, <3>2 DEF SrcUpdate, IsCheckpoint, c
    <3>4. Len(started) + 1 \in 1 .. Len(started') /\ started'[Len(started) + 1] = c
      BY <1>3, <3>2, <3>3
    <3> QED BY <2>1, <3>2, <3>4
  <2>5. g + Confirms < last.height \/ g + Confirms = last.height
    BY <1>3, <1>6, <2>2 DEF Onwards
  <2> QED BY <2>3, <2>4, <2>5
<1> QED BY <1>7, <1>8, <1>9

-----------------------------------------------------------------------------
(* Where the walk is.                                                      *)

LEMMA ChainTipHeights ==
  ASSUME NEW answer
  PROVE  ChainTip(answer).coin.height \in {coin.height, tip}
<1> DEFINE best == BlockHash(tip)
<1>1. [coin EXCEPT !.hash = best].height = coin.height
  OBVIOUS
<1> QED BY <1>1 DEF ChainTip

(* A height is resumed at anew only by a walk that has not begun.          *)
LEMMA ResumeWalk ==
  ASSUME Alone, IInv, Walk, NEW height \in 2 .. MaxHeight, lastheight' = Resume(height),
         UNCHANGED <<last, srcfifo, started, seen>>
  PROVE  /\ lastheight' >= 1
         /\ lastheight' \in {lastheight, height - 1}
         /\ Position'
<1>1. lastheight \in Nat /\ Start >= 2 /\ last.height \in Nat
  BY Sizes, FollowAssumption
<1>2. CASE lastheight = 0
  <2>1. Unseen
    BY <1>1, <1>2 DEF Walk, Position, SetBack
  <2> QED BY <1>2, <2>1 DEF Resume, Position, Unseen
<1>3. CASE lastheight # 0
  BY <1>1, <1>3 DEF Walk, Resume, Position, Unseen, SetBack, Shallow
<1> QED BY <1>2, <1>3

LEMMA SeeWalk ==
  ASSUME Alone, IInv, Walk, See
  PROVE  Ways(lastheight) /\ Walk'
<1>1. lastheight \in Height /\ poller.hash \in Hash /\ SrcUpdate(lastheight, poller.hash)
  BY SeeingHeights DEF See
<1>2. lastheight >= 1 /\ lastheight \in Nat /\ last.height \in Nat
  BY <1>1, Sizes DEF Walk, See
<1>3. Ways(lastheight)
  BY DEF Walk, Position, SetBack, Ways, Onwards
<1>4. last'.height = lastheight /\ lastheight' = lastheight + 1
  BY <1>1, SrcUpdateSays DEF See
<1>5. Position'
  BY <1>2, <1>4 DEF Position
<1>6. /\ UNCHANGED <<chain, tip, forks, coin, notifier>>
      /\ poller'.pc = "fetch" /\ poller'.height = poller.height
  BY DEF See, IInv, TypeOK
<1>7. ASSUME Landing PROVE Landing'
  <2>1. lastheight \in {Start - 1, Start} /\ Start \in Nat
    BY <1>2, <1>7, FollowAssumption DEF Landing, See
  <2>2. Shallow'
    BY <1>1, <1>7, <2>1, ShallowStep DEF Landing
  <2>3. lastheight' \in {Start, Start + 1}
    BY <1>4, <2>1
  <2>4. poller.height = Start
    BY <1>7 DEF Landing, See
  <2> QED BY <1>4, <1>6, <1>7, <2>1, <2>2, <2>3, <2>4 DEF Landing
<1> QED BY <1>2, <1>3, <1>4, <1>5, <1>6, <1>7 DEF Walk

LEMMA NotifySeeWalk ==
  ASSUME Alone, IInv, Walk, NotifySee
  PROVE  Ways(notifier.height) /\ Shallow /\ Walk'
<1>1. /\ notifier.height \in Height /\ notifier.hash \in Hash
      /\ SrcUpdate(notifier.height, notifier.hash)
  BY SeeingHeights DEF NotifySee
<1>2. Landing /\ notifier.height = Start
  BY DEF Walk, Landing, NotifySee
<1>3. Start \in Nat /\ Start >= 2
  BY FollowAssumption
<1>4. Ways(notifier.height)
  <2>1. CASE last.height = 0
    BY <1>3, <2>1 DEF Walk, Position, SetBack, Ways
  <2>2. CASE last.height # 0
    BY <1>2, <2>2 DEF Landing, Ways
  <2> QED BY <2>1, <2>2
<1>5. Shallow'
  BY <1>1, <1>2, ShallowStep DEF Landing
<1>6. last'.height = Start /\ lastheight' = Start
  BY <1>1, <1>2, SrcUpdateSays DEF NotifySee
<1>7. Position'
  BY <1>5, <1>6 DEF Position, SetBack
<1>8. notifier'.pc = "idle" /\ UNCHANGED <<chain, tip, forks, coin, poller>>
  BY NobodyType DEF NotifySee
<1> QED BY <1>2, <1>3, <1>4, <1>6, <1>7, <1>8 DEF Walk, Landing

LEMMA QuietWalk ==
  ASSUME Alone, IInv, Walk, [Next]_vars, ~See, ~NotifySee
  PROVE  Walk'
<1>1. Start \in 2 .. MaxHeight /\ tip \in 1 .. MaxHeight /\ coin.height \in 0 .. MaxHeight
  BY Sizes
<1>2. UNCHANGED <<last, srcfifo, started, seen>>
  BY OnlySeeing
<1>3. lastheight' = lastheight => Position'
  BY <1>2 DEF Walk, Position, Unseen, SetBack, Shallow
<1>4. Shallow => Shallow'
  BY <1>2 DEF Shallow
<1>5. CASE UNCHANGED vars
  BY <1>3, <1>4, <1>5 DEF Walk, Landing, vars, dp
<1>6. CASE Extend
  BY <1>1, <1>3, <1>6 DEF Walk, Extend, dp
<1>7. CASE Reorg
  <2>1. tip' >= 2
    <3>1. PICK ancestor \in 1 .. tip - 1 : \E t \in ancestor + 1 .. MaxHeight : tip' = t
      BY <1>7 DEF Reorg
    <3> QED BY <1>1, <3>1
  <2> QED BY <1>3, <1>7, <2>1 DEF Walk, Reorg, dp
<1>8. CASE Glance
  <2>1. coin'.height \in {coin.height, tip}
    BY <1>8, ChainTipHeights DEF Glance
  <2> QED BY <1>1, <1>3, <1>4, <1>8, <2>1 DEF Walk, Landing, Glance, dp
<1>9. ASSUME NEW answer \in Answers, Poll(answer) PROVE Walk'
  <2> DEFINE t == ChainTip(answer)
  <2>1. /\ coin' = t.coin
        /\ t.coin.height > 0
        /\ lastheight' = Resume(t.coin.height)
        /\ poller' = [pc |-> "fetch", height |-> t.coin.height, hash |-> Zero]
        /\ UNCHANGED <<chain, tip, forks, notifier>>
    BY <1>9 DEF Poll
  <2>2. t.coin.height \in {coin.height, tip}
    BY ChainTipHeights
  <2> HIDE DEF t
  <2>3. t.coin.height \in 2 .. MaxHeight
    BY <1>1, <2>1, <2>2 DEF Walk
  <2>4. lastheight' >= 1 /\ lastheight' \in {lastheight, t.coin.height - 1} /\ Position'
    BY <1>2, <2>1, <2>3, ResumeWalk
  <2>5. ASSUME Landing PROVE Landing'
    <3>1. t.coin.height = Start
      BY <2>2, <2>3, <2>5 DEF Landing
    <3>2. lastheight' \in {0, Start - 1, Start, Start + 1}
      BY <2>4, <2>5, <3>1 DEF Landing
    <3> QED BY <1>2, <1>4, <2>1, <2>5, <3>1, <3>2 DEF Landing
  <2> QED BY <2>1, <2>3, <2>4, <2>5 DEF Walk
<1>10. ASSUME NEW answer \in Answers, PollNothing(answer) PROVE Walk'
  <2>1. coin'.height \in {coin.height, tip}
    BY <1>10, ChainTipHeights DEF PollNothing
  <2> QED BY <1>1, <1>3, <1>4, <1>10, <2>1 DEF Walk, Landing, PollNothing, dp
<1>11. CASE Fetch
  <2>1. lastheight <= poller.height /\ poller.pc = "fetch"
    BY <1>11 DEF Fetch, Upto
  <2>2. poller'.height = poller.height
    BY <1>11 DEF Fetch, IInv, TypeOK
  <2>3. UNCHANGED <<chain, tip, forks, coin, notifier, lastheight>>
    BY <1>11 DEF Fetch, dp
  <2>4. ASSUME Landing PROVE Landing'
    BY <1>1, <1>2, <1>4, <2>1, <2>2, <2>3, <2>4 DEF Landing
  <2> QED BY <1>3, <2>1, <2>3, <2>4 DEF Walk
<1>12. CASE CaughtUp
  BY <1>3, <1>4, <1>12, NobodyType DEF Walk, Landing, CaughtUp, dp
<1>13. CASE Notify
  <2>1. Landing
    BY <1>13 DEF Notify, Alone, Walk
  <2>2. PICK answer \in Answers :
          LET t == ChainTip(answer)
              height == t.coin.height
              new == height # last.height /\ height > 0
          IN  /\ coin' = t.coin
              /\ lastheight' = IF new THEN Resume(height) ELSE lastheight
              /\ notifier' = IF new /\ height >= last.height
                             THEN [pc |-> "see", height |-> height, hash |-> t.hash] ELSE Nobody
    BY <1>13 DEF Notify
  <2> DEFINE t == ChainTip(answer)
             new == t.coin.height # last.height /\ t.coin.height > 0
  <2>3. t.coin.height \in {0, Start}
    BY <2>1, ChainTipHeights DEF Landing
  <2>4. /\ coin' = t.coin
        /\ new => lastheight' = Resume(t.coin.height)
        /\ ~new => lastheight' = lastheight /\ notifier' = Nobody
        /\ \/ notifier' = Nobody
           \/ notifier' = [pc |-> "see", height |-> t.coin.height, hash |-> t.hash] /\ new
    BY <2>2
  <2> HIDE DEF t
  <2>5. UNCHANGED <<chain, tip, forks, poller>>
    BY <1>13 DEF Notify
  <2>6. CASE new
    <3>1. t.coin.height = Start
      BY <2>3, <2>6
    <3>2. lastheight' >= 1 /\ lastheight' \in {lastheight, Start - 1} /\ Position'
      BY <1>1, <1>2, <2>4, <2>6, <3>1, ResumeWalk
    <3>3. lastheight' \in {0, Start - 1, Start, Start + 1}
      BY <2>1, <3>2 DEF Landing
    <3>4. notifier'.pc = "see" => notifier'.height = Start
      BY <2>4, <3>1, NobodyType
    <3>5. Landing'
      BY <1>1, <1>2, <1>4, <2>1, <2>3, <2>4, <2>5, <3>2, <3>3, <3>4 DEF Landing
    <3> QED BY <1>1, <2>4, <2>5, <3>1, <3>2, <3>5 DEF Walk
  <2>7. CASE ~new
    <3>1. notifier'.pc = "idle" /\ coin'.height # 1
      BY <1>1, <2>3, <2>4, <2>7, NobodyType
    <3> QED BY <1>3, <2>4, <2>5, <2>7, <3>1 DEF Walk
  <2> QED BY <2>6, <2>7
<1> QED BY <1>5, <1>6, <1>7, <1>8, <1>9, <1>10, <1>11, <1>12, <1>13 DEF Next

-----------------------------------------------------------------------------
(* The invariant of the walk.                                              *)

LEMMA InitWInv == Init => WInv
<1> SUFFICES ASSUME Init PROVE WInv
  OBVIOUS
<1>1. IInv
  BY InitIInv
<1>2. /\ tip = Start /\ coin.height = 0 /\ last.height = 0 /\ lastheight = 0
      /\ started = <<>>
      /\ poller.pc = "idle" /\ notifier.pc = "due"
      /\ \A i \in 0 .. FifoSize - 1 : srcfifo[i] = Empty
      /\ \A h \in 1 .. MaxHeight : seen[h] = Zero
  BY DEF Init, Empty, Nobody
<1>3. Start >= 2
  BY FollowAssumption
<1>4. Unseen /\ Landing
  BY <1>2 DEF Unseen, Landing, Shallow
<1>5. Walk
  BY <1>2, <1>3, <1>4 DEF Walk, Position
<1>6. StartedInOrder /\ StartedDeep
  BY <1>2 DEF StartedInOrder, StartedDeep
<1>7. Kept
  <2> SUFFICES ASSUME NEW i \in 0 .. FifoSize - 1, last.height - i >= 1 PROVE FALSE
    BY DEF Kept
  <2> QED BY <1>2, FollowAssumption
<1>8. NoneSkipped
  BY <1>2 DEF NoneSkipped
<1> QED BY <1>1, <1>5, <1>6, <1>7, <1>8 DEF WInv

LEMMA StepWInv == ASSUME Alone PROVE WInv /\ [Next]_vars => WInv'
<1> SUFFICES ASSUME WInv, [Next]_vars PROVE WInv'
  OBVIOUS
<1>1. IInv' /\ IInv
  BY StepIInv DEF WInv
<1>2. CASE See
  <2>1. lastheight \in Height /\ poller.hash \in Hash /\ SrcUpdate(lastheight, poller.hash)
    BY <1>1, <1>2, SeeingHeights DEF See
  <2>2. Ways(lastheight) /\ Walk'
    BY <1>1, <1>2, SeeWalk DEF WInv
  <2> QED BY <1>1, <2>1, <2>2, KeptStep, StartedKept DEF WInv
<1>3. CASE NotifySee
  <2>1. /\ notifier.height \in Height /\ notifier.hash \in Hash
        /\ SrcUpdate(notifier.height, notifier.hash)
    BY <1>1, <1>3, SeeingHeights DEF NotifySee
  <2>2. Ways(notifier.height) /\ Walk'
    BY <1>1, <1>3, NotifySeeWalk DEF WInv
  <2> QED BY <1>1, <2>1, <2>2, KeptStep, StartedKept DEF WInv
<1>4. CASE ~See /\ ~NotifySee
  <2>1. UNCHANGED <<last, srcfifo, started, seen>>
    BY <1>4, OnlySeeing
  <2>2. Walk'
    BY <1>1, <1>4, QuietWalk DEF WInv
  <2> QED BY <1>1, <2>1, <2>2 DEF WInv, StartedInOrder, StartedDeep, Kept, NoneSkipped
<1> QED BY <1>2, <1>3, <1>4

(* WInv holds in every reachable state.                                   *)
THEOREM WalkInvariance == ASSUME Alone PROVE Spec => []WInv
<1> QED BY InitWInv, StepWInv, PTL DEF Spec

(* No height is notarized twice or before a lower one, whatever            *)
(* reorganisations the poller meets.                                       *)
THEOREM StartsInOrder == ASSUME Alone PROVE Spec => []StartedInOrder
<1>1. WInv => StartedInOrder
  BY DEF WInv
<1> QED BY <1>1, WalkInvariance, PTL

(* A round was started for every checkpoint that lies deep enough, with    *)
(* the hash it had when it was seen last.                                  *)
THEOREM SkipsNone == ASSUME Alone PROVE Spec => []NoneSkipped
<1>1. WInv => NoneSkipped
  BY DEF WInv
<1> QED BY <1>1, WalkInvariance, PTL

-----------------------------------------------------------------------------
(* The refinement.                                                         *)

StartedHeights == [i \in 1 .. Len(started) |-> started[i].height]

LEMMA HeightsAppend ==
  ASSUME NEW c \in Checkpoint, started \in Seq(Checkpoint), started' = Append(started, c)
  PROVE  StartedHeights' = Append(StartedHeights, c.height)
<1>1. Len(started') = Len(started) + 1 /\ Len(started) \in Nat
  OBVIOUS
<1>2. started'[Len(started) + 1] = c
  OBVIOUS
<1>3. ASSUME NEW i \in 1 .. Len(started) PROVE started'[i] = started[i]
  OBVIOUS
<1>4. StartedHeights' = [i \in 1 .. Len(started) + 1 |-> started'[i].height]
  BY <1>1 DEF StartedHeights
<1>5. StartedHeights \in Seq(Height) /\ Len(StartedHeights) = Len(started)
  <2>1. ASSUME NEW i \in 1 .. Len(started) PROVE started[i].height \in Height
    <3>1. started[i] \in Checkpoint
      OBVIOUS
    <3> QED BY <3>1 DEF Checkpoint
  <2>2. StartedHeights \in [1 .. Len(started) -> Height]
    BY <2>1 DEF StartedHeights
  <2> QED BY <1>1, <2>2
<1>6. c.height \in Height
  BY DEF Checkpoint
<1>7. Append(StartedHeights, c.height)
        = [i \in 1 .. Len(started) + 1 |-> IF i = Len(started) + 1 THEN c.height ELSE StartedHeights[i]]
  BY <1>5, <1>6
<1>8. ASSUME NEW i \in 1 .. Len(started) + 1
      PROVE  started'[i].height = IF i = Len(started) + 1 THEN c.height ELSE StartedHeights[i]
  BY <1>1, <1>2, <1>3 DEF StartedHeights
<1> QED BY <1>4, <1>7, <1>8

LEMMA VisitStep ==
  ASSUME Alone, WInv, NEW h \in Height, NEW hash \in Hash, Ways(h), SrcUpdate(h, hash),
         h = last.height + 1 \/ started = <<>>
  PROVE  Stream!Visit
<1>0. IInv
  BY DEF WInv
<1>1. last'.height = h /\ h \in Nat
  <2>1. last'.height = h
    BY <1>0, SrcUpdateSays
  <2> QED BY <2>1, FollowAssumption DEF Height
<1>2. last.height \in Nat /\ started \in Seq(Checkpoint) /\ Confirms \in Nat
  BY Sizes DEF WInv
<1>3. Stream!Onward(h)
  BY DEF Stream!Onward
<1>4. CASE started' = started
  BY <1>1, <1>3, <1>4 DEF Stream!Visit
<1>5. CASE started' # started
  <2> DEFINE c == srcfifo[Confirms]
  <2>1. /\ Onwards(h)
        /\ started' = Append(started, c)
        /\ c \in Checkpoint
        /\ c.height = last.height - Confirms
        /\ c.height % Freq = 0
    BY <1>5, StartStep DEF WInv
  <2> HIDE DEF c
  <2>2. h - 1 - Confirms = c.height
    BY <1>2, <2>1 DEF Onwards
  <2>3. StartedHeights' = Append(StartedHeights, c.height)
    BY <1>2, <2>1, HeightsAppend
  <2> QED BY <1>1, <1>3, <2>1, <2>2, <2>3 DEF Stream!Visit, StartedHeights
<1> QED BY <1>4, <1>5

(* The poller implements CheckpointStream: it walks up height by height    *)
(* and starts a round for each checkpoint exactly when it is Confirms      *)
(* below.                                                                  *)
THEOREM Refinement == ASSUME Alone PROVE Spec => Streams
<1>1. Init => Stream!Init
  BY DEF Init, Empty, Stream!Init
<1>2. WInv /\ [Next]_vars => [Stream!Visit]_<<last.height, StartedHeights>>
  <2> SUFFICES ASSUME WInv, [Next]_vars
               PROVE  Stream!Visit \/ UNCHANGED <<last.height, StartedHeights>>
    OBVIOUS
  <2>1. CASE See
    <3>1. /\ lastheight \in Height /\ poller.hash \in Hash
          /\ SrcUpdate(lastheight, poller.hash) /\ Ways(lastheight)
      BY <2>1, SeeingHeights, SeeWalk DEF See, WInv
    <3>2. lastheight = last.height + 1 \/ started = <<>>
      BY DEF WInv, Walk, Position, Unseen, SetBack, Shallow
    <3> QED BY <3>1, <3>2, VisitStep
  <2>2. CASE NotifySee
    <3>1. /\ notifier.height \in Height /\ notifier.hash \in Hash
          /\ SrcUpdate(notifier.height, notifier.hash) /\ Ways(notifier.height)
          /\ started = <<>>
      BY <2>2, SeeingHeights, NotifySeeWalk DEF NotifySee, WInv, Shallow
    <3> QED BY <3>1, VisitStep
  <2>3. CASE UNCHANGED <<last, srcfifo, started, seen>>
    BY <2>3 DEF StartedHeights
  <2> QED BY <2>1, <2>2, <2>3, OnlySeeing
<1> QED BY <1>1, <1>2, WalkInvariance, PTL DEF Spec, Streams, Stream!Spec, StartedHeights
=============================================================================
