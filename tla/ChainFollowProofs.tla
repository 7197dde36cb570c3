-------------------------- MODULE ChainFollowProofs --------------------------
(***************************************************************************)
(* Proofs about ChainFollow, for every chain, every interleaving of the    *)
(* poller with block notifications and every fault of the daemons.         *)
(***************************************************************************)
EXTENDS ChainFollow, TLAPS

(* The inductive invariant of the follower as a whole.                     *)
IInv ==
  /\ TypeOK
  /\ FifoByDistance
  /\ poller.pc = "see" => lastheight <= MaxHeight

-----------------------------------------------------------------------------
(* What the operators return.                                              *)

LEMMA ZeroType == Zero \in Hash /\ Empty \in Checkpoint /\ 0 \in Height
BY FollowAssumption DEF Zero, Hash, Empty, Checkpoint, Height

LEMMA BlockHashType ==
  ASSUME TypeOK, NEW h \in Height
  PROVE  BlockHash(h) \in Hash
<1>1. CASE h \in 1 .. tip
  <2>1. h \in 1 .. MaxHeight
    BY <1>1, FollowAssumption DEF TypeOK, Height
  <2> QED BY <1>1, <2>1 DEF BlockHash, Hash, TypeOK
<1>2. CASE h \notin 1 .. tip
  BY <1>2, ZeroType DEF BlockHash
<1> QED BY <1>1, <1>2

LEMMA ChainTipType ==
  ASSUME TypeOK, NEW answer
  PROVE  ChainTip(answer).coin \in Checkpoint /\ ChainTip(answer).hash \in Hash
<1>1. tip \in Height
  BY FollowAssumption DEF TypeOK, Height
<1>2. BlockHash(tip) \in Hash
  BY <1>1, BlockHashType
<1> DEFINE best == BlockHash(tip)
<1>3. [coin EXCEPT !.hash = best] \in Checkpoint
  BY <1>2 DEF TypeOK, Checkpoint
<1>4. [height |-> tip, hash |-> best] \in Checkpoint
  BY <1>1, <1>2 DEF Checkpoint
<1>5. coin \in Checkpoint /\ coin.hash \in Hash
  BY DEF TypeOK, Checkpoint
<1> HIDE DEF best
<1> QED BY <1>2, <1>3, <1>4, <1>5, ZeroType DEF ChainTip, best

(* However blocks come, the fifo is in order of their distance again.      *)
LEMMA FifoUpdateOrder ==
  ASSUME TypeOK, NEW block \in Checkpoint
  PROVE  /\ FifoUpdate(block) \in [0 .. FifoSize - 1 -> Checkpoint]
         /\ \A i \in 0 .. FifoSize - 1 :
              FifoUpdate(block)[i] # Empty => FifoUpdate(block)[i].height = block.height - i
<1> DEFINE at(i) == {j \in 0 .. FifoSize - 2 : srcfifo[j].height = block.height - i}
           entry(i) == IF i = 0 THEN block
                       ELSE IF at(i) = {} THEN Empty ELSE srcfifo[CHOOSE j \in at(i) : TRUE]
<1>1. FifoUpdate(block) = [i \in 0 .. FifoSize - 1 |-> entry(i)]
  BY DEF FifoUpdate
<1>2. ASSUME NEW i \in 0 .. FifoSize - 1
      PROVE  entry(i) \in Checkpoint /\ (entry(i) # Empty => entry(i).height = block.height - i)
  <2>1. CASE i = 0
    BY <2>1, FollowAssumption DEF Checkpoint, Height
  <2>2. CASE i # 0 /\ at(i) = {}
    BY <2>2, ZeroType
  <2>3. CASE i # 0 /\ at(i) # {}
    <3> DEFINE k == CHOOSE j \in at(i) : TRUE
    <3>1. k \in at(i)
      BY <2>3
    <3>2. k \in 0 .. FifoSize - 1 /\ srcfifo[k].height = block.height - i
      BY <3>1, FollowAssumption
    <3>3. entry(i) = srcfifo[k]
      BY <2>3
    <3> HIDE DEF k
    <3> QED BY <3>2, <3>3 DEF TypeOK
  <2> QED BY <2>1, <2>2, <2>3
<1> HIDE DEF entry
<1> QED BY <1>1, <1>2

LEMMA SrcUpdateKeeps ==
  ASSUME TypeOK, NEW height \in Height, NEW hash \in Hash, SrcUpdate(height, hash)
  PROVE  /\ last' \in Checkpoint /\ last'.height = height
         /\ srcfifo' \in [0 .. FifoSize - 1 -> Checkpoint]
         /\ started' \in Seq(Checkpoint)
         /\ seen' \in [1 .. MaxHeight -> Hash]
         /\ FifoByDistance'
<1> DEFINE block == [height |-> height, hash |-> hash]
<1>1. block \in Checkpoint
  BY DEF Checkpoint
<1>2. last' = block /\ srcfifo' = FifoUpdate(block)
  BY DEF SrcUpdate
<1>3. srcfifo[Confirms] \in Checkpoint
  BY FollowAssumption DEF TypeOK
<1>4. started' \in Seq(Checkpoint)
  BY <1>3 DEF SrcUpdate, TypeOK
<1>5. seen' \in [1 .. MaxHeight -> Hash]
  BY DEF SrcUpdate, TypeOK
<1>6. block.height = height
  OBVIOUS
<1> HIDE DEF block
<1> QED BY <1>1, <1>2, <1>4, <1>5, <1>6, FifoUpdateOrder DEF FifoByDistance

LEMMA ResumeType ==
  ASSUME TypeOK, NEW h \in Height, h > 0
  PROVE  /\ Resume(h) \in 0 .. MaxHeight + 1
         /\ lastheight <= MaxHeight => Resume(h) <= MaxHeight
BY FollowAssumption DEF Resume, TypeOK, Height

-----------------------------------------------------------------------------
(* Every action keeps the invariant.                                       *)

LEMMA InitIInv == Init => IInv
<1> SUFFICES ASSUME Init PROVE IInv
  OBVIOUS
<1>1. chain \in [1 .. MaxHeight -> 0 .. MaxForks] /\ forks \in 0 .. MaxForks
  BY FollowAssumption DEF Init
<1>2. tip \in 1 .. MaxHeight /\ lastheight \in 0 .. MaxHeight + 1
  BY FollowAssumption DEF Init
<1>3. /\ coin \in Checkpoint /\ last \in Checkpoint
      /\ srcfifo \in [0 .. FifoSize - 1 -> Checkpoint]
      /\ seen \in [1 .. MaxHeight -> Hash]
      /\ FifoByDistance
  BY ZeroType DEF Init, FifoByDistance
<1>4. started \in Seq(Checkpoint)
  BY DEF Init
<1>5. /\ poller = [pc |-> "idle", height |-> 0, hash |-> Zero]
      /\ notifier = [pc |-> "due", height |-> 0, hash |-> Zero]
  BY DEF Init, Nobody
<1> QED BY <1>1, <1>2, <1>3, <1>4, <1>5, ZeroType DEF IInv, TypeOK

LEMMA NobodyType ==
  /\ Nobody \in [pc : {"idle", "fetch", "see"}, height : Height, hash : Hash]
  /\ Nobody \in [pc : {"due", "idle", "see"}, height : Height, hash : Hash]
  /\ Nobody.pc = "idle"
BY ZeroType DEF Nobody

LEMMA ExtendKeeps == IInv /\ Extend => IInv'
BY FollowAssumption DEF IInv, TypeOK, FifoByDistance, Extend, dp

LEMMA ReorgKeeps == IInv /\ Reorg => IInv'
<1> SUFFICES ASSUME IInv, Reorg PROVE IInv'
  OBVIOUS
<1>1. PICK ancestor \in 1 .. tip - 1 : \E t \in ancestor + 1 .. MaxHeight :
        /\ tip' = t
        /\ chain' = [h \in 1 .. MaxHeight |-> IF h \in ancestor + 1 .. t THEN forks + 1 ELSE chain[h]]
  BY DEF Reorg
<1> PICK t \in ancestor + 1 .. MaxHeight :
        /\ tip' = t
        /\ chain' = [h \in 1 .. MaxHeight |-> IF h \in ancestor + 1 .. t THEN forks + 1 ELSE chain[h]]
  BY <1>1
<1>2. forks' = forks + 1 /\ forks' \in 0 .. MaxForks
  BY FollowAssumption DEF Reorg, IInv, TypeOK
<1>3. tip' \in 1 .. MaxHeight
  BY <1>1, FollowAssumption DEF IInv, TypeOK
<1>4. chain' \in [1 .. MaxHeight -> 0 .. MaxForks]
  BY <1>1, <1>2 DEF IInv, TypeOK
<1>5. UNCHANGED <<coin, poller, notifier, last, lastheight, srcfifo, started, seen>>
  BY DEF Reorg, dp
<1> QED BY <1>2, <1>3, <1>4, <1>5 DEF IInv, TypeOK, FifoByDistance

LEMMA GlanceKeeps == IInv /\ Glance => IInv'
<1> SUFFICES ASSUME IInv, Glance PROVE IInv'
  OBVIOUS
<1>1. coin' \in Checkpoint
  BY ChainTipType DEF Glance, IInv
<1> QED BY <1>1 DEF IInv, TypeOK, FifoByDistance, Glance, dp

LEMMA PollKeeps == ASSUME NEW answer \in Answers PROVE IInv /\ Poll(answer) => IInv'
<1> SUFFICES ASSUME IInv, Poll(answer) PROVE IInv'
  OBVIOUS
<1> DEFINE t == ChainTip(answer)
<1>1. t.coin \in Checkpoint /\ t.coin.height \in Height
  BY ChainTipType DEF IInv, Checkpoint
<1>2. /\ coin' = t.coin
      /\ t.coin.height > 0
      /\ lastheight' = Resume(t.coin.height)
      /\ poller' = [pc |-> "fetch", height |-> t.coin.height, hash |-> Zero]
      /\ UNCHANGED <<chain, tip, forks, notifier, last, srcfifo, started, seen>>
  BY DEF Poll
<1> HIDE DEF t
<1>3. lastheight' \in 0 .. MaxHeight + 1
  BY <1>1, <1>2, ResumeType DEF IInv
<1>4. poller' \in [pc : {"idle", "fetch", "see"}, height : Height, hash : Hash] /\ poller'.pc # "see"
  BY <1>1, <1>2, ZeroType
<1> QED BY <1>1, <1>2, <1>3, <1>4 DEF IInv, TypeOK, FifoByDistance

LEMMA PollNothingKeeps == ASSUME NEW answer \in Answers PROVE IInv /\ PollNothing(answer) => IInv'
<1> SUFFICES ASSUME IInv, PollNothing(answer) PROVE IInv'
  OBVIOUS
<1>1. coin' \in Checkpoint
  BY ChainTipType DEF PollNothing, IInv
<1> QED BY <1>1 DEF IInv, TypeOK, FifoByDistance, PollNothing, dp

LEMMA FetchKeeps == IInv /\ Fetch => IInv'
<1> SUFFICES ASSUME IInv, Fetch PROVE IInv'
  OBVIOUS
<1>1. lastheight \in Height
  BY FollowAssumption DEF IInv, TypeOK, Fetch, Upto, Height
<1>2. PICK hash \in {BlockHash(lastheight), Zero} : poller' = [poller EXCEPT !.pc = "see", !.hash = hash]
  BY DEF Fetch
<1>3. hash \in Hash
  BY <1>1, <1>2, BlockHashType, ZeroType DEF IInv
<1>4. poller' \in [pc : {"idle", "fetch", "see"}, height : Height, hash : Hash]
  BY <1>2, <1>3 DEF IInv, TypeOK
<1>5. lastheight <= MaxHeight
  BY <1>1 DEF Height
<1> QED BY <1>4, <1>5 DEF IInv, TypeOK, FifoByDistance, Fetch, dp

LEMMA SeeKeeps == IInv /\ See => IInv'
<1> SUFFICES ASSUME IInv, See PROVE IInv'
  OBVIOUS
<1>1. lastheight \in Height /\ poller.hash \in Hash
  BY FollowAssumption DEF IInv, TypeOK, See, Height
<1>2. SrcUpdate(lastheight, poller.hash)
  BY DEF See
<1>3. poller' \in [pc : {"idle", "fetch", "see"}, height : Height, hash : Hash] /\ poller'.pc # "see"
  BY ZeroType DEF IInv, TypeOK, See
<1>4. lastheight' \in 0 .. MaxHeight + 1
  BY <1>1, FollowAssumption DEF See, Height
<1> QED BY <1>1, <1>2, <1>3, <1>4, SrcUpdateKeeps DEF IInv, TypeOK, See

LEMMA CaughtUpKeeps == IInv /\ CaughtUp => IInv'
BY NobodyType DEF IInv, TypeOK, FifoByDistance, CaughtUp, dp

LEMMA NotifyKeeps == IInv /\ Notify => IInv'
<1> SUFFICES ASSUME IInv, Notify PROVE IInv'
  OBVIOUS
<1>1. PICK answer \in Answers :
        LET t == ChainTip(answer)
            height == t.coin.height
            new == height # last.height /\ height > 0
        IN  /\ coin' = t.coin
            /\ lastheight' = IF new THEN Resume(height) ELSE lastheight
            /\ notifier' = IF new /\ height >= last.height
                           THEN [pc |-> "see", height |-> height, hash |-> t.hash] ELSE Nobody
  BY DEF Notify
<1> DEFINE t == ChainTip(answer)
           new == t.coin.height # last.height /\ t.coin.height > 0
<1>2. t.coin \in Checkpoint /\ t.hash \in Hash /\ t.coin.height \in Height
  BY ChainTipType DEF IInv, Checkpoint
<1>3. /\ coin' = t.coin
      /\ lastheight' = IF new THEN Resume(t.coin.height) ELSE lastheight
      /\ notifier' = IF new /\ t.coin.height >= last.height
                     THEN [pc |-> "see", height |-> t.coin.height, hash |-> t.hash] ELSE Nobody
  BY <1>1
<1> HIDE DEF t
<1>4. lastheight' \in 0 .. MaxHeight + 1 /\ (lastheight <= MaxHeight => lastheight' <= MaxHeight)
  BY <1>2, <1>3, ResumeType DEF IInv, TypeOK
<1>5. notifier' \in [pc : {"due", "idle", "see"}, height : Height, hash : Hash]
  BY <1>2, <1>3, NobodyType
<1>6. UNCHANGED <<chain, tip, forks, poller, last, srcfifo, started, seen>>
  BY DEF Notify
<1> QED BY <1>2, <1>3, <1>4, <1>5, <1>6 DEF IInv, TypeOK, FifoByDistance

LEMMA NotifySeeKeeps == IInv /\ NotifySee => IInv'
<1> SUFFICES ASSUME IInv, NotifySee PROVE IInv'
  OBVIOUS
<1>1. notifier.height \in Height /\ notifier.hash \in Hash
  BY DEF IInv, TypeOK
<1>2. SrcUpdate(notifier.height, notifier.hash)
  BY DEF NotifySee
<1>3. lastheight' \in 0 .. MaxHeight + 1 /\ lastheight' <= MaxHeight
  BY <1>1, FollowAssumption DEF NotifySee, Height
<1> QED BY <1>1, <1>2, <1>3, SrcUpdateKeeps, NobodyType DEF IInv, TypeOK, NotifySee

LEMMA StepIInv == IInv /\ [Next]_vars => IInv'
<1> SUFFICES ASSUME IInv, [Next]_vars PROVE IInv'
  OBVIOUS
<1>1. CASE UNCHANGED vars
  BY <1>1 DEF IInv, TypeOK, FifoByDistance, vars, dp
<1>2. CASE Next
  BY <1>2, ExtendKeeps, ReorgKeeps, GlanceKeeps, PollKeeps, PollNothingKeeps, FetchKeeps,
     SeeKeeps, CaughtUpKeeps, NotifyKeeps, NotifySeeKeeps DEF Next
<1> QED BY <1>1, <1>2

-----------------------------------------------------------------------------
(* IInv holds in every reachable state.                                    *)
THEOREM Invariance == Spec => []IInv
<1> QED BY InitIInv, StepIInv, PTL DEF Spec

(* Every variable has its type: no walk leaves the heights of the chain    *)
(* (iguana_dPoWupdate).                                                    *)
THEOREM TypeCorrect == Spec => []TypeOK
<1>1. IInv => TypeOK
  BY DEF IInv
<1> QED BY <1>1, Invariance, PTL

(* The fifo is ordered by distance, however poller and notifications       *)
(* interleave (dpow_fifoupdate).                                           *)
THEOREM FifoInOrder == Spec => []FifoByDistance
<1>1. IInv => FifoByDistance
  BY DEF IInv
<1> QED BY <1>1, Invariance, PTL

(* What a round is started for.                                            *)
LEMMA StartsDeep ==
  ASSUME IInv, NEW height \in Height, NEW hash \in Hash, SrcUpdate(height, hash), started' # started
  PROVE  /\ started' = Append(started, srcfifo[Confirms])
         /\ Len(started') = Len(started) + 1
         /\ started'[Len(started')] = srcfifo[Confirms]
         /\ srcfifo[Confirms].height = last.height - Confirms
         /\ srcfifo[Confirms].height % Freq = 0
<1> DEFINE c == srcfifo[Confirms]
<1>1. c \in Checkpoint
  BY FollowAssumption DEF IInv, TypeOK
<1>2. IsCheckpoint(c) /\ started' = Append(started, c)
  BY DEF SrcUpdate
<1>3. c # Empty /\ c.height % Freq = 0
  BY <1>2 DEF IsCheckpoint, Empty
<1>4. c.height = last.height - Confirms
  BY <1>3, FollowAssumption DEF IInv, FifoByDistance
<1> HIDE DEF c
<1>5. started \in Seq(Checkpoint)
  BY DEF IInv, TypeOK
<1>6. Len(started') = Len(started) + 1 /\ started'[Len(started')] = c
  BY <1>1, <1>2, <1>5
<1> QED BY <1>2, <1>3, <1>4, <1>6 DEF c

LEMMA OnlySeeing ==
  ASSUME [Next]_vars
  PROVE  See \/ NotifySee \/ UNCHANGED <<last, srcfifo, started, seen>>
<1>1. CASE UNCHANGED vars
  BY <1>1 DEF vars, dp
<1>2. CASE Next
  <2>1. CASE Extend \/ Reorg \/ Glance \/ Fetch \/ CaughtUp
    BY <2>1 DEF Extend, Reorg, Glance, Fetch, CaughtUp, dp
  <2>2. CASE \E answer \in Answers : Poll(answer) \/ PollNothing(answer)
    BY <2>2 DEF Poll, PollNothing, dp
  <2>3. CASE Notify
    BY <2>3 DEF Notify
  <2> QED BY <1>2, <2>1, <2>2, <2>3 DEF Next
<1> QED BY <1>1, <1>2

LEMMA SeeingHeights ==
  ASSUME IInv
  PROVE  /\ See => lastheight \in Height /\ poller.hash \in Hash
         /\ NotifySee => notifier.height \in Height /\ notifier.hash \in Hash
BY FollowAssumption DEF IInv, TypeOK, See, NotifySee, Height

(* No round is started for a block with fewer than Confirms blocks seen on *)
(* top of it (dpow_srcupdate).                                             *)
THEOREM StartedConfirmed == Spec => Confirmed
<1>1. ASSUME IInv, [Next]_vars, started' # started
      PROVE  started'[Len(started')].height + Confirms <= last.height
  <2>1. See \/ NotifySee
    BY <1>1, OnlySeeing
  <2>2. \E height \in Height, hash \in Hash : SrcUpdate(height, hash)
    <3>1. CASE See
      BY <1>1, <3>1, SeeingHeights DEF See
    <3>2. CASE NotifySee
      BY <1>1, <3>2, SeeingHeights DEF NotifySee
    <3> QED BY <2>1, <3>1, <3>2
  <2> DEFINE c == srcfifo[Confirms]
  <2>3. started'[Len(started')] = c /\ c.height = last.height - Confirms
    BY <1>1, <2>2, StartsDeep
  <2>4. last.height \in Nat
    BY <1>1, FollowAssumption DEF IInv, TypeOK, Checkpoint, Height
  <2> HIDE DEF c
  <2> QED BY <2>3, <2>4, FollowAssumption
<1>2. IInv /\ [Next]_vars =>
        [started' # started => started'[Len(started')].height + Confirms <= last.height]_vars
  BY <1>1
<1> QED BY <1>2, Invariance, PTL DEF Spec, Confirmed
=============================================================================
