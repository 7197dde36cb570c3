---------------------------- MODULE ChainFollow ----------------------------
(***************************************************************************)
(* How a notary follows a source chain and starts a round for its          *)
(* checkpoints.  The poller (dpow_loop calling iguana_dPoWupdate) walks    *)
(* the heights one by one; a block notification (iguana_BN_dPoWupdate) and *)
(* the API call that adds the coin go to the tip at once.  Both keep their *)
(* place in the same struct dpow_info, without a lock.                     *)
(*                                                                         *)
(* The chain grows, is reorganised, and may become shorter; a daemon's     *)
(* answer may be late or missing.  The hash of a block is its height and   *)
(* the number of the fork it came with.                                    *)
(***************************************************************************)
EXTENDS Integers, Sequences

CONSTANTS
  Confirms,      \* dp->srcconfirms
  Freq,          \* dp->freq
  FifoSize,      \* DPOW_FIFOSIZE
  Start,         \* the height of the chain when the coin is added
  MaxHeight,     \* bound: the height the chain may reach
  MaxForks,      \* bound: the reorganisations
  NotifyHeights, \* the heights of the tip at which its daemon notifies
  Faults         \* what may go wrong with a daemon's answer

ASSUME FollowAssumption ==
  /\ Confirms \in Nat
  /\ Freq \in Nat \ {0}
  /\ FifoSize \in Nat
  /\ Confirms < FifoSize
  /\ MaxHeight \in Nat
  /\ Start \in 2 .. MaxHeight
  /\ MaxForks \in Nat
  /\ NotifyHeights \subseteq 1 .. MaxHeight
  /\ Faults \subseteq {"cached", "nohash", "noblock"}

VARIABLES
  chain,       \* chain[h]: the fork the block at height h came with
  tip,         \* the height of the chain
  forks,       \* the reorganisations so far
  coin,        \* coin->lastbesthash and lastbestheight, the tip known
  last,        \* dp->last, the block seen last
  lastheight,  \* dp->lastheight, the height the poller looks at next
  srcfifo,     \* dp->srcfifo
  poller,      \* the poller: where it is, the height it goes to, a hash
  notifier,    \* the notification: where it is, and the tip it has read
  started,     \* the checkpoints for which a round was started, in order
  seen         \* history: the hash every height had when it was last seen

dp == <<last, lastheight, srcfifo, started, seen>>
vars == <<chain, tip, forks, coin, poller, notifier, dp>>

Height == 0 .. MaxHeight
Zero == <<0, 0>>
Hash == Height \X (0 .. MaxForks)
Checkpoint == [height : Height, hash : Hash]
Empty == [height |-> 0, hash |-> Zero]
Nobody == [pc |-> "idle", height |-> 0, hash |-> Zero]

Init ==
  /\ chain = [h \in 1 .. MaxHeight |-> 0]
  /\ tip = Start
  /\ forks = 0
  /\ coin = Empty
  /\ last = Empty
  /\ lastheight = 0
  /\ srcfifo = [i \in 0 .. FifoSize - 1 |-> Empty]
  /\ poller = Nobody
  /\ notifier = [Nobody EXCEPT !.pc = "due"]
  /\ started = <<>>
  /\ seen = [h \in 1 .. MaxHeight |-> Zero]

-----------------------------------------------------------------------------
(* The chain and what the daemon says of it.  A notification, whose steps  *)
(* are milliseconds apart, is over before the next block comes; the poller *)
(* may take long.                                                          *)

Extend ==
  /\ tip < MaxHeight
  /\ notifier.pc = "idle"
  /\ tip' = tip + 1
  /\ chain' = [chain EXCEPT ![tip + 1] = forks]
  /\ UNCHANGED <<forks, coin, poller, notifier, dp>>

(* The blocks above a common ancestor are replaced by others, more or      *)
(* fewer.                                                                  *)
Reorg ==
  /\ forks < MaxForks
  /\ notifier.pc = "idle"
  /\ forks' = forks + 1
  /\ \E ancestor \in 1 .. tip - 1 : \E t \in ancestor + 1 .. MaxHeight :
       /\ tip' = t
       /\ chain' = [h \in 1 .. MaxHeight |-> IF h \in ancestor + 1 .. t THEN forks + 1 ELSE chain[h]]
  /\ UNCHANGED <<coin, poller, notifier, dp>>

(* dpow_getblockhash: zero above the tip.                                  *)
BlockHash(h) == IF h \in 1 .. tip THEN <<h, chain[h]>> ELSE Zero

(* dpow_getchaintip: the tip known afterwards, and the hash it returns.    *)
(* The answer may come from the cache, or be missing; the block may be     *)
(* missing after its hash was stored, and then the height stays old.       *)
ChainTip(answer) ==
  LET best == BlockHash(tip)
  IN  IF answer = "cached" THEN [coin |-> coin, hash |-> coin.hash]
      ELSE IF answer = "nohash" THEN [coin |-> coin, hash |-> Zero]
      ELSE IF best = coin.hash THEN [coin |-> coin, hash |-> best]
      ELSE IF answer = "noblock" THEN [coin |-> [coin EXCEPT !.hash = best], hash |-> best]
      ELSE [coin |-> [height |-> tip, hash |-> best], hash |-> best]

Answers == Faults \cup {"ok"}

(* The thread of a round asks for the tip, too.                            *)
Glance ==
  /\ started # <<>>
  /\ \E answer \in Answers : coin' = ChainTip(answer).coin
  /\ UNCHANGED <<chain, tip, forks, poller, notifier, dp>>

-----------------------------------------------------------------------------
(* Seeing a block.                                                         *)

(* Every entry moves to the index that is its distance from the tip; one   *)
(* that has none in the fifo, and the last one, is dropped.                *)
ShiftFifo(block) ==  \* mutant
  [i \in 0 .. FifoSize - 1 |-> IF i = 0 THEN block ELSE srcfifo[i - 1]]

FifoUpdate(block) ==
  LET at(i) == {j \in 0 .. FifoSize - 2 : srcfifo[j].height = block.height - i}
  IN  [i \in 0 .. FifoSize - 1 |->
         IF i = 0 THEN block
         ELSE IF at(i) = {} THEN Empty ELSE srcfifo[CHOOSE j \in at(i) : TRUE]]

(* The rounds started when a block is seen: the checkpoint is taken out of *)
(* the fifo before the block goes in.                                      *)
IsCheckpoint(c) == c.hash # Zero /\ c.height % Freq = 0

SrcUpdate(height, hash) ==
  LET block == [height |-> height, hash |-> hash]
      checkpoint == srcfifo[Confirms]
  IN  /\ last' = block
      /\ srcfifo' = FifoUpdate(block)
      /\ started' = IF IsCheckpoint(checkpoint) THEN Append(started, checkpoint) ELSE started
      /\ seen' = [seen EXCEPT ![height] = hash]

(* Where the walk begins: below the tip, the first time.                   *)
Rewound(height) == IF lastheight = 0 \/ height < last.height THEN height - 1 ELSE lastheight  \* mutant
OnlyTip(height) == height  \* mutant

Resume(height) == IF lastheight = 0 THEN height - 1 ELSE lastheight

-----------------------------------------------------------------------------
(* The poller.                                                             *)

Poll(answer) ==
  /\ poller.pc = "idle"
  /\ LET t == ChainTip(answer)
     IN  /\ coin' = t.coin
         /\ t.coin.height # last.height
         /\ t.coin.height > 0
         /\ lastheight' = Resume(t.coin.height)
         /\ poller' = [pc |-> "fetch", height |-> t.coin.height, hash |-> Zero]
  /\ UNCHANGED <<chain, tip, forks, notifier, last, srcfifo, started, seen>>

(* Nothing new, as far as the poller can tell.                             *)
PollNothing(answer) ==
  /\ poller.pc = "idle"
  /\ LET t == ChainTip(answer)
     IN  /\ coin' = t.coin
         /\ t.coin.height = last.height \/ t.coin.height = 0
  /\ UNCHANGED <<chain, tip, forks, poller, notifier, dp>>

Before(h) == h < poller.height  \* mutant
Past(h) == h <= poller.height + 1  \* mutant

Upto(h) == h <= poller.height

(* It asks for the hash of the next height, and then sees that block.      *)
Fetch ==
  /\ poller.pc = "fetch"
  /\ Upto(lastheight)
  /\ \E hash \in {BlockHash(lastheight)} \cup (IF "nohash" \in Faults THEN {Zero} ELSE {}) :
       poller' = [poller EXCEPT !.pc = "see", !.hash = hash]
  /\ UNCHANGED <<chain, tip, forks, coin, notifier, dp>>

See ==
  /\ poller.pc = "see"
  /\ SrcUpdate(lastheight, poller.hash)
  /\ lastheight' = lastheight + 1
  /\ poller' = [poller EXCEPT !.pc = "fetch", !.hash = Zero]
  /\ UNCHANGED <<chain, tip, forks, coin, notifier>>

CaughtUp ==
  /\ poller.pc = "fetch"
  /\ ~Upto(lastheight)
  /\ poller' = Nobody
  /\ UNCHANGED <<chain, tip, forks, coin, notifier, dp>>

-----------------------------------------------------------------------------
(* A notification.                                                         *)

(* The call that adds the coin is due at the start; a daemon's come later. *)
(* The tip it reads is seen later, if it is new and not below the last.    *)
Notify ==
  /\ notifier.pc = "due" \/ (notifier.pc = "idle" /\ tip \in NotifyHeights)
  /\ \E answer \in Answers :
       LET t == ChainTip(answer)
           height == t.coin.height
           new == height # last.height /\ height > 0
       IN  /\ coin' = t.coin
           /\ lastheight' = IF new THEN Resume(height) ELSE lastheight
           /\ notifier' = IF new /\ height >= last.height
                          THEN [pc |-> "see", height |-> height, hash |-> t.hash] ELSE Nobody
  /\ UNCHANGED <<chain, tip, forks, poller, last, srcfifo, started, seen>>

NotifySee ==
  /\ notifier.pc = "see"
  /\ SrcUpdate(notifier.height, notifier.hash)
  /\ lastheight' = notifier.height
  /\ notifier' = Nobody
  /\ UNCHANGED <<chain, tip, forks, coin, poller>>

-----------------------------------------------------------------------------
Next ==
  \/ Extend
  \/ Reorg
  \/ Glance
  \/ \E answer \in Answers : Poll(answer) \/ PollNothing(answer)
  \/ Fetch
  \/ See
  \/ CaughtUp
  \/ Notify
  \/ NotifySee

Spec == Init /\ [][Next]_vars

(* The poller runs for ever, every 20 to 1000 milliseconds; the cached tip *)
(* is good for a second, so it asks the daemon again and again.            *)
Fairness == SF_vars(Poll("ok")) /\ WF_vars(Fetch) /\ WF_vars(See) /\ WF_vars(CaughtUp)

FairSpec == Spec /\ Fairness

-----------------------------------------------------------------------------
(* Properties.                                                             *)

TypeOK ==
  /\ chain \in [1 .. MaxHeight -> 0 .. MaxForks]
  /\ tip \in 1 .. MaxHeight
  /\ forks \in 0 .. MaxForks
  /\ coin \in Checkpoint
  /\ last \in Checkpoint
  /\ lastheight \in 0 .. MaxHeight + 1
  /\ srcfifo \in [0 .. FifoSize - 1 -> Checkpoint]
  /\ poller \in [pc : {"idle", "fetch", "see"}, height : Height, hash : Hash]
  /\ notifier \in [pc : {"due", "idle", "see"}, height : Height, hash : Hash]
  /\ started \in Seq(Checkpoint)
  /\ seen \in [1 .. MaxHeight -> Hash]

(* The index of an entry of the fifo is its distance from the block seen   *)
(* last, in whatever order poller and notifications see blocks:            *)
(* dpow_fifoupdate rebuilds the fifo from the heights.                     *)
FifoByDistance ==
  \A i \in 0 .. FifoSize - 1 :
    srcfifo[i] # Empty => srcfifo[i].height = last.height - i

(* A round is started for a block only when Confirms blocks on top of it   *)
(* have been seen, also when poller and notifications see heights twice    *)
(* or skip some (dpow_srcupdate).                                          *)
Confirmed ==
  [][started' # started =>
       started'[Len(started')].height + Confirms <= last.height]_vars

(* No height is notarized twice or before a lower one, whatever            *)
(* reorganisations the poller meets (iguana_dPoWupdate, which never        *)
(* goes back).                                                             *)
StartedInOrder ==
  \A i, j \in 1 .. Len(started) : i < j => started[i].height < started[j].height

(* No checkpoint is left out: once Confirms blocks on top of it are seen,  *)
(* a round was started for it with the hash it had when it was seen        *)
(* last, unless the daemon then knew none.                                 *)
NoneSkipped ==
  \A h \in 1 .. MaxHeight :
    seen[h] # Zero /\ h % Freq = 0 /\ h + Confirms < last.height =>
      \E i \in 1 .. Len(started) : started[i] = [height |-> h, hash |-> seen[h]]

(* The poller walks as CheckpointStream says.                              *)
Stream == INSTANCE CheckpointStream WITH
  visited <- last.height,
  started <- [i \in 1 .. Len(started) |-> started[i].height]

Streams == Stream!Spec

(* The follower sees the tip of the chain again and again: it is not       *)
(* stuck below it, whatever reorganisations come.                          *)
Follows == []<>(last.height >= tip)
=============================================================================
