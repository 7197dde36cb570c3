------------------------- MODULE NotaryRoundProofs -------------------------
(***************************************************************************)
(* Proofs about NotaryRound, for every number of notaries, every set of    *)
(* links and of funded notaries, and every behaviour of the daemons.       *)
(***************************************************************************)
EXTENDS NotaryRound, FiniteSetTheorems, FunctionTheorems, TLAPS

-----------------------------------------------------------------------------
(* Elections.  They return blocks, and touch nothing of the round but its  *)
(* candidates: what SameRound compares is left alone.                      *)

LEMMA NotaryFinite ==
  /\ IsFiniteSet(Notary)
  /\ \A S \in SUBSET Notary : IsFiniteSet(S) /\ Cardinality(S) \in Nat
<1>1. IsFiniteSet(Notary)
  BY FS_Interval, RoundAssumption DEF Notary
<1>2. ASSUME NEW S \in SUBSET Notary PROVE IsFiniteSet(S) /\ Cardinality(S) \in Nat
  BY <1>1, FS_Subset, FS_CardinalityType
<1> QED BY <1>1, <1>2

SameRound(b, c) ==
  /\ c.myind = b.myind
  /\ c.hashmsg = b.hashmsg
  /\ c.sigs = b.sigs
  /\ c.pendingbestmask = b.pendingbestmask
  /\ c.pendingbestk = b.pendingbestk
  /\ c.desttxid = b.desttxid

(* A set of signers is complete or empty.                                  *)
Sized(S) == S = {} \/ Cardinality(S) = MinSigs

LEMMA ElectType ==
  ASSUME NEW b \in Block, NEW E \in SUBSET Notary
  PROVE  /\ Elect(b, E) \in Block
         /\ SameRound(b, Elect(b, E))
         /\ Sized(Elect(b, E).bestmask)
<1>1. CASE FirstSigners(E) = {}
  BY <1>1 DEF Elect, Block, SameRound, Sized
<1>2. CASE FirstSigners(E) # {}
  <2> DEFINE f == CHOOSE f \in FirstSigners(E) : TRUE
  <2>1. f \in FirstSigners(E)
    BY <1>2
  <2>2. f.mask \in SUBSET Notary /\ f.k \in Notary /\ Sized(f.mask)
    BY <2>1 DEF FirstSigners, Sized
  <2>3. Elect(b, E) = [b EXCEPT !.bestmask = f.mask, !.bestk = f.k]
    BY <1>2 DEF Elect
  <2> HIDE DEF f
  <2> QED BY <2>2, <2>3 DEF Block, SameRound
<1> QED BY <1>1, <1>2

LEMMA NotaryBestKType ==
  ASSUME NEW b \in Block
  PROVE  /\ NotaryBestK(b) \in Block
         /\ SameRound(b, NotaryBestK(b))
         /\ Sized(NotaryBestK(b).bestmask)
<1> DEFINE E == {k \in Known(b) : /\ b.notaries[k].paxwdcrc = b.paxwdcrc
                                  /\ Cardinality({z \in Notary : k \in b.notaries[z].recvmask}) >= N \div 2}
<1>1. E \in SUBSET Notary
  BY DEF Known
<1>2. NotaryBestK(b) = Elect(b, E)
  BY DEF NotaryBestK
<1> HIDE DEF E
<1> QED BY <1>1, <1>2, ElectType

LEMMA MaskMinType ==
  ASSUME NEW b \in Block
  PROVE  /\ MaskMin(b) \in Block
         /\ SameRound(b, MaskMin(b))
         /\ Sized(MaskMin(b).bestmask)
<1> DEFINE E == {k \in Known(b) : b.notaries[k].paxwdcrc = b.paxwdcrc}
           d == [b EXCEPT !.bestk = None, !.recvmask = @ \cup E]
           e == Elect(d, E)
           held(c, k) == IF k = e.bestk THEN {i \in Notary : HasSig(b, c, i, k)} ELSE {}
           x == [c \in Coin |-> [k \in Notary |-> b.sigsmasks[c][k] \cup held(c, k)]]
<1>1. E \in SUBSET Notary
  BY DEF Known
<1>2. d \in Block /\ SameRound(b, d)
  BY <1>1 DEF Block, SameRound
<1>3. e \in Block /\ SameRound(d, e) /\ Sized(e.bestmask)
  BY <1>1, <1>2, ElectType
<1>4. MaskMin(b) = [e EXCEPT !.sigsmasks = x]
  BY DEF MaskMin
<1> HIDE DEF d, e
<1>5. x \in [Coin -> [Notary -> SUBSET Notary]]
  BY DEF Block
<1> HIDE DEF x
<1>6. SameRound(b, e)
  BY <1>2, <1>3 DEF SameRound
<1> QED BY <1>3, <1>4, <1>5, <1>6 DEF Block, SameRound

LEMMA EntryType ==
  ASSUME NEW b \in Block, NEW i \in Notary, NEW e \in Entry
  PROVE  /\ [b EXCEPT !.notaries[i] = e] \in Block
         /\ SameRound(b, [b EXCEPT !.notaries[i] = e])
         /\ [b EXCEPT !.notaries[i] = e].bestmask = b.bestmask
<1> DEFINE n == [b.notaries EXCEPT ![i] = e]
<1>1. n \in [Notary -> Entry]
  BY DEF Block
<1>2. [b EXCEPT !.notaries[i] = e] = [b EXCEPT !.notaries = n]
  BY DEF Block
<1> HIDE DEF n
<1> QED BY <1>1, <1>2 DEF Block, SameRound

LEMMA AdoptType ==
  ASSUME NEW b \in Block, NEW p \in Better(b)
  PROVE  /\ Adopt(b, p) \in Block
         /\ SameRound(b, Adopt(b, p))
         /\ Sized(Adopt(b, p).bestmask)
<1>1. p.mask \in SUBSET Notary /\ p.k \in Notary \cup {None} /\ Sized(p.mask)
  BY DEF Better, Proposals, Proposal, Block, Entry, Sized
<1>2. Cardinality(Proposers(b, p)) \in Nat /\ Cardinality(Backers(b, p)) \in Nat
  BY <1>1, NotaryFinite DEF Proposers, Backers
<1> DEFINE x == Cardinality(Proposers(b, p))
           y == Cardinality(Backers(b, p))
           me == [b.notaries[b.myind] EXCEPT !.bestmask = p.mask, !.bestk = p.k]
<1>3. me \in Entry /\ b.myind \in Notary
  <2>1. b.notaries \in [Notary -> Entry] /\ b.myind \in Notary
    BY DEF Block
  <2>2. ASSUME NEW e \in Entry
        PROVE  [e EXCEPT !.bestmask = p.mask, !.bestk = p.k] \in Entry
    BY <1>1 DEF Entry
  <2> QED BY <2>1, <2>2
<1> DEFINE c == [b EXCEPT !.matches = x, !.bestmatches = y, !.bestmask = p.mask, !.bestk = p.k]
<1>4. Adopt(b, p) = [c EXCEPT !.notaries[b.myind] = me]
  BY DEF Adopt
<1> HIDE DEF me
<1>5. c \in Block /\ SameRound(b, c) /\ c.bestmask = p.mask
  BY <1>1, <1>2 DEF Block, SameRound
<1> HIDE DEF c
<1> QED BY <1>1, <1>3, <1>4, <1>5, EntryType DEF SameRound

LEMMA BestConsensusType ==
  ASSUME NEW b \in Block, Sized(b.bestmask)
  PROVE  /\ BestConsensus(b) \in Block
         /\ SameRound(b, BestConsensus(b))
         /\ Sized(BestConsensus(b).bestmask)
<1> DEFINE a == IF Better(b) = {} THEN b ELSE Adopt(b, CHOOSE p \in Better(b) : TRUE)
           h == [a EXCEPT !.recvmask = @ \cup Known(b)]
<1>1. a \in Block /\ SameRound(b, a) /\ Sized(a.bestmask)
  <2>1. CASE Better(b) = {}
    BY <2>1 DEF SameRound
  <2>2. CASE Better(b) # {}
    BY <2>2, AdoptType
  <2> QED BY <2>1, <2>2
<1>2. BestConsensus(b) = IF h.bestmask = {} THEN NotaryBestK(h) ELSE h
  BY DEF BestConsensus
<1> HIDE DEF a
<1>3. h \in Block /\ SameRound(b, h) /\ Sized(h.bestmask)
  BY <1>1 DEF Block, SameRound, Known
<1> HIDE DEF h
<1>4. CASE h.bestmask = {}
  BY <1>2, <1>3, <1>4, NotaryBestKType DEF SameRound
<1>5. CASE h.bestmask # {}
  BY <1>2, <1>3, <1>5
<1> QED BY <1>4, <1>5

-----------------------------------------------------------------------------
(* The work of a handler, from the block b0 it starts with and the         *)
(* signatures S it holds or is told of.                                    *)

Work == [b : Block, out : SUBSET Snapshot, txs : SUBSET Submission]

(* What a block may never lose: commitments are final.                     *)
Grows(b, c) ==
  /\ c.myind = b.myind
  /\ c.hashmsg = b.hashmsg
  /\ b.pendingbestk # None => /\ c.pendingbestk = b.pendingbestk
                              /\ c.pendingbestmask = b.pendingbestmask
  /\ b.desttxid # {} => c.desttxid = b.desttxid

(* The elected and the pending set are whole sets of signers, and a txid   *)
(* is that of the pending set.                                             *)
Good(b) ==
  /\ Sized(b.bestmask)
  /\ Sized(b.pendingbestmask)
  /\ b.desttxid # {} => b.desttxid = b.pendingbestmask /\ b.pendingbestk # None

(* A signature of b's own notary.                                          *)
Mine(b, s) == s.by = b.myind /\ CommittedTo(b, s)

(* The notary i has signed the transaction t.                              *)
Stands(S, b, t, i) ==
  \/ \E s \in S : s.coin = t.coin /\ s.by = i /\ s.mask = t.mask
  \/ /\ i = b.myind
     /\ b.pendingbestk # None
     /\ b.pendingbestmask = t.mask
     /\ t.coin = "src" => b.desttxid = t.mask

Sound(b0, S, w) ==
  /\ w \in Work
  /\ Grows(b0, w.b)
  /\ Good(w.b)
  /\ \A s \in w.b.sigs : s \in S \/ Mine(w.b, s)
  /\ \A o \in w.out : \A s \in o.sigs : s \in S \/ Mine(w.b, s)
  /\ \A t \in w.txs : t.accepted => t.mask # {} /\ \A i \in t.mask : Stands(S, w.b, t, i)
  /\ w.b.desttxid # {} =>
       \/ w.b.desttxid = b0.desttxid
       \/ \E t \in w.txs : t.coin = "dest" /\ t.accepted /\ t.mask = w.b.desttxid

LEMMA OutgoingType ==
  ASSUME NEW b \in Block
  PROVE  /\ Outgoing(b) \in Snapshot
         /\ Outgoing(b).sigs \subseteq b.sigs
<1> DEFINE me == b.notaries[b.myind]
           best == IF b.pendingbestmask # {} THEN [k |-> b.pendingbestk, mask |-> b.pendingbestmask]
                   ELSE IF me.bestmask # {} THEN Proposal(b, b.myind)
                   ELSE [k |-> b.bestk, mask |-> b.bestmask]
           r == IF b.recvmask = {} THEN me.recvmask ELSE b.recvmask
           g == {s \in b.sigs : s.by = b.myind /\ s.k = IF b.pendingbestk # None THEN b.pendingbestk ELSE best.k}
<1>1. me \in Entry /\ b.myind \in Notary
  BY DEF Block
<1>2. best.k \in Notary \cup {None} /\ best.mask \in SUBSET Notary
  BY <1>1 DEF Block, Entry, Proposal
<1>3. r \in SUBSET Notary /\ g \in SUBSET Signature /\ g \subseteq b.sigs
  BY <1>1 DEF Block, Entry
<1>4. Outgoing(b) = [from |-> b.myind, utxo |-> me.utxo, paxwdcrc |-> b.paxwdcrc, recvmask |-> r,
                     bestmask |-> best.mask, bestk |-> best.k, sigs |-> g]
  BY DEF Outgoing
<1>5. me.utxo \in BOOLEAN /\ b.paxwdcrc \in Nat
  BY <1>1 DEF Entry, Block
<1> HIDE DEF me, best, r, g
<1> QED BY <1>1, <1>2, <1>3, <1>4, <1>5 DEF Snapshot

(* A work stays sound when an election changes its block.                  *)
LEMMA SoundFrame ==
  ASSUME NEW b0, NEW S, NEW w, Sound(b0, S, w),
         NEW c \in Block, SameRound(w.b, c), Sized(c.bestmask)
  PROVE  Sound(b0, S, [w EXCEPT !.b = c])
<1> DEFINE v == [w EXCEPT !.b = c]
<1>1. v \in Work /\ v.b = c /\ v.out = w.out /\ v.txs = w.txs
  BY DEF Sound, Work
<1> HIDE DEF v
<1>2. Grows(b0, c) /\ Good(c)
  BY DEF Sound, SameRound, Grows, Good
<1>3. \A s : Mine(w.b, s) => Mine(c, s)
  BY DEF Mine, CommittedTo, SameRound
<1>4. \A t, i : Stands(S, w.b, t, i) => Stands(S, c, t, i)
  BY DEF Stands, SameRound
<1>5. Sound(b0, S, v)
  BY <1>1, <1>2, <1>3, <1>4 DEF Sound, SameRound
<1> QED BY <1>5 DEF v

LEMMA SendSound ==
  ASSUME NEW b0, NEW S, NEW w, Sound(b0, S, w), NEW data \in Nat
  PROVE  /\ Sound(b0, S, Send(w, data))
         /\ SameRound(w.b, Send(w, data).b)
<1> DEFINE me == [w.b.notaries[w.b.myind] EXCEPT !.paxwdcrc = data]
           d == [w.b EXCEPT !.paxwdcrc = data, !.notaries[w.b.myind] = me]
           c == BestConsensus(d)
           v == [w EXCEPT !.b = c]
<1>1. w.b \in Block /\ Sized(w.b.bestmask) /\ w \in Work
  BY DEF Sound, Good, Work
<1>2. me \in Entry
  <2>1. w.b.notaries \in [Notary -> Entry] /\ w.b.myind \in Notary
    BY <1>1 DEF Block
  <2>2. ASSUME NEW e \in Entry PROVE [e EXCEPT !.paxwdcrc = data] \in Entry
    BY DEF Entry
  <2> QED BY <2>1, <2>2
<1>3. Send(w, data) = [w EXCEPT !.b = c, !.out = @ \cup {Outgoing(c)}]
  BY DEF Send
<1> HIDE DEF me
<1>4. d \in Block /\ SameRound(w.b, d) /\ Sized(d.bestmask)
  BY <1>1, <1>2 DEF Block, SameRound
<1> HIDE DEF d
<1>5. c \in Block /\ SameRound(d, c) /\ Sized(c.bestmask)
  BY <1>4, BestConsensusType
<1> HIDE DEF c
<1>6. SameRound(w.b, c)
  BY <1>4, <1>5 DEF SameRound
<1>7. Sound(b0, S, v)
  BY <1>5, <1>6, SoundFrame
<1>8. Outgoing(c) \in Snapshot /\ Outgoing(c).sigs \subseteq c.sigs
  BY <1>5, OutgoingType
<1>9. v.b = c /\ v.out = w.out /\ v.txs = w.txs
  BY <1>1 DEF Work
<1> DEFINE u == [w EXCEPT !.b = c, !.out = @ \cup {Outgoing(c)}]
<1>10. u.b = c /\ u.out = w.out \cup {Outgoing(c)} /\ u.txs = w.txs /\ u \in Work
  BY <1>1, <1>5, <1>8 DEF Work
<1> HIDE DEF u, v
<1>11. Sound(b0, S, u)
  BY <1>7, <1>8, <1>9, <1>10 DEF Sound
<1> QED BY <1>3, <1>6, <1>10, <1>11 DEF u

-----------------------------------------------------------------------------
(* Signing and publishing.                                                 *)

LEMMA MerkleType ==
  ASSUME NEW coin \in Coin, NEW data \in Nat
  PROVE  Merkle(coin, data) \in Nat
BY DEF Merkle

LEMMA SignType ==
  ASSUME NEW b \in Block, NEW g \in Signature
  PROVE  /\ Sign(b, g) \in Block
         /\ Sign(b, g).sigs \subseteq b.sigs \cup {g}
         /\ Sign(b, g).myind = b.myind
         /\ Sign(b, g).hashmsg = b.hashmsg
         /\ Sign(b, g).bestmask = b.bestmask
         /\ Sign(b, g).pendingbestk = b.pendingbestk
         /\ Sign(b, g).pendingbestmask = b.pendingbestmask
         /\ Sign(b, g).desttxid = b.desttxid
<1> DEFINE mask == b.sigsmasks[g.coin][g.k] \cup {g.by}
           x == {s \in b.sigs : s.coin # g.coin \/ s.by # g.by \/ s.k # g.k} \cup {g}
<1>1. g.coin \in Coin /\ g.k \in Notary /\ g.by \in Notary
  BY DEF Signature
<1>2. mask \in SUBSET Notary
  BY <1>1 DEF Block
<1>3. x \in SUBSET Signature /\ x \subseteq b.sigs \cup {g}
  BY DEF Block
<1> DEFINE c == [b EXCEPT !.sigs = x]
           row == [c.sigsmasks[g.coin] EXCEPT ![g.k] = mask]
           sm == [c.sigsmasks EXCEPT ![g.coin] = row]
<1>4. Sign(b, g) = [c EXCEPT !.sigsmasks = sm]
  BY DEF Sign
<1> HIDE DEF mask
<1>5. /\ c \in Block
      /\ c.sigs = x
      /\ c.myind = b.myind
      /\ c.hashmsg = b.hashmsg
      /\ c.bestmask = b.bestmask
      /\ c.pendingbestk = b.pendingbestk
      /\ c.pendingbestmask = b.pendingbestmask
      /\ c.desttxid = b.desttxid
  BY <1>3 DEF Block
<1> HIDE DEF c, x
<1>6. c.sigsmasks \in [Coin -> [Notary -> SUBSET Notary]]
  BY <1>5 DEF Block
<1>7. row \in [Notary -> SUBSET Notary]
  BY <1>1, <1>2, <1>6
<1> HIDE DEF row
<1>8. sm \in [Coin -> [Notary -> SUBSET Notary]]
  BY <1>1, <1>6, <1>7
<1> HIDE DEF sm
<1> QED BY <1>3, <1>4, <1>5, <1>8 DEF Block

(* A notary signs only what it is committed to.                            *)
LEMMA SignedTxGenSound ==
  ASSUME NEW b0, NEW S, NEW w, Sound(b0, S, w), NEW coin \in Coin, NEW data \in Nat,
         NEW signed \in BOOLEAN, w.b.pendingbestk # None
  PROVE  /\ Sound(b0, S, SignedTxGen(w, coin, data, signed))
         /\ Grows(w.b, SignedTxGen(w, coin, data, signed).b)
<1> DEFINE b == w.b
           sig == [coin |-> coin, by |-> b.myind, k |-> b.pendingbestk, mask |-> b.pendingbestmask,
                   hashmsg |-> b.hashmsg, pax |-> Merkle(coin, data)]
           c == Sign(b, sig)
           v == [w EXCEPT !.b = c]
<1>1. b \in Block /\ w \in Work /\ b.pendingbestk \in Notary
  BY DEF Sound, Work, Block
<1>2. CASE ~(signed /\ Buildable(b, coin) /\ b.myind \in b.pendingbestmask)
  BY <1>2 DEF SignedTxGen, Grows
<1>3. CASE signed /\ Buildable(b, coin) /\ b.myind \in b.pendingbestmask
  <2>1. SignedTxGen(w, coin, data, signed) = Send(v, data)
    BY <1>3 DEF SignedTxGen
  <2>2. sig \in Signature
    BY <1>1, MerkleType DEF Block, Signature
  <2>3. Mine(b, sig)
    BY <1>3 DEF Mine, CommittedTo, Buildable, Sound, Good
  <2> HIDE DEF sig
  <2>4. /\ c \in Block
        /\ c.sigs \subseteq b.sigs \cup {sig}
        /\ c.myind = b.myind
        /\ c.hashmsg = b.hashmsg
        /\ c.bestmask = b.bestmask
        /\ c.pendingbestk = b.pendingbestk
        /\ c.pendingbestmask = b.pendingbestmask
        /\ c.desttxid = b.desttxid
    BY <1>1, <2>2, SignType
  <2> HIDE DEF c
  <2>5. \A s : Mine(b, s) => Mine(c, s)
    BY <2>4 DEF Mine, CommittedTo
  <2>6. \A t, i : Stands(S, b, t, i) => Stands(S, c, t, i)
    BY <2>4 DEF Stands
  <2>7. v \in Work /\ v.b = c /\ v.out = w.out /\ v.txs = w.txs
    BY <1>1, <2>4 DEF Work
  <2> HIDE DEF v
  <2>8. Grows(b0, c) /\ Good(c) /\ Grows(b, c)
    BY <2>4 DEF Sound, Grows, Good
  <2>9. Sound(b0, S, v)
    BY <2>3, <2>4, <2>5, <2>6, <2>7, <2>8 DEF Sound
  <2>10. Sound(b0, S, Send(v, data)) /\ SameRound(c, Send(v, data).b)
    BY <2>7, <2>9, SendSound
  <2> QED BY <2>1, <2>8, <2>10 DEF SameRound, Grows
<1> QED BY <1>2, <1>3

(* The work may change the state of its block, and its srctxid.            *)
LEMMA SoundState ==
  ASSUME NEW b0, NEW S, NEW w, Sound(b0, S, w),
         NEW x \in {Idle, Active, DestDone, Ended}
  PROVE  /\ Sound(b0, S, [w EXCEPT !.b.state = x])
         /\ SameRound(w.b, [w EXCEPT !.b.state = x].b)
<1> DEFINE c == [w.b EXCEPT !.state = x]
<1>1. c \in Block /\ SameRound(w.b, c) /\ Sized(c.bestmask)
  BY DEF Sound, Work, Good, Block, SameRound
<1>2. [w EXCEPT !.b.state = x] = [w EXCEPT !.b = c]
  OBVIOUS
<1>3. [w EXCEPT !.b = c].b = c
  BY DEF Sound, Work
<1> HIDE DEF c
<1> QED BY <1>1, <1>2, <1>3, SoundFrame

LEMMA SoundSrcTxid ==
  ASSUME NEW b0, NEW S, NEW w, Sound(b0, S, w), NEW x \in SUBSET Notary
  PROVE  /\ Sound(b0, S, [w EXCEPT !.b.srctxid = x])
         /\ SameRound(w.b, [w EXCEPT !.b.srctxid = x].b)
<1> DEFINE c == [w.b EXCEPT !.srctxid = x]
<1>1. c \in Block /\ SameRound(w.b, c) /\ Sized(c.bestmask)
  BY DEF Sound, Work, Good, Block, SameRound
<1>2. [w EXCEPT !.b.srctxid = x] = [w EXCEPT !.b = c]
  OBVIOUS
<1>3. [w EXCEPT !.b = c].b = c
  BY DEF Sound, Work
<1> HIDE DEF c
<1> QED BY <1>1, <1>2, <1>3, SoundFrame

(* A notary takes the txid of a transaction of its pending set that the    *)
(* destination chain has accepted.                                         *)
LEMMA SoundDestTxid ==
  ASSUME NEW b0, NEW S, NEW w, Sound(b0, S, w), w.b.pendingbestk # None,
         \E t \in w.txs : t.coin = "dest" /\ t.accepted /\ t.mask = w.b.pendingbestmask
  PROVE  /\ Sound(b0, S, [w EXCEPT !.b.desttxid = w.b.pendingbestmask])
         /\ Grows(w.b, [w EXCEPT !.b.desttxid = w.b.pendingbestmask].b)
         /\ [w EXCEPT !.b.desttxid = w.b.pendingbestmask].b.pendingbestk = w.b.pendingbestk
<1> DEFINE b == w.b
           c == [b EXCEPT !.desttxid = b.pendingbestmask]
           v == [w EXCEPT !.b = c]
<1>1. b \in Block /\ w \in Work
  BY DEF Sound, Work
<1>2. /\ c \in Block
      /\ c.myind = b.myind
      /\ c.hashmsg = b.hashmsg
      /\ c.sigs = b.sigs
      /\ c.bestmask = b.bestmask
      /\ c.pendingbestk = b.pendingbestk
      /\ c.pendingbestmask = b.pendingbestmask
      /\ c.desttxid = b.pendingbestmask
  BY <1>1 DEF Block
<1>3. [w EXCEPT !.b.desttxid = w.b.pendingbestmask] = v
  OBVIOUS
<1> HIDE DEF c
<1>4. v \in Work /\ v.b = c /\ v.out = w.out /\ v.txs = w.txs
  BY <1>1, <1>2 DEF Work
<1> HIDE DEF v
<1>5. Good(c) /\ Grows(b, c) /\ Grows(b0, c)
  BY <1>2 DEF Sound, Good, Grows
<1>6. \A s : Mine(b, s) => Mine(c, s)
  BY <1>2 DEF Mine, CommittedTo
<1>7. \A t, i : Stands(S, b, t, i) => Stands(S, c, t, i)
  BY <1>2 DEF Stands
<1>8. Sound(b0, S, v)
  BY <1>2, <1>4, <1>5, <1>6, <1>7 DEF Sound
<1> QED BY <1>2, <1>3, <1>4, <1>5, <1>8

LEMMA PublishedSound ==
  ASSUME NEW b0, NEW S, NEW w, Sound(b0, S, w), w.b.pendingbestk # None,
         NEW coin \in Coin, NEW data \in Nat, NEW signed \in BOOLEAN,
         \E t \in w.txs : t.coin = coin /\ t.accepted /\ t.mask = w.b.pendingbestmask
  PROVE  /\ Sound(b0, S, Published(w, coin, data, signed))
         /\ Grows(w.b, Published(w, coin, data, signed).b)
<1> DEFINE done == IF coin = "dest" THEN DestDone ELSE Ended
           d == [w EXCEPT !.b.desttxid = w.b.pendingbestmask]
           x == SignedTxGen(d, "src", data, signed)
           y == [w EXCEPT !.b.srctxid = w.b.pendingbestmask]
           w1 == IF coin = "dest" THEN x ELSE y
           w2 == [w1 EXCEPT !.b.state = done]
<1>1. w.b.pendingbestmask \in SUBSET Notary
  BY DEF Sound, Work, Block
<1>2. Sound(b0, S, w1) /\ Grows(w.b, w1.b)
  <2>1. CASE coin = "dest"
    <3>1. Sound(b0, S, d) /\ Grows(w.b, d.b) /\ d.b.pendingbestk # None
      BY <2>1, SoundDestTxid
    <3> HIDE DEF d
    <3>2. Sound(b0, S, x) /\ Grows(d.b, x.b)
      BY <3>1, SignedTxGenSound DEF Coin
    <3> HIDE DEF x
    <3> QED BY <2>1, <3>1, <3>2 DEF Grows
  <2>2. CASE coin = "src"
    <3>1. Sound(b0, S, y) /\ SameRound(w.b, y.b)
      BY <1>1, SoundSrcTxid
    <3> HIDE DEF y
    <3> QED BY <2>2, <3>1 DEF SameRound, Grows
  <2> QED BY <2>1, <2>2 DEF Coin
<1>3. Published(w, coin, data, signed) = IF w1.b.state < done THEN Send(w2, data) ELSE w1
  BY DEF Published
<1>4. done \in {Idle, Active, DestDone, Ended}
  BY DEF DestDone, Ended
<1> HIDE DEF w1, done
<1>5. Sound(b0, S, w2) /\ SameRound(w1.b, w2.b)
  BY <1>2, <1>4, SoundState
<1> HIDE DEF w2
<1>6. Sound(b0, S, Send(w2, data)) /\ SameRound(w2.b, Send(w2, data).b)
  BY <1>5, SendSound
<1> QED BY <1>2, <1>3, <1>5, <1>6 DEF SameRound, Grows

(* A transaction the daemon accepts is signed by every notary in it.       *)
LEMMA SubmitSound ==
  ASSUME NEW b0, NEW S, NEW w, Sound(b0, S, w), w.b.pendingbestk # None,
         NEW coin \in Coin, NEW data \in Nat, NEW acc \in BOOLEAN,
         acc => Verifies(w.b, coin, data),
         Cardinality({i \in w.b.pendingbestmask : HasSig(w.b, coin, i, w.b.pendingbestk)}) = MinSigs,
         NEW t, t = [coin |-> coin, mask |-> w.b.pendingbestmask, hashmsg |-> w.b.hashmsg,
                     pax |-> Merkle(coin, data), valid |-> Verifies(w.b, coin, data), accepted |-> acc]
  PROVE  Sound(b0, S, [w EXCEPT !.txs = @ \cup {t}])
<1> DEFINE b == w.b
           P == b.pendingbestmask
           H == {i \in P : HasSig(b, coin, i, b.pendingbestk)}
           v == [w EXCEPT !.txs = @ \cup {t}]
<1>1. P \in SUBSET Notary /\ b \in Block /\ w \in Work /\ Sized(P)
  BY DEF Sound, Work, Block, Good
<1>2. t \in Submission
  <2>1. b.hashmsg \in Hashes /\ Merkle(coin, data) \in Nat /\ Verifies(b, coin, data) \in BOOLEAN
    BY <1>1, MerkleType DEF Block, Verifies
  <2> QED BY <1>1, <2>1 DEF Submission
<1>3. P # {} /\ H = P
  <2>1. P # {}
    BY FS_EmptySet, RoundAssumption
  <2> QED BY <1>1, <2>1, NotaryFinite, FS_Subset DEF Sized
<1>4. ASSUME t.accepted, NEW i \in t.mask PROVE Stands(S, b, t, i)
  <2>1. HasSig(b, coin, i, b.pendingbestk) /\ i \in P
    BY <1>3, <1>4
  <2>2. PICK s \in b.sigs : s.coin = coin /\ s.by = i /\ s.k = b.pendingbestk
    BY <2>1 DEF HasSig
  <2>3. s.mask = P
    BY <1>4, <2>1, <2>2 DEF Verifies
  <2>4. s \in S \/ Mine(b, s)
    BY <2>2 DEF Sound
  <2>5. CASE s \in S
    BY <2>2, <2>3, <2>5 DEF Stands
  <2>6. CASE Mine(b, s)
    BY <2>2, <2>3, <2>6 DEF Stands, Mine, CommittedTo
  <2> QED BY <2>4, <2>5, <2>6
<1> HIDE DEF H
<1>5. v \in Work /\ v.b = b /\ v.out = w.out /\ v.txs = w.txs \cup {t}
  BY <1>1, <1>2 DEF Work
<1> HIDE DEF v
<1>6. Sound(b0, S, v)
  BY <1>3, <1>4, <1>5 DEF Sound
<1> QED BY <1>6 DEF v

LEMMA SigsCheckSound ==
  ASSUME NEW b0, NEW S, NEW w, Sound(b0, S, w), w.b.pendingbestk # None,
         NEW coin \in Coin, NEW data \in Nat, NEW signed \in BOOLEAN, NEW answer
  PROVE  /\ Sound(b0, S, SigsCheck(w, coin, data, signed, answer))
         /\ Grows(w.b, SigsCheck(w, coin, data, signed, answer).b)
<1> DEFINE b == w.b
           held == {i \in b.pendingbestmask : HasSig(b, coin, i, b.pendingbestk)}
           valid == Verifies(b, coin, data)
           reply == IF valid THEN answer ELSE "reject"
           acc == reply \in {"ok", "mismatch", "lost"}
           tx == [coin |-> coin, mask |-> b.pendingbestmask, hashmsg |-> b.hashmsg,
                  pax |-> Merkle(coin, data), valid |-> valid, accepted |-> acc]
           w1 == [w EXCEPT !.b.state = Active]
           w2 == [w1 EXCEPT !.txs = @ \cup {tx}]
           w3 == [w2 EXCEPT !.b.state = Ended]
<1>1. SigsCheck(w, coin, data, signed, answer) =
        IF b.state = Ended THEN w
        ELSE IF ~Buildable(b, coin) \/ Cardinality(held) # MinSigs THEN w1
        ELSE IF Accepted(reply) THEN Published(w2, coin, data, signed)
        ELSE IF reply = "mismatch" THEN w2
        ELSE w3
  BY DEF SigsCheck
<1>2. Sound(b0, S, w1) /\ SameRound(b, w1.b)
  BY SoundState DEF Active
<1>3. CASE b.state = Ended
  BY <1>1, <1>3 DEF Grows
<1>4. CASE b.state # Ended /\ (~Buildable(b, coin) \/ Cardinality(held) # MinSigs)
  <2> HIDE DEF held, w1
  <2> QED BY <1>1, <1>2, <1>4 DEF SameRound, Grows
<1>5. CASE b.state # Ended /\ Buildable(b, coin) /\ Cardinality(held) = MinSigs
  <2>1. /\ w1.b.pendingbestk = b.pendingbestk
        /\ w1.b.hashmsg = b.hashmsg
        /\ w1.b.pendingbestmask = b.pendingbestmask
        /\ w1.b.sigs = b.sigs
    BY <1>2 DEF SameRound
  <2> HIDE DEF w1
  <2>2. Verifies(w1.b, coin, data) = valid
    BY <2>1 DEF Verifies
  <2>3. held = {i \in w1.b.pendingbestmask : HasSig(w1.b, coin, i, w1.b.pendingbestk)}
    BY <2>1 DEF HasSig
  <2>4. acc \in BOOLEAN /\ (acc => Verifies(w1.b, coin, data))
    BY <2>2
  <2>5. tx = [coin |-> coin, mask |-> w1.b.pendingbestmask, hashmsg |-> w1.b.hashmsg,
              pax |-> Merkle(coin, data), valid |-> Verifies(w1.b, coin, data), accepted |-> acc]
    BY <2>1, <2>2
  <2>6. Sound(b0, S, w2)
    <3>1. Cardinality({i \in w1.b.pendingbestmask : HasSig(w1.b, coin, i, w1.b.pendingbestk)}) = MinSigs
      BY <1>5, <2>3
    <3>2. w1.b.pendingbestk # None
      BY <2>1
    <3> HIDE DEF tx, acc
    <3> QED BY <1>2, <2>4, <2>5, <3>1, <3>2, SubmitSound
  <2>7. w2.b = w1.b /\ w2.txs = w1.txs \cup {tx}
    BY <1>2 DEF Sound, Work
  <2>8. Grows(b, w2.b) /\ w2.b.pendingbestk # None
    BY <1>2, <2>1, <2>7 DEF SameRound, Grows
  <2>9. CASE Accepted(reply)
    <3>1. \E t \in w2.txs : t.coin = coin /\ t.accepted /\ t.mask = w2.b.pendingbestmask
      <4>1. tx.coin = coin /\ tx.accepted /\ tx.mask = w1.b.pendingbestmask
        BY <2>1, <2>9 DEF Accepted
      <4> HIDE DEF tx, w2
      <4> QED BY <2>7, <4>1
    <3> HIDE DEF w2
    <3>2. Sound(b0, S, Published(w2, coin, data, signed)) /\ Grows(w2.b, Published(w2, coin, data, signed).b)
      BY <2>6, <2>8, <3>1, PublishedSound
    <3> QED BY <1>1, <1>5, <2>8, <2>9, <3>2 DEF Grows
  <2>10. CASE ~Accepted(reply) /\ reply = "mismatch"
    <3> HIDE DEF w2, reply
    <3> QED BY <1>1, <1>5, <2>6, <2>8, <2>10
  <2>11. CASE ~Accepted(reply) /\ reply # "mismatch"
    <3> HIDE DEF w2, reply
    <3>1. Sound(b0, S, w3) /\ SameRound(w2.b, w3.b)
      <4>1. Ended \in {Idle, Active, DestDone, Ended}
        OBVIOUS
      <4> QED BY <2>6, <4>1, SoundState
    <3> HIDE DEF w3
    <3> QED BY <1>1, <1>5, <2>8, <2>11, <3>1 DEF SameRound, Grows
  <2> QED BY <2>9, <2>10, <2>11
<1> QED BY <1>3, <1>4, <1>5

(* A notary commits to the set it has elected, once.                       *)
LEMMA CommitSound ==
  ASSUME NEW b0, NEW S, NEW w, Sound(b0, S, w), NEW data \in Nat, NEW signed \in BOOLEAN,
         w.b.bestk # None
  PROVE  /\ Sound(b0, S, Commit(w, data, signed))
         /\ Commit(w, data, signed).b.pendingbestk # None
<1> DEFINE b == w.b
           c == [b EXCEPT !.pendingbestk = b.bestk, !.pendingbestmask = b.bestmask]
           v == [w EXCEPT !.b = c]
<1>1. b \in Block /\ w \in Work
  BY DEF Sound, Work
<1>2. CASE ~Uncommitted(b)
  BY <1>2 DEF Commit, Uncommitted
<1>3. CASE Uncommitted(b)
  <2>1. Commit(w, data, signed) = SignedTxGen(v, "dest", data, signed)
    BY <1>3 DEF Commit
  <2>2. /\ c \in Block
        /\ c.myind = b.myind
        /\ c.hashmsg = b.hashmsg
        /\ c.sigs = b.sigs
        /\ c.desttxid = b.desttxid
        /\ c.bestmask = b.bestmask
        /\ c.pendingbestk = b.bestk
        /\ c.pendingbestmask = b.bestmask
    BY <1>1 DEF Block
  <2> HIDE DEF c
  <2>3. v \in Work /\ v.b = c /\ v.out = w.out /\ v.txs = w.txs
    BY <1>1, <2>2 DEF Work
  <2> HIDE DEF v
  <2>4. Good(c) /\ Grows(b0, c) /\ c.pendingbestk # None
    BY <1>3, <2>2 DEF Sound, Good, Grows, Uncommitted
  <2>5. \A s \in Signature : ~Mine(b, s)
    BY <1>3 DEF Uncommitted, Mine, CommittedTo, Signature, None, Notary
  <2>6. w.b.sigs \subseteq Signature /\ \A o \in w.out : o.sigs \subseteq Signature
    BY <1>1 DEF Block, Work, Snapshot
  <2>7. \A t, i : Stands(S, b, t, i) => Stands(S, c, t, i)
    BY <1>3 DEF Stands, Uncommitted
  <2>8. Sound(b0, S, v)
    BY <2>2, <2>3, <2>4, <2>5, <2>6, <2>7 DEF Sound
  <2>9. /\ Sound(b0, S, SignedTxGen(v, "dest", data, signed))
        /\ Grows(c, SignedTxGen(v, "dest", data, signed).b)
    BY <2>3, <2>4, <2>8, SignedTxGenSound DEF Coin
  <2> QED BY <2>1, <2>4, <2>9 DEF Grows
<1> QED BY <1>2, <1>3

LEMMA CoSignSound ==
  ASSUME NEW b0, NEW S, NEW w, Sound(b0, S, w), NEW data \in Nat, NEW signed \in BOOLEAN,
         w.b.pendingbestk # None
  PROVE  /\ Sound(b0, S, CoSign(w, data, signed))
         /\ CoSign(w, data, signed).b.pendingbestk # None
BY SignedTxGenSound DEF CoSign, Grows, Coin

LEMMA PublishSound ==
  ASSUME NEW b0, NEW S, NEW w, Sound(b0, S, w), NEW data \in Nat, NEW signed \in BOOLEAN,
         w.b.pendingbestk # None, NEW answer
  PROVE  Sound(b0, S, Publish(w, data, signed, answer))
<1> DEFINE w1 == IF w.b.state < DestDone THEN SigsCheck(w, "dest", data, signed, answer["dest"]) ELSE w
<1>1. Sound(b0, S, w1) /\ Grows(w.b, w1.b)
  BY SigsCheckSound DEF Coin, Grows
<1>2. Publish(w, data, signed, answer) =
        IF ~AllSigs(w.b, "dest") THEN w
        ELSE IF AllSigs(w1.b, "src") THEN SigsCheck(w1, "src", data, signed, answer["src"]) ELSE w1
  BY DEF Publish
<1>3. w1.b.pendingbestk # None
  BY <1>1 DEF Grows
<1> HIDE DEF w1
<1>4. Sound(b0, S, SigsCheck(w1, "src", data, signed, answer["src"]))
  BY <1>1, <1>3, SigsCheckSound DEF Coin
<1> QED BY <1>1, <1>2, <1>4

-----------------------------------------------------------------------------
(* The handler.                                                            *)

LEMMA LearnType ==
  ASSUME NEW b \in Block, NEW m \in Snapshot, Sized(b.bestmask)
  PROVE  /\ Learn(b, m) \in Block
         /\ SameRound(b, Learn(b, m))
         /\ Sized(Learn(b, m).bestmask)
<1> DEFINE e == b.notaries[m.from]
           sender == [e EXCEPT !.utxo = TRUE,
                               !.bestmask = IF m.bestmask = {} THEN @ ELSE m.bestmask,
                               !.recvmask = @ \cup m.recvmask,
                               !.paxwdcrc = m.paxwdcrc]
           me == [b.notaries[b.myind] EXCEPT !.paxwdcrc = b.paxwdcrc]
           b0 == [b EXCEPT !.notaries[m.from] = sender]
           b1 == [b0 EXCEPT !.notaries[b.myind] = me]
           b2 == [b1 EXCEPT !.recvmask = @ \cup {m.from, b.myind}]
<1>1. /\ m.from \in Notary /\ m.bestmask \in SUBSET Notary
      /\ m.recvmask \in SUBSET Notary /\ m.paxwdcrc \in Nat
  BY DEF Snapshot
<1>2. /\ b.notaries \in [Notary -> Entry] /\ b.myind \in Notary /\ b.paxwdcrc \in Nat
  BY DEF Block
<1>3. sender \in Entry
  <2>1. e \in Entry
    BY <1>1, <1>2
  <2> HIDE DEF e
  <2> QED BY <1>1, <2>1 DEF Entry
<1>4. me \in Entry
  <2>1. ASSUME NEW x \in Entry PROVE [x EXCEPT !.paxwdcrc = b.paxwdcrc] \in Entry
    BY <1>2 DEF Entry
  <2> QED BY <1>2, <2>1
<1>5. Learn(b, m) = IF b.bestmask # {} THEN b1 ELSE MaskMin(b2)
  BY DEF Learn
<1> HIDE DEF sender, me
<1>6. b0 \in Block /\ SameRound(b, b0) /\ b0.bestmask = b.bestmask
  BY <1>1, <1>3, EntryType
<1> HIDE DEF b0
<1>7. b1 \in Block /\ SameRound(b0, b1) /\ b1.bestmask = b.bestmask
  BY <1>2, <1>4, <1>6, EntryType
<1> HIDE DEF b1
<1>8. b2 \in Block /\ SameRound(b1, b2)
  BY <1>1, <1>2, <1>7 DEF Block, SameRound
<1> HIDE DEF b2
<1>9. MaskMin(b2) \in Block /\ SameRound(b2, MaskMin(b2)) /\ Sized(MaskMin(b2).bestmask)
  BY <1>8, MaskMinType
<1> QED BY <1>5, <1>6, <1>7, <1>8, <1>9 DEF SameRound

LEMMA MirrorType ==
  ASSUME NEW b \in Block
  PROVE  /\ Mirror(b) \in Block
         /\ SameRound(b, Mirror(b))
         /\ Mirror(b).bestmask = b.bestmask
<1> DEFINE e == b.notaries[b.myind]
           me == [e EXCEPT !.bestk = IF b.bestk = None THEN @ ELSE b.bestk,
                           !.bestmask = IF b.bestmask = {} THEN @ ELSE b.bestmask,
                           !.recvmask = IF b.recvmask = {} THEN @ ELSE b.recvmask]
<1>1. e \in Entry /\ b.myind \in Notary
  BY DEF Block
<1>2. Mirror(b) = [b EXCEPT !.notaries[b.myind] = me]
  BY DEF Mirror
<1>3. /\ b.bestk \in Notary \cup {None}
      /\ b.bestmask \in SUBSET Notary
      /\ b.recvmask \in SUBSET Notary
  BY DEF Block
<1> HIDE DEF e
<1>4. me \in Entry
  BY <1>1, <1>3 DEF Entry
<1> HIDE DEF me
<1> QED BY <1>1, <1>2, <1>4, EntryType

LEMMA CollectType ==
  ASSUME NEW b \in Block, NEW m \in Snapshot
  PROVE  /\ Collect(b, m) \in Block
         /\ Collect(b, m).myind = b.myind
         /\ Collect(b, m).hashmsg = b.hashmsg
         /\ Collect(b, m).bestmask = b.bestmask
         /\ Collect(b, m).pendingbestk = b.pendingbestk
         /\ Collect(b, m).pendingbestmask = b.pendingbestmask
         /\ Collect(b, m).desttxid = b.desttxid
         /\ Collect(b, m).sigs \subseteq b.sigs \cup m.sigs
<1> DEFINE sender == [b.notaries[m.from] EXCEPT !.bestk = m.bestk]
           b1 == [b EXCEPT !.notaries[m.from] = sender]
           fresh == Fresh(b, m)
           bits(c, k) == IF k # m.bestk \/ (\A s \in fresh : s.coin # c) THEN b.sigsmasks[c][k]
                         ELSE IF Agrees(b, m) THEN b.sigsmasks[c][k] \cup {m.from}
                         ELSE b.sigsmasks[c][k] \ {m.from}
           sm == [c \in Coin |-> [k \in Notary |-> bits(c, k)]]
           b2 == [b1 EXCEPT !.sigs = @ \cup fresh, !.sigsmasks = sm]
<1>1. m.from \in Notary /\ m.bestk \in Notary \cup {None} /\ m.sigs \in SUBSET Signature
  BY DEF Snapshot
<1>2. sender \in Entry
  <2>1. b.notaries \in [Notary -> Entry]
    BY DEF Block
  <2>2. ASSUME NEW x \in Entry PROVE [x EXCEPT !.bestk = m.bestk] \in Entry
    BY <1>1 DEF Entry
  <2> QED BY <1>1, <2>1, <2>2
<1>3. Collect(b, m) = IF m.bestk = None /\ b.notaries[m.from].bestk # None THEN b
                      ELSE IF b.pendingbestk # m.bestk \/ b.pendingbestmask # b.bestmask THEN b1
                      ELSE b2
  BY DEF Collect
<1>4. fresh \in SUBSET Signature /\ fresh \subseteq m.sigs
  BY <1>1 DEF Fresh
<1>5. sm \in [Coin -> [Notary -> SUBSET Notary]]
  BY <1>1 DEF Block
<1> HIDE DEF sender, fresh, sm
<1>6. b1 \in Block /\ SameRound(b, b1) /\ b1.bestmask = b.bestmask
  BY <1>1, <1>2, EntryType
<1> HIDE DEF b1
<1>7. /\ b2 \in Block
      /\ b2.sigs = b1.sigs \cup fresh
      /\ b2.bestmask = b.bestmask
      /\ b2.myind = b1.myind
      /\ b2.hashmsg = b1.hashmsg
      /\ b2.pendingbestk = b1.pendingbestk
      /\ b2.pendingbestmask = b1.pendingbestmask
      /\ b2.desttxid = b1.desttxid
  BY <1>4, <1>5, <1>6 DEF Block
<1> HIDE DEF b2
<1> QED BY <1>3, <1>4, <1>6, <1>7 DEF SameRound

(* The handler works soundly from the signatures held and those received.  *)
LEMMA NotarizeUpdateSound ==
  ASSUME NEW b \in Block, Good(b), NEW m \in Snapshot, NEW data \in Nat,
         NEW ping \in BOOLEAN, NEW signed \in BOOLEAN, NEW answer
  PROVE  Sound(b, b.sigs \cup m.sigs, NotarizeUpdate(b, m, data, ping, signed, answer))
<1> DEFINE S == b.sigs \cup m.sigs
           l == Learn(b, m)
           c == BestConsensus(l)
           r == Mirror(c)
           heard == Collect(r, m)
           w == [b |-> heard, out |-> {}, txs |-> {}]
           w1 == IF ping THEN Send(w, data) ELSE w
           w2 == Commit(w1, data, signed)
           w3 == CoSign(w2, data, signed)
           w4 == Publish(w3, data, signed, answer)
<1>1. NotarizeUpdate(b, m, data, ping, signed, answer) =
        IF heard.bestk = None THEN w
        ELSE IF Cardinality(Agreeing(heard)) # MinSigs \/ w1.b.bestk = None \/ w1.b.bestmask = {} THEN w1
        ELSE w4
  BY DEF NotarizeUpdate
<1>2. l \in Block /\ SameRound(b, l) /\ Sized(l.bestmask)
  BY LearnType DEF Good
<1> HIDE DEF l
<1>3. c \in Block /\ SameRound(l, c) /\ Sized(c.bestmask)
  BY <1>2, BestConsensusType
<1> HIDE DEF c
<1>4. r \in Block /\ SameRound(c, r) /\ Sized(r.bestmask)
  BY <1>3, MirrorType
<1> HIDE DEF r
<1>5. /\ heard \in Block
      /\ heard.myind = r.myind
      /\ heard.hashmsg = r.hashmsg
      /\ heard.bestmask = r.bestmask
      /\ heard.pendingbestk = r.pendingbestk
      /\ heard.pendingbestmask = r.pendingbestmask
      /\ heard.desttxid = r.desttxid
      /\ heard.sigs \subseteq r.sigs \cup m.sigs
  BY <1>4, CollectType
<1> HIDE DEF heard
<1>6. Grows(b, heard) /\ Good(heard) /\ heard.sigs \subseteq S /\ heard.desttxid = b.desttxid
  BY <1>2, <1>3, <1>4, <1>5 DEF SameRound, Grows, Good
<1>7. Sound(b, S, w)
  BY <1>5, <1>6 DEF Sound, Work
<1> HIDE DEF S, w
<1>8. Sound(b, S, w1)
  BY <1>7, SendSound
<1> HIDE DEF w1
<1>9. CASE w1.b.bestk # None
  <2>1. Sound(b, S, w2) /\ w2.b.pendingbestk # None
    BY <1>8, <1>9, CommitSound
  <2> HIDE DEF w2
  <2>2. Sound(b, S, w3) /\ w3.b.pendingbestk # None
    BY <2>1, CoSignSound
  <2> HIDE DEF w3
  <2>3. Sound(b, S, w4)
    BY <2>2, PublishSound
  <2> QED BY <1>1, <1>7, <1>8, <2>3 DEF S
<1>10. CASE w1.b.bestk = None
  BY <1>1, <1>7, <1>8, <1>10 DEF S
<1> QED BY <1>9, <1>10

-----------------------------------------------------------------------------
(* The inductive invariant.  SignaturesBind alone is not inductive: the    *)
(* handler publishes with the signatures it holds, so that a transaction   *)
(* was accepted must be traced to the commitments of all its signers, and  *)
(* a txid known to the transaction that was accepted for it.               *)

(* A notary stands behind the transaction t.                               *)
Behind(b, t) ==
  /\ b.pendingbestk # None
  /\ b.pendingbestmask = t.mask
  /\ t.coin = "src" => b.desttxid = t.mask

AcceptedSigned ==
  \A t \in submitted : t.accepted => t.mask # {} /\ \A i \in t.mask : Behind(bp[i], t)

DestKnown ==
  \A n \in Notary : bp[n].desttxid # {} =>
    \E t \in submitted : t.coin = "dest" /\ t.accepted /\ t.mask = bp[n].desttxid

Blocks == \A n \in Notary : bp[n].myind = n /\ Good(bp[n])

IInv == TypeOK /\ Blocks /\ SignaturesBind /\ AcceptedSigned /\ DestKnown

LEMMA InitIInv == Init => IInv
<1> SUFFICES ASSUME Init PROVE IInv
  OBVIOUS
<1> PICK hash \in [Notary -> Hashes] : bp = [n \in Notary |-> NewBlock(n, hash[n])]
  BY DEF Init
<1>1. \A n \in Notary : bp[n] = NewBlock(n, hash[n])
  OBVIOUS
<1>2. \A n \in Notary : NewBlock(n, hash[n]) \in Block
  <2> SUFFICES ASSUME NEW n \in Notary PROVE NewBlock(n, hash[n]) \in Block
    OBVIOUS
  <2> DEFINE e == [i \in Notary |-> [EmptyEntry EXCEPT !.utxo = (i = n /\ n \in Funded)]]
             sm == [c \in Coin |-> [k \in Notary |-> {}]]
  <2>1. e \in [Notary -> Entry]
    <3>1. \A u \in BOOLEAN : [EmptyEntry EXCEPT !.utxo = u] \in Entry
      BY DEF EmptyEntry, Entry
    <3>2. \A i \in Notary : (i = n /\ n \in Funded) \in BOOLEAN
      OBVIOUS
    <3> QED BY <3>1, <3>2
  <2>2. sm \in [Coin -> [Notary -> SUBSET Notary]]
    OBVIOUS
  <2>3. NewBlock(n, hash[n]) =
          [myind |-> n, hashmsg |-> hash[n], notaries |-> e, sigs |-> {}, sigsmasks |-> sm,
           recvmask |-> {n}, bestmask |-> {}, bestk |-> None,
           pendingbestmask |-> {}, pendingbestk |-> None,
           matches |-> 0, bestmatches |-> 0, paxwdcrc |-> 0,
           desttxid |-> {}, srctxid |-> {}, state |-> Idle]
    BY DEF NewBlock
  <2> HIDE DEF e, sm
  <2> QED BY <2>1, <2>2, <2>3 DEF Block
<1>3. TypeOK
  BY <1>1, <1>2 DEF Init, TypeOK
<1>4. Blocks /\ SignaturesBind /\ DestKnown
  BY <1>1 DEF Blocks, Good, Sized, SignaturesBind, DestKnown, Init, NewBlock
<1>5. AcceptedSigned
  BY DEF AcceptedSigned, Init
<1> QED BY <1>3, <1>4, <1>5 DEF IInv

(* A commitment made stays made.                                           *)
LEMMA CommittedToGrows ==
  ASSUME NEW b \in Block, NEW c, Grows(b, c), NEW s \in Signature, CommittedTo(b, s)
  PROVE  CommittedTo(c, s)
<1>1. b.pendingbestk # None
  BY DEF CommittedTo, Signature, None, Notary
<1>2. s.coin = "src" => b.desttxid # {}
  BY DEF CommittedTo
<1> QED BY <1>1, <1>2 DEF CommittedTo, Grows

(* A sound work of one notary preserves the invariant.                     *)
LEMMA LocalStep ==
  ASSUME IInv, NEW n \in Notary, NEW S \in SUBSET Signature,
         \A s \in S : CommittedTo(bp[s.by], s),
         NEW w, Sound(bp[n], S, w),
         bp' = [bp EXCEPT ![n] = w.b], bus' = bus \cup w.out, submitted' = submitted \cup w.txs,
         pax' \in [Notary -> Nat], pings' \in [Notary -> Nat]
  PROVE  IInv' /\ \A i \in Notary : Grows(bp[i], bp'[i])
<1>1. /\ bp \in [Notary -> Block]
      /\ bus \subseteq Snapshot
      /\ submitted \subseteq Submission
      /\ bp[n].myind = n
  BY DEF IInv, TypeOK, Blocks
<1>2. w \in Work /\ w.b \in Block /\ Grows(bp[n], w.b) /\ Good(w.b)
  BY DEF Sound, Work
<1>3. bp'[n] = w.b /\ \A i \in Notary \ {n} : bp'[i] = bp[i]
  BY <1>1
<1>4. TypeOK'
  BY <1>1, <1>2 DEF TypeOK, Work
<1>5. \A i \in Notary : Grows(bp[i], bp'[i])
  BY <1>2, <1>3 DEF Grows
<1>6. Blocks'
  BY <1>1, <1>2, <1>3 DEF IInv, Blocks, Grows
<1>7. ASSUME NEW s \in Signature, CommittedTo(bp[s.by], s) PROVE CommittedTo(bp'[s.by], s)
  <2>1. s.by \in Notary
    BY DEF Signature
  <2> QED BY <1>1, <1>5, <1>7, <2>1, CommittedToGrows
<1>8. ASSUME NEW s \in Signature, s \in S \/ Mine(w.b, s) PROVE CommittedTo(bp'[s.by], s)
  <2>1. CASE s \in S
    BY <1>7, <2>1
  <2>2. CASE Mine(w.b, s)
    <3>1. s.by = n
      BY <1>1, <1>2, <2>2 DEF Mine, Grows
    <3> QED BY <1>3, <2>2, <3>1 DEF Mine
  <2> QED BY <1>8, <2>1, <2>2
<1>9. SignaturesBind'
  <2>1. ASSUME NEW i \in Notary, NEW s \in bp'[i].sigs PROVE CommittedTo(bp'[s.by], s)
    <3>1. CASE i = n
      <4>1. s \in Signature /\ (s \in S \/ Mine(w.b, s))
        BY <1>2, <1>3, <2>1, <3>1 DEF Sound, Block
      <4> QED BY <1>8, <4>1
    <3>2. CASE i # n
      <4>1. s \in bp[i].sigs
        BY <1>3, <2>1, <3>2
      <4>2. s \in Signature /\ CommittedTo(bp[s.by], s)
        BY <1>1, <4>1 DEF IInv, SignaturesBind, Block
      <4> QED BY <1>7, <4>2
    <3> QED BY <3>1, <3>2
  <2>2. ASSUME NEW m \in bus', NEW s \in m.sigs PROVE CommittedTo(bp'[s.by], s)
    <3>1. CASE m \in bus
      <4>1. s \in Signature /\ CommittedTo(bp[s.by], s)
        BY <1>1, <2>2, <3>1 DEF IInv, SignaturesBind, Snapshot
      <4> QED BY <1>7, <4>1
    <3>2. CASE m \in w.out
      <4>1. s \in Signature /\ (s \in S \/ Mine(w.b, s))
        BY <1>2, <2>2, <3>2 DEF Sound, Work, Snapshot
      <4> QED BY <1>8, <4>1
    <3> QED BY <2>2, <3>1, <3>2
  <2> QED BY <2>1, <2>2 DEF SignaturesBind
<1>10. AcceptedSigned'
  <2> SUFFICES ASSUME NEW t \in submitted', t.accepted
               PROVE  t.mask # {} /\ \A i \in t.mask : Behind(bp'[i], t)
    BY DEF AcceptedSigned
  <2>1. t.mask \subseteq Notary
    BY <1>1, <1>2 DEF Work, Submission
  <2>2. CASE t \in submitted
    <3>1. t.mask # {} /\ \A i \in t.mask : Behind(bp[i], t)
      BY <2>2 DEF IInv, AcceptedSigned
    <3> QED BY <1>5, <2>1, <3>1 DEF Behind, Grows
  <2>3. CASE t \in w.txs
    <3>1. t.mask # {} /\ \A i \in t.mask : Stands(S, w.b, t, i)
      BY <2>3 DEF Sound
    <3>2. ASSUME NEW i \in t.mask PROVE Behind(bp'[i], t)
      <4>1. CASE \E s \in S : s.coin = t.coin /\ s.by = i /\ s.mask = t.mask
        <5>1. PICK s \in S : s.coin = t.coin /\ s.by = i /\ s.mask = t.mask
          BY <4>1
        <5>2. s \in Signature /\ CommittedTo(bp'[i], s)
          BY <1>8, <5>1
        <5> QED BY <5>1, <5>2 DEF CommittedTo, Behind, Signature, None, Notary
      <4>2. CASE i = w.b.myind /\ Behind(w.b, t)
        BY <1>1, <1>2, <1>3, <4>2 DEF Grows
      <4> QED BY <3>1, <4>1, <4>2 DEF Stands, Behind
    <3> QED BY <3>1, <3>2
  <2> QED BY <2>2, <2>3
<1>11. DestKnown'
  <2> SUFFICES ASSUME NEW i \in Notary, bp'[i].desttxid # {}
               PROVE  \E t \in submitted' : t.coin = "dest" /\ t.accepted /\ t.mask = bp'[i].desttxid
    BY DEF DestKnown
  <2>1. CASE bp'[i].desttxid = bp[i].desttxid
    BY <2>1 DEF IInv, DestKnown
  <2>2. CASE bp'[i].desttxid # bp[i].desttxid
    BY <1>3, <2>2 DEF Sound
  <2> QED BY <2>1, <2>2
<1> QED BY <1>4, <1>5, <1>6, <1>9, <1>10, <1>11 DEF IInv

(* The work of a step that has done nothing yet.                           *)
Begun(n) == [b |-> bp[n], out |-> {}, txs |-> {}]

LEMMA BegunSound ==
  ASSUME IInv, NEW n \in Notary
  PROVE  /\ Sound(bp[n], bp[n].sigs, Begun(n))
         /\ bp[n] \in Block
         /\ bp[n].sigs \in SUBSET Signature
         /\ \A s \in bp[n].sigs : CommittedTo(bp[s.by], s)
<1>1. bp[n] \in Block /\ Good(bp[n])
  BY DEF IInv, TypeOK, Blocks
<1>2. bp[n].sigs \in SUBSET Signature
  BY <1>1 DEF Block
<1> QED BY <1>1, <1>2 DEF Begun, Sound, Work, Grows, IInv, SignaturesBind

LEMMA PingStep ==
  ASSUME IInv, NEW n \in Notary, Ping(n)
  PROVE  IInv' /\ \A i \in Notary : Grows(bp[i], bp'[i])
<1> DEFINE w == Send(Begun(n), pax[n])
<1>1. /\ bp' = [bp EXCEPT ![n] = w.b]
      /\ bus' = bus \cup w.out
      /\ UNCHANGED <<pax, submitted>>
      /\ Pinged(n)
  BY DEF Ping, Begun
<1>2. pax \in [Notary -> Nat] /\ pings \in [Notary -> Nat] /\ pax[n] \in Nat
  BY DEF IInv, TypeOK
<1>3. pings' \in [Notary -> Nat]
  BY <1>1, <1>2 DEF Pinged
<1>4. Sound(bp[n], bp[n].sigs, w)
  BY <1>2, BegunSound, SendSound
<1>5. w.txs = {}
  BY DEF Send, Begun
<1> HIDE DEF w
<1>6. submitted' = submitted \cup w.txs
  BY <1>1, <1>5
<1> QED BY <1>1, <1>2, <1>3, <1>4, <1>6, BegunSound, LocalStep

LEMMA ReceiveStep ==
  ASSUME IInv, NEW n \in Notary, NEW m \in bus, Receive(n, m)
  PROVE  IInv' /\ \A i \in Notary : Grows(bp[i], bp'[i])
<1>1. PICK ping \in BOOLEAN, signed \in SignResults, answer \in [Coin -> Replies] :
        LET w == NotarizeUpdate(bp[n], m, pax[n], ping, signed, answer)
        IN  /\ IF ping THEN Pinged(n) ELSE pings' = pings
            /\ bp' = [bp EXCEPT ![n] = w.b]
            /\ bus' = bus \cup w.out
            /\ submitted' = submitted \cup w.txs
  BY DEF Receive
<1> DEFINE w == NotarizeUpdate(bp[n], m, pax[n], ping, signed, answer)
           S == bp[n].sigs \cup m.sigs
<1>2. pax \in [Notary -> Nat] /\ pings \in [Notary -> Nat] /\ pax[n] \in Nat /\ m \in Snapshot
  BY DEF IInv, TypeOK
<1>3. pings' \in [Notary -> Nat]
  BY <1>1, <1>2 DEF Pinged
<1>4. pax' \in [Notary -> Nat]
  BY <1>2 DEF Receive
<1>5. S \in SUBSET Signature /\ \A s \in S : CommittedTo(bp[s.by], s)
  BY <1>2, BegunSound DEF IInv, SignaturesBind, Snapshot
<1>6. bp[n] \in Block /\ Good(bp[n]) /\ signed \in BOOLEAN
  BY RoundAssumption DEF IInv, TypeOK, Blocks
<1>7. Sound(bp[n], S, w)
  BY <1>2, <1>6, NotarizeUpdateSound
<1>8. bp' = [bp EXCEPT ![n] = w.b] /\ bus' = bus \cup w.out /\ submitted' = submitted \cup w.txs
  BY <1>1
<1> HIDE DEF w, S
<1> QED BY <1>3, <1>4, <1>5, <1>7, <1>8, LocalStep

LEMMA RefreshStep ==
  ASSUME IInv, NEW n \in Notary, Refresh(n)
  PROVE  IInv' /\ \A i \in Notary : Grows(bp[i], bp'[i])
<1>1. pax' \in [Notary -> Nat] /\ UNCHANGED <<bp, bus, pings, submitted>>
  BY DEF IInv, TypeOK, Refresh
<1> QED BY <1>1 DEF IInv, TypeOK, Blocks, SignaturesBind, AcceptedSigned, DestKnown, Grows

LEMMA AbortStep ==
  ASSUME IInv, NEW n \in Notary, Abort(n)
  PROVE  IInv' /\ \A i \in Notary : Grows(bp[i], bp'[i])
<1> DEFINE c == [bp[n] EXCEPT !.state = Ended]
           v == [Begun(n) EXCEPT !.b = c]
<1>1. bp[n] \in Block /\ Sized(bp[n].bestmask) /\ Begun(n).b = bp[n]
  BY DEF IInv, TypeOK, Blocks, Good, Begun
<1>2. c \in Block /\ SameRound(bp[n], c) /\ Sized(c.bestmask)
  BY <1>1 DEF Block, SameRound
<1>3. bp' = [bp EXCEPT ![n] = c] /\ UNCHANGED <<bus, pax, pings, submitted>>
  BY DEF Abort, IInv, TypeOK
<1> HIDE DEF c
<1>4. Sound(bp[n], bp[n].sigs, v)
  BY <1>1, <1>2, BegunSound, SoundFrame
<1>5. v.b = c /\ v.out = {} /\ v.txs = {}
  BY DEF Begun
<1> HIDE DEF v
<1>6. pax' \in [Notary -> Nat] /\ pings' \in [Notary -> Nat]
  BY <1>3 DEF IInv, TypeOK
<1>7. bp' = [bp EXCEPT ![n] = v.b] /\ bus' = bus \cup v.out /\ submitted' = submitted \cup v.txs
  BY <1>3, <1>5
<1> QED BY <1>4, <1>6, <1>7, BegunSound, LocalStep

LEMMA NextStep ==
  ASSUME IInv, [Next]_vars
  PROVE  IInv' /\ \A i \in Notary : Grows(bp[i], bp'[i])
<1>1. ASSUME NEW n \in Notary, Ping(n) \/ (\E m \in bus : Receive(n, m)) \/ Refresh(n) \/ Abort(n)
      PROVE  IInv' /\ \A i \in Notary : Grows(bp[i], bp'[i])
  BY <1>1, PingStep, ReceiveStep, RefreshStep, AbortStep
<1>2. CASE UNCHANGED vars
  BY <1>2 DEF vars, IInv, TypeOK, Blocks, SignaturesBind, AcceptedSigned, DestKnown, Grows
<1> QED BY <1>1, <1>2 DEF Next

-----------------------------------------------------------------------------
(* The theorems.                                                           *)

(* Every state the round reaches satisfies the inductive invariant.        *)
THEOREM Invariance == Spec => []IInv
<1>1. IInv /\ [Next]_vars => IInv'
  BY NextStep
<1> QED BY <1>1, InitIInv, PTL DEF Spec

(* Each notary's struct dpow_block, each snapshot dpow_send puts on the    *)
(* bus and each transaction stays within the ranges the code declares.     *)
THEOREM TypeCorrect == Spec => []TypeOK
<1>1. IInv => TypeOK
  BY DEF IInv
<1> QED BY <1>1, Invariance, PTL

(* Whatever the bus loses, repeats or reorders, and whatever the daemons   *)
(* answer, dpow_notarize_update never lets a notary sign for a set other   *)
(* than the one it is committed to.                                        *)
THEOREM SignaturesAreBinding == Spec => []SignaturesBind
<1>1. IInv => SignaturesBind
  BY DEF IInv
<1> QED BY <1>1, Invariance, PTL

(* Two notarizations of one height that a chain accepts have the same      *)
(* signers, or none in common: no notary double-signs.                     *)
THEOREM NoDoubleSigning == Spec => []Agreement
<1>1. IInv => Agreement
  <2> SUFFICES ASSUME IInv, NEW t \in submitted, NEW u \in submitted,
                      t.accepted, u.accepted, NEW i \in t.mask \cap u.mask
               PROVE  t.mask = u.mask
    BY DEF Agreement
  <2>1. Behind(bp[i], t) /\ Behind(bp[i], u)
    BY DEF IInv, AcceptedSigned
  <2> QED BY <2>1 DEF Behind
<1> QED BY <1>1, Invariance, PTL

(* The source chain never carries a notarization whose destination         *)
(* transaction some signer did not see accepted.                           *)
THEOREM SourceAfterDestination == Spec => []SrcAfterDest
<1>1. IInv => SrcAfterDest
  <2> SUFFICES ASSUME IInv, NEW t \in submitted, t.accepted, t.coin = "src"
               PROVE  /\ \E u \in submitted : u.coin = "dest" /\ u.accepted /\ u.mask = t.mask
                      /\ \A i \in t.mask : bp[i].desttxid = t.mask
    BY DEF SrcAfterDest
  <2>1. t.mask # {} /\ \A i \in t.mask : Behind(bp[i], t)
    BY DEF IInv, AcceptedSigned
  <2>2. t.mask \subseteq Notary
    BY DEF IInv, TypeOK, Submission
  <2>3. PICK i \in t.mask : bp[i].desttxid = t.mask /\ i \in Notary
    BY <2>1, <2>2 DEF Behind
  <2> QED BY <2>1, <2>3 DEF Behind, IInv, DestKnown
<1> QED BY <1>1, Invariance, PTL

(* Neither a later message nor a better consensus moves a commitment or a  *)
(* destination txid once dpow_notarize_update has set it.                  *)
THEOREM CommitmentsAreFinal == Spec => CommitmentsFinal
<1>1. IInv /\ [Next]_vars =>
        [\A n \in Notary :
           /\ bp[n].pendingbestk # None => /\ bp'[n].pendingbestk = bp[n].pendingbestk
                                           /\ bp'[n].pendingbestmask = bp[n].pendingbestmask
           /\ bp[n].desttxid # {} => bp'[n].desttxid = bp[n].desttxid]_vars
  BY NextStep DEF Grows
<1> QED BY <1>1, Invariance, PTL DEF Spec, CommitmentsFinal

(* Sets of signers that have none in common take MinSigs notaries each:    *)
(* count the pairs of a set and a number, each sent to its own notary.     *)
LEMMA DisjointFit ==
  ASSUME NEW M, M \subseteq SUBSET Notary, \A X \in M : Cardinality(X) = MinSigs,
         \A X, Y \in M : X \cap Y # {} => X = Y
  PROVE  IsFiniteSet(M) /\ Cardinality(M) * MinSigs <= N
<1> DEFINE I == 1 .. MinSigs
<1>1. IsFiniteSet(M) /\ IsFiniteSet(I) /\ Cardinality(I) = MinSigs
  <2>1. IsFiniteSet(SUBSET Notary)
    BY NotaryFinite, FS_SUBSET
  <2>2. IsFiniteSet(M)
    BY <2>1, FS_Subset
  <2> QED BY <2>2, FS_Interval, RoundAssumption
<1>2. Cardinality(Notary) = N
  BY FS_Interval, RoundAssumption DEF Notary
<1>3. ASSUME NEW X \in M PROVE Bijection(I, X) # {}
  <2>1. IsFiniteSet(X) /\ Cardinality(X) = MinSigs
    BY <1>3, NotaryFinite
  <2>2. ExistsBijection(1 .. Cardinality(X), X)
    BY <2>1, FS_CardinalityType
  <2> QED BY <2>1, <2>2, Fun_ExistsBij
<1> DEFINE f == [X \in M |-> CHOOSE g : g \in Bijection(I, X)]
<1>4. ASSUME NEW X \in M
      PROVE  f[X] \in [I -> X] /\ \A a, b \in I : f[X][a] = f[X][b] => a = b
  <2>1. f[X] \in Bijection(I, X)
    BY <1>3
  <2> HIDE DEF f, I
  <2>2. PICK g : g = f[X]
    OBVIOUS
  <2>3. g \in [I -> X] /\ \A a, b \in I : g[a] = g[b] => a = b
    <3>1. g \in Bijection(I, X)
      BY <2>1, <2>2
    <3> QED BY <3>1, Fun_BijectionProperties
  <2> QED BY <2>2, <2>3
<1> DEFINE h == [p \in M \X I |-> f[p[1]][p[2]]]
<1>5. h \in [M \X I -> Notary]
  <2>1. ASSUME NEW p \in M \X I PROVE f[p[1]][p[2]] \in Notary
    <3>1. p[1] \in M /\ p[2] \in I
      OBVIOUS
    <3> HIDE DEF f, I
    <3>2. f[p[1]][p[2]] \in p[1]
      BY <1>4, <3>1
    <3> QED BY <3>1, <3>2
  <2> HIDE DEF f, I
  <2> QED BY <2>1
<1>6. ASSUME NEW p \in M \X I, NEW q \in M \X I, h[p] = h[q] PROVE p = q
  <2>1. p[1] \in M /\ p[2] \in I /\ q[1] \in M /\ q[2] \in I
        /\ p = <<p[1], p[2]>> /\ q = <<q[1], q[2]>>
    OBVIOUS
  <2>2. f[p[1]][p[2]] = f[q[1]][q[2]]
    <3> HIDE DEF f, I
    <3> QED BY <1>6
  <2> HIDE DEF f, h, I
  <2>3. f[p[1]][p[2]] \in p[1] /\ f[q[1]][q[2]] \in q[1]
    BY <1>4, <2>1
  <2>4. p[1] = q[1]
    BY <2>1, <2>2, <2>3
  <2>5. p[2] = q[2]
    BY <1>4, <2>1, <2>2, <2>4
  <2> QED BY <2>1, <2>4, <2>5
<1> HIDE DEF h, f, I
<1>7. h \in Injection(M \X I, Notary)
  BY <1>5, <1>6, Fun_IsInj
<1>8. Cardinality(M \X I) <= Cardinality(Notary)
  BY <1>7, NotaryFinite, FS_Injection
<1>9. Cardinality(M \X I) = Cardinality(M) * Cardinality(I)
  BY <1>1, FS_Product
<1> QED BY <1>1, <1>2, <1>8, <1>9

(* Nothing makes the notaries of a height agree on one notarization: two   *)
(* groups that the bus keeps apart may each publish one.  But no notary    *)
(* signs for two, so the chains take at most N \div MinSigs of them, which *)
(* is four where 13 of 64 notaries are enough.                             *)
THEOREM FewNotarizations ==
  Spec => [](Cardinality({t.mask : t \in {u \in submitted : u.accepted}}) * MinSigs <= N)
<1> DEFINE M == {t.mask : t \in {u \in submitted : u.accepted}}
<1>1. IInv => Cardinality(M) * MinSigs <= N
  <2> SUFFICES ASSUME IInv PROVE Cardinality(M) * MinSigs <= N
    OBVIOUS
  <2>1. ASSUME NEW X \in M
        PROVE  X \subseteq Notary /\ X # {} /\ \A i \in X : bp[i].pendingbestmask = X
    <3>1. PICK t \in submitted : t.accepted /\ t.mask = X
      BY <2>1
    <3> QED BY <3>1 DEF IInv, AcceptedSigned, Behind, TypeOK, Submission
  <2> HIDE DEF M
  <2>2. ASSUME NEW X \in M PROVE Cardinality(X) = MinSigs
    <3>1. PICK i \in X : i \in Notary /\ bp[i].pendingbestmask = X
      BY <2>1
    <3> QED BY <2>1, <3>1 DEF IInv, Blocks, Good, Sized
  <2>3. \A X, Y \in M : X \cap Y # {} => X = Y
    BY <2>1
  <2> QED BY <2>1, <2>2, <2>3, DisjointFit
<1> QED BY <1>1, Invariance, PTL

-----------------------------------------------------------------------------
(* The round implements the abstract notarization.  What a step needs is   *)
(* in the invariant and in Grows, and that only one notary acts.           *)

LEMMA OneActs ==
  ASSUME IInv, Next
  PROVE  /\ \E n \in Notary : \A i \in Notary : i # n => bp'[i] = bp[i]
         /\ submitted \subseteq submitted'
<1>1. bp \in [Notary -> Block]
  BY DEF IInv, TypeOK
<1>2. ASSUME NEW n \in Notary, Ping(n) \/ (\E m \in bus : Receive(n, m)) \/ Refresh(n) \/ Abort(n)
      PROVE  (\A i \in Notary : i # n => bp'[i] = bp[i]) /\ submitted \subseteq submitted'
  <2>1. CASE Ping(n)
    BY <1>1, <2>1 DEF Ping
  <2>2. CASE \E m \in bus : Receive(n, m)
    <3>1. PICK w : /\ bp' = [bp EXCEPT ![n] = w.b]
                   /\ submitted' = submitted \cup w.txs
      BY <2>2 DEF Receive
    <3> QED BY <1>1, <3>1
  <2>3. CASE Refresh(n)
    BY <2>3 DEF Refresh
  <2>4. CASE Abort(n)
    BY <1>1, <2>4 DEF Abort
  <2> QED BY <1>2, <2>1, <2>2, <2>3, <2>4
<1> QED BY <1>2 DEF Next

LEMMA InitRefines == Init => Round!Init
<1> SUFFICES ASSUME Init PROVE Round!Init
  OBVIOUS
<1>1. \A n \in Notary : bp[n].pendingbestk = None /\ bp[n].desttxid = {}
  BY DEF Init, NewBlock
<1>2. \A c \in Coin : Taken(c) = {}
  BY DEF Init, Taken
<1> QED BY <1>1, <1>2 DEF Round!Init, Commitments, Coin

(* The chains take only what all signers stand behind.                     *)
LEMMA AcceptRefines ==
  ASSUME IInv', submitted \subseteq submitted', NEW c \in Coin
  PROVE  Round!Accept(c)
<1>1. Taken(c) \subseteq Taken(c)'
  BY DEF Taken
<1>2. ASSUME NEW X \in Taken(c)' PROVE Round!Backed(c, X)'
  <2>1. PICK t \in submitted' : t.coin = c /\ t.accepted /\ t.mask = X
    BY <1>2 DEF Taken
  <2>2. X # {} /\ X \subseteq Notary /\ \A i \in X : Behind(bp'[i], t)
    BY <2>1 DEF IInv, AcceptedSigned, TypeOK, Submission
  <2>3. ASSUME NEW i \in X
        PROVE  Commitments'[i] = X /\ (c = "src" => [n \in Notary |-> bp'[n].desttxid][i] = X)
    BY <2>1, <2>2 DEF Behind, Commitments
  <2> QED BY <2>2, <2>3 DEF Round!Backed
<1> QED BY <1>1, <1>2 DEF Round!Accept

LEMMA NextRefines ==
  ASSUME IInv, [Next]_vars
  PROVE  [Round!Next]_(Round!notarization)
<1>1. CASE UNCHANGED vars
  BY <1>1 DEF vars, Round!notarization, Commitments, Taken
<1>2. CASE Next
  <2>1. IInv' /\ \A i \in Notary : Grows(bp[i], bp'[i])
    BY NextStep
  <2>2. PICK n \in Notary : \A i \in Notary : i # n => bp'[i] = bp[i]
    BY <1>2, OneActs
  <2>3. Round!Accept("dest") /\ Round!Accept("src")
    BY <1>2, <2>1, OneActs, AcceptRefines DEF Coin
  <2>4. Grows(bp[n], bp'[n]) /\ Good(bp'[n]) /\ bp'[n] \in Block
    BY <2>1 DEF IInv, Blocks, TypeOK
  <2>5. Round!Commit(n)
    <3>1. CASE Commitments'[n] = Commitments[n]
      BY <2>2, <3>1 DEF Commitments, Round!Commit
    <3>2. CASE Commitments'[n] # Commitments[n]
      <4>1. bp[n].pendingbestk = None
        BY <2>4, <3>2 DEF Grows, Commitments
      <4>2. Commitments[n] = {}
        BY <4>1 DEF Commitments
      <4>3. Commitments'[n] = bp'[n].pendingbestmask /\ Commitments'[n] # {}
        BY <3>2, <4>2 DEF Commitments
      <4>4. Commitments'[n] \in SUBSET Notary /\ Cardinality(Commitments'[n]) = MinSigs
        BY <2>4, <4>3 DEF Good, Sized, Block
      <4>5. Commitments' = [Commitments EXCEPT ![n] = Commitments'[n]]
        BY <2>2 DEF Commitments
      <4> QED BY <4>2, <4>4, <4>5 DEF Round!Commit
    <3> QED BY <3>1, <3>2
  <2>6. Round!See(n)
    <3> DEFINE seen == [i \in Notary |-> bp[i].desttxid]
    <3>1. CASE bp'[n].desttxid = bp[n].desttxid
      BY <2>2, <3>1 DEF Round!See
    <3>2. CASE bp'[n].desttxid # bp[n].desttxid
      <4>1. bp[n].desttxid = {} /\ bp'[n].desttxid # {}
        BY <2>4, <3>2 DEF Grows
      <4>2. Commitments'[n] = bp'[n].desttxid
        BY <2>4, <4>1 DEF Good, Commitments
      <4>3. bp'[n].desttxid \in Taken("dest")'
        BY <2>1, <4>1 DEF IInv, DestKnown, Taken
      <4>4. seen' = [seen EXCEPT ![n] = bp'[n].desttxid]
        BY <2>2
      <4> QED BY <4>1, <4>2, <4>3, <4>4 DEF Round!See, Coin
    <3> QED BY <3>1, <3>2
  <2> QED BY <2>3, <2>5, <2>6 DEF Round!Next
<1> QED BY <1>1, <1>2

(* Whatever the bus and the daemons do, dpow_notarize_update, dpow_send    *)
(* and dpow_sigscheck do nothing that a notarization does not: one         *)
(* commitment each, and no transaction on a chain that some signer does    *)
(* not stand behind.                                                       *)
THEOREM Refinement == Spec => Implements
BY Invariance, InitRefines, NextRefines, PTL DEF Spec, Implements, Round!Spec

=============================================================================
