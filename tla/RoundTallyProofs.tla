-------------------------- MODULE RoundTallyProofs --------------------------
(***************************************************************************)
(* Proofs about the tally of NotaryRound: what the bits of sigsmasks stand *)
(* for, and why a transaction is never assembled from wrong signatures.    *)
(***************************************************************************)
EXTENDS NotaryRoundProofs

-----------------------------------------------------------------------------
(* The invariant.  The signatures of one author under one index are one;   *)
(* the notary's own are of the set it is committed to; before it commits   *)
(* it has none at all, not even of others; a bit stands for a held         *)
(* signature of the committed set; and the signers of a txid of the        *)
(* destination chain are on one branch.  D.data is the merkle data there   *)
(* is, D.hash the block each notary goes by.                               *)

OneEach(S) ==
  \A s, t \in S : s.coin = t.coin /\ s.by = t.by /\ s.k = t.k => s = t

Carries(D, s) ==
  /\ s.pax \in IF s.coin = "src" THEN D.data ELSE {0}
  /\ s.hashmsg = D.hash[s.by]

OneBranch(D, S, hash) == \A i \in S : D.hash[i] = hash

BitsRight(b) ==
  \A c \in Coin : \A k \in Notary : \A i \in b.sigsmasks[c][k] :
    /\ k = b.pendingbestk
    /\ i \in b.pendingbestmask
    /\ \E s \in b.sigs : s.coin = c /\ s.by = i /\ s.k = k /\ s.mask = b.pendingbestmask

Tallied(D, b) ==
  /\ b.pendingbestk = None => b.sigs = {}
  /\ b.pendingbestk # None => b.bestmask # {} /\ b.pendingbestmask # {}
  /\ \A s \in b.sigs : s.by = b.myind => s.by \in s.mask /\ s.mask = b.pendingbestmask
  /\ \A s \in b.sigs : Carries(D, s)
  /\ OneEach(b.sigs)
  /\ BitsRight(b)
  /\ b.hashmsg = D.hash[b.myind]
  /\ OneBranch(D, b.desttxid, b.hashmsg)

(* A snapshot carries signatures of its sender alone, of the set and under *)
(* the index it proposes.                                                  *)
Plain(D, m) ==
  /\ \A s \in m.sigs : s.by = m.from /\ s.k = m.bestk /\ s.mask = m.bestmask /\ s.by \in s.mask
  /\ \A s \in m.sigs : Carries(D, s)
  /\ OneEach(m.sigs)

(* A transaction of the destination chain is valid if its signers are on   *)
(* one branch; one of the source chain has such signers, and is refused    *)
(* only if the data has moved.                                             *)
Explained(D, t) ==
  /\ t.coin = "dest" => (t.valid <=> OneBranch(D, t.mask, t.hashmsg))
  /\ t.coin = "src" => OneBranch(D, t.mask, t.hashmsg) /\ (t.valid \/ D.data # {1})

(* The merkle data the daemons have had, and the notaries' blocks.         *)
Moved == \E n \in Notary : pax[n] # 1
Data == [data |-> IF Moved THEN Nat ELSE {1}, hash |-> [n \in Notary |-> bp[n].hashmsg]]

Tally ==
  /\ \A n \in Notary : pax[n] # 0
  /\ \A n \in Notary : Tallied(Data, bp[n])
  /\ \A m \in bus : Plain(Data, m)
  /\ \A t \in submitted : Explained(Data, t)

-----------------------------------------------------------------------------
(* Elections leave the tally alone.                                        *)

SameTally(b, c) ==
  /\ c.myind = b.myind
  /\ c.hashmsg = b.hashmsg
  /\ c.desttxid = b.desttxid
  /\ c.sigs = b.sigs
  /\ c.sigsmasks = b.sigsmasks
  /\ c.pendingbestk = b.pendingbestk
  /\ c.pendingbestmask = b.pendingbestmask
  /\ b.bestmask # {} => c.bestmask # {}

LEMMA TalliedFrame ==
  ASSUME NEW D, NEW b, NEW c, Tallied(D, b), SameTally(b, c)
  PROVE  Tallied(D, c)
BY DEF Tallied, SameTally, BitsRight

LEMMA ElectTally ==
  ASSUME NEW b \in Block, NEW E \in SUBSET Notary, b.bestmask = {}
  PROVE  SameTally(b, Elect(b, E))
<1>1. CASE FirstSigners(E) = {}
  BY <1>1 DEF Elect, Block, SameTally
<1>2. CASE FirstSigners(E) # {}
  <2> DEFINE f == CHOOSE f \in FirstSigners(E) : TRUE
  <2>1. Elect(b, E) = [b EXCEPT !.bestmask = f.mask, !.bestk = f.k]
    BY <1>2 DEF Elect
  <2> HIDE DEF f
  <2> QED BY <2>1 DEF Block, SameTally
<1> QED BY <1>1, <1>2

LEMMA EntryTally ==
  ASSUME NEW b \in Block, NEW i \in Notary, NEW e
  PROVE  SameTally(b, [b EXCEPT !.notaries[i] = e])
BY DEF Block, SameTally

LEMMA AdoptTally ==
  ASSUME NEW b \in Block, NEW p \in Better(b)
  PROVE  SameTally(b, Adopt(b, p))
<1>1. p.mask # {}
  <2>1. Cardinality(p.mask) = MinSigs
    BY DEF Better, Proposals
  <2> QED BY <2>1, FS_EmptySet, RoundAssumption
<1> DEFINE x == Cardinality(Proposers(b, p))
           y == Cardinality(Backers(b, p))
           me == [b.notaries[b.myind] EXCEPT !.bestmask = p.mask, !.bestk = p.k]
<1>2. Adopt(b, p) = [b EXCEPT !.matches = x, !.bestmatches = y, !.bestmask = p.mask,
                              !.bestk = p.k, !.notaries[b.myind] = me]
  BY DEF Adopt
<1> HIDE DEF x, y, me
<1> QED BY <1>1, <1>2 DEF Block, SameTally

LEMMA BestConsensusTally ==
  ASSUME NEW b \in Block, Sized(b.bestmask)
  PROVE  SameTally(b, BestConsensus(b))
<1> DEFINE a == IF Better(b) = {} THEN b ELSE Adopt(b, CHOOSE p \in Better(b) : TRUE)
           h == [a EXCEPT !.recvmask = @ \cup Known(b)]
<1>1. a \in Block /\ SameTally(b, a)
  <2>1. CASE Better(b) = {}
    BY <2>1 DEF SameTally
  <2>2. CASE Better(b) # {}
    BY <2>2, AdoptType, AdoptTally
  <2> QED BY <2>1, <2>2
<1>2. BestConsensus(b) = IF h.bestmask = {} THEN NotaryBestK(h) ELSE h
  BY DEF BestConsensus
<1> HIDE DEF a
<1>3. h \in Block /\ SameTally(b, h)
  BY <1>1 DEF Block, SameTally, Known
<1> HIDE DEF h
<1>4. CASE h.bestmask = {}
  <2> DEFINE E == {k \in Known(h) :
                     /\ h.notaries[k].paxwdcrc = h.paxwdcrc
                     /\ Cardinality({z \in Notary : k \in h.notaries[z].recvmask}) >= N \div 2}
  <2>1. E \in SUBSET Notary /\ NotaryBestK(h) = Elect(h, E)
    BY DEF Known, NotaryBestK
  <2> HIDE DEF E
  <2>2. SameTally(h, NotaryBestK(h))
    BY <1>3, <1>4, <2>1, ElectTally
  <2> QED BY <1>2, <1>3, <1>4, <2>2 DEF SameTally
<1>5. CASE h.bestmask # {}
  BY <1>2, <1>3, <1>5
<1> QED BY <1>4, <1>5

(* An election that recomputes the bits finds no signature: the notary has *)
(* elected nobody yet, so it has committed to nobody and holds none.       *)
LEMMA MaskMinTally ==
  ASSUME NEW b \in Block, b.bestmask = {}, b.sigs = {}
  PROVE  SameTally(b, MaskMin(b))
<1> DEFINE E == {k \in Known(b) : b.notaries[k].paxwdcrc = b.paxwdcrc}
           d == [b EXCEPT !.bestk = None, !.recvmask = @ \cup E]
           e == Elect(d, E)
           held(c, k) == IF k = e.bestk THEN {i \in Notary : HasSig(b, c, i, k)} ELSE {}
           x == [c \in Coin |-> [k \in Notary |-> b.sigsmasks[c][k] \cup held(c, k)]]
<1>1. E \in SUBSET Notary
  BY DEF Known
<1>2. d \in Block /\ SameTally(b, d) /\ d.bestmask = {}
  BY <1>1 DEF Block, SameTally
<1>3. SameTally(d, e) /\ e \in Block
  BY <1>1, <1>2, ElectTally, ElectType
<1>4. MaskMin(b) = [e EXCEPT !.sigsmasks = x]
  BY DEF MaskMin
<1>5. x = b.sigsmasks
  <2>1. b.sigsmasks \in [Coin -> [Notary -> SUBSET Notary]]
    BY DEF Block
  <2>2. ASSUME NEW c \in Coin, NEW k \in Notary PROVE held(c, k) = {}
    BY DEF HasSig
  <2>3. ASSUME NEW c \in Coin
        PROVE  [k \in Notary |-> b.sigsmasks[c][k] \cup held(c, k)] = b.sigsmasks[c]
    <3>1. ASSUME NEW k \in Notary PROVE b.sigsmasks[c][k] \cup held(c, k) = b.sigsmasks[c][k]
      BY <2>2
    <3> HIDE DEF held
    <3> QED BY <2>1, <3>1
  <2> HIDE DEF held
  <2> QED BY <2>1, <2>3
<1> HIDE DEF d, e, x
<1> QED BY <1>2, <1>3, <1>4, <1>5 DEF SameTally, Block

-----------------------------------------------------------------------------
(* What is learnt and collected from a snapshot.                           *)

LEMMA LearnTally ==
  ASSUME NEW b \in Block, NEW m \in Snapshot, NEW D, Tallied(D, b), Sized(b.bestmask)
  PROVE  SameTally(b, Learn(b, m))
<1> DEFINE e == b.notaries[m.from]
           sender == [e EXCEPT !.utxo = TRUE,
                               !.bestmask = IF m.bestmask = {} THEN @ ELSE m.bestmask,
                               !.recvmask = @ \cup m.recvmask,
                               !.paxwdcrc = m.paxwdcrc]
           me == [b.notaries[b.myind] EXCEPT !.paxwdcrc = b.paxwdcrc]
           b1 == [b EXCEPT !.notaries[m.from] = sender, !.notaries[b.myind] = me]
           b2 == [b1 EXCEPT !.recvmask = @ \cup {m.from, b.myind}]
<1>1. /\ m.from \in Notary /\ m.bestmask \in SUBSET Notary
      /\ m.recvmask \in SUBSET Notary /\ m.paxwdcrc \in Nat
      /\ b.notaries \in [Notary -> Entry] /\ b.myind \in Notary /\ b.paxwdcrc \in Nat
  BY DEF Snapshot, Block
<1>2. sender \in Entry
  <2>1. e \in Entry
    BY <1>1
  <2> HIDE DEF e
  <2> QED BY <1>1, <2>1 DEF Entry
<1>3. me \in Entry
  <2>1. ASSUME NEW x \in Entry PROVE [x EXCEPT !.paxwdcrc = b.paxwdcrc] \in Entry
    BY <1>1 DEF Entry
  <2> QED BY <1>1, <2>1
<1>4. Learn(b, m) = IF b.bestmask # {} THEN b1 ELSE MaskMin(b2)
  BY DEF Learn
<1>5. b1 \in Block /\ SameTally(b, b1) /\ b1.bestmask = b.bestmask
  <2> DEFINE x == [b.notaries EXCEPT ![m.from] = sender]
             y == [x EXCEPT ![b.myind] = me]
  <2> HIDE DEF sender, me
  <2>1. x \in [Notary -> Entry]
    BY <1>1, <1>2
  <2> HIDE DEF x
  <2>2. y \in [Notary -> Entry]
    BY <1>1, <1>3, <2>1
  <2> HIDE DEF y
  <2>3. b1 = [b EXCEPT !.notaries = y]
    BY DEF x, y, Block
  <2> HIDE DEF b1
  <2> QED BY <2>2, <2>3 DEF Block, SameTally
<1> HIDE DEF b1
<1>6. b2 \in Block /\ SameTally(b1, b2) /\ b2.bestmask = b1.bestmask
  BY <1>1, <1>5 DEF Block, SameTally
<1> HIDE DEF b2
<1>7. CASE b.bestmask = {}
  <2>1. b2.sigs = {}
    BY <1>5, <1>6, <1>7 DEF Tallied, SameTally
  <2> QED BY <1>4, <1>5, <1>6, <1>7, <2>1, MaskMinTally DEF SameTally
<1> QED BY <1>4, <1>5, <1>7

LEMMA MirrorTally ==
  ASSUME NEW b \in Block
  PROVE  SameTally(b, Mirror(b))
BY EntryTally DEF Mirror, Block

(* A signature that comes in is kept only under the index this notary is   *)
(* committed to, and its bit is set only for the set it is committed to.   *)
LEMMA CollectTally ==
  ASSUME NEW b \in Block, NEW m \in Snapshot, m.from # b.myind,
         NEW D, Tallied(D, b), Plain(D, m)
  PROVE  Tallied(D, Collect(b, m))
<1> DEFINE sender == [b.notaries[m.from] EXCEPT !.bestk = m.bestk]
           b1 == [b EXCEPT !.notaries[m.from] = sender]
           fresh == Fresh(b, m)
           bits(c, k) == IF k # m.bestk \/ (\A s \in fresh : s.coin # c) THEN b.sigsmasks[c][k]
                         ELSE IF Agrees(b, m) THEN b.sigsmasks[c][k] \cup {m.from}
                         ELSE b.sigsmasks[c][k] \ {m.from}
           sm == [c \in Coin |-> [k \in Notary |-> bits(c, k)]]
           b2 == [b1 EXCEPT !.sigs = @ \cup fresh, !.sigsmasks = sm]
<1>1. Collect(b, m) = IF m.bestk = None /\ b.notaries[m.from].bestk # None THEN b
                      ELSE IF b.pendingbestk # m.bestk \/ b.pendingbestmask # b.bestmask THEN b1
                      ELSE b2
  BY DEF Collect
<1>2. SameTally(b, b1) /\ Tallied(D, b1)
  <2>1. SameTally(b, b1)
    BY EntryTally DEF Snapshot
  <2> QED BY <2>1, TalliedFrame
<1>3. CASE b.pendingbestk = m.bestk /\ b.pendingbestmask = b.bestmask
  <2>1. m.sigs \subseteq Signature /\ m.from \in Notary
    BY DEF Snapshot
  <2>2. ASSUME NEW s \in fresh
        PROVE  /\ s \in m.sigs /\ ~HasSig(b, s.coin, m.from, m.bestk)
               /\ s.by = m.from /\ s.k = m.bestk /\ s.mask = m.bestmask
               /\ s.by \in s.mask /\ Carries(D, s) /\ s \in Signature
    BY <2>1 DEF Fresh, Plain
  <2>3. b.pendingbestk = None => fresh = {}
    BY <1>3, <2>2 DEF Signature, None, Notary
  <2>4. OneEach(b.sigs \cup fresh)
    <3> SUFFICES ASSUME NEW s \in b.sigs \cup fresh, NEW t \in b.sigs \cup fresh,
                        s.coin = t.coin, s.by = t.by, s.k = t.k
                 PROVE  s = t
      BY DEF OneEach
    <3>1. CASE s \in b.sigs /\ t \in b.sigs
      BY <3>1 DEF Tallied, OneEach
    <3>2. CASE s \in fresh /\ t \in fresh
      BY <2>2, <3>2 DEF Plain, OneEach
    <3>3. ASSUME NEW u \in fresh, NEW v \in b.sigs, u.coin = v.coin, u.by = v.by, u.k = v.k
          PROVE  FALSE
      BY <2>2, <3>3 DEF HasSig
    <3> QED BY <3>1, <3>2, <3>3
  <2>5. /\ b2.myind = b.myind
        /\ b2.hashmsg = b.hashmsg
        /\ b2.desttxid = b.desttxid
        /\ b2.bestmask = b.bestmask
        /\ b2.pendingbestk = b.pendingbestk
        /\ b2.pendingbestmask = b.pendingbestmask
        /\ b2.sigs = b.sigs \cup fresh
        /\ b2.sigsmasks = sm
    BY DEF Block
  <2>6. ASSUME NEW c \in Coin, NEW k \in Notary, NEW i \in bits(c, k)
        PROVE  /\ k = b.pendingbestk
               /\ i \in b.pendingbestmask
               /\ \E s \in b.sigs \cup fresh :
                    s.coin = c /\ s.by = i /\ s.k = k /\ s.mask = b.pendingbestmask
    <3>1. CASE i \in b.sigsmasks[c][k]
      BY <3>1 DEF Tallied, BitsRight
    <3>2. CASE i \notin b.sigsmasks[c][k]
      <4>1. /\ k = m.bestk /\ Agrees(b, m) /\ i = m.from
            /\ \E s \in fresh : s.coin = c
        BY <2>6, <3>2
      <4>2. PICK s \in fresh : s.coin = c
        BY <4>1
      <4>3. s.by = i /\ s.k = k /\ s.mask = b.pendingbestmask
        BY <1>3, <2>2, <4>1, <4>2 DEF Agrees
      <4>4. i \in b.pendingbestmask
        BY <1>3, <2>2, <4>1, <4>2, <4>3
      <4> QED BY <1>3, <4>1, <4>2, <4>3, <4>4
    <3> QED BY <3>1, <3>2
  <2>7. BitsRight(b2)
    <3> HIDE DEF b2, bits, fresh
    <3> SUFFICES ASSUME NEW c \in Coin, NEW k \in Notary, NEW i \in b2.sigsmasks[c][k]
                 PROVE  /\ k = b.pendingbestk
                        /\ i \in b.pendingbestmask
                        /\ \E s \in b.sigs \cup fresh :
                             s.coin = c /\ s.by = i /\ s.k = k /\ s.mask = b.pendingbestmask
      BY <2>5 DEF BitsRight
    <3>1. i \in bits(c, k)
      BY <2>5
    <3> QED BY <2>6, <3>1
  <2> HIDE DEF b2, fresh, sm
  <2>8. Tallied(D, b2)
    BY <2>2, <2>3, <2>4, <2>5, <2>7 DEF Tallied
  <2> QED BY <1>1, <1>2, <1>3, <2>8
<1>4. CASE ~(b.pendingbestk = m.bestk /\ b.pendingbestmask = b.bestmask)
  <2> HIDE DEF b1, b2
  <2> QED BY <1>1, <1>2, <1>4
<1> QED BY <1>3, <1>4

-----------------------------------------------------------------------------
(* Sending, signing and publishing.  The works below are sound, which      *)
(* gives their types, and Clean: the tally of the block is right, and what *)
(* goes out is plain.                                                      *)

Clean(D, w) ==
  /\ Tallied(D, w.b)
  /\ \A m \in w.out : Plain(D, m)
  /\ \A t \in w.txs : Explained(D, t)

LEMMA OutgoingPlain ==
  ASSUME NEW b \in Block, NEW D, Tallied(D, b)
  PROVE  Plain(D, Outgoing(b))
<1> DEFINE me == b.notaries[b.myind]
           best == IF b.pendingbestmask # {} THEN [k |-> b.pendingbestk, mask |-> b.pendingbestmask]
                   ELSE IF me.bestmask # {} THEN Proposal(b, b.myind)
                   ELSE [k |-> b.bestk, mask |-> b.bestmask]
           r == IF b.recvmask = {} THEN me.recvmask ELSE b.recvmask
           g == {s \in b.sigs : s.by = b.myind /\ s.k = IF b.pendingbestk # None THEN b.pendingbestk ELSE best.k}
           o == [from |-> b.myind, utxo |-> me.utxo, paxwdcrc |-> b.paxwdcrc, recvmask |-> r,
                 bestmask |-> best.mask, bestk |-> best.k, sigs |-> g]
<1>1. Outgoing(b) = o
  BY DEF Outgoing
<1>2. CASE b.pendingbestk = None
  <2>1. g = {}
    BY <1>2 DEF Tallied
  <2> QED BY <1>1, <2>1 DEF Plain, OneEach
<1>3. CASE b.pendingbestk # None
  <2>1. best.k = b.pendingbestk /\ best.mask = b.pendingbestmask
    BY <1>3 DEF Tallied
  <2> HIDE DEF best
  <2>2. ASSUME NEW s \in g
        PROVE  /\ s.by = b.myind /\ s.k = best.k /\ s.mask = best.mask
               /\ s.by \in s.mask /\ Carries(D, s) /\ s \in b.sigs
    BY <1>3, <2>1 DEF Tallied
  <2>3. OneEach(g)
    BY <2>2 DEF Tallied, OneEach
  <2> HIDE DEF g
  <2> QED BY <1>1, <2>2, <2>3 DEF Plain
<1> QED BY <1>2, <1>3

LEMMA CleanFrame ==
  ASSUME NEW D, NEW w \in Work, Clean(D, w), NEW c, SameTally(w.b, c)
  PROVE  Clean(D, [w EXCEPT !.b = c])
<1>1. Tallied(D, c)
  BY TalliedFrame DEF Clean
<1> QED BY <1>1 DEF Clean, Work

LEMMA SendClean ==
  ASSUME NEW b0, NEW S, NEW D, NEW w, Sound(b0, S, w), Clean(D, w), NEW data \in Nat
  PROVE  Clean(D, Send(w, data)) /\ SameTally(w.b, Send(w, data).b)
<1> DEFINE me == [w.b.notaries[w.b.myind] EXCEPT !.paxwdcrc = data]
           d == [w.b EXCEPT !.paxwdcrc = data, !.notaries[w.b.myind] = me]
           c == BestConsensus(d)
           v == [w EXCEPT !.b = c]
           u == [w EXCEPT !.b = c, !.out = @ \cup {Outgoing(c)}]
<1>1. w.b \in Block /\ Sized(w.b.bestmask) /\ w \in Work
  BY DEF Sound, Good, Work
<1>2. me \in Entry
  <2>1. w.b.notaries \in [Notary -> Entry] /\ w.b.myind \in Notary
    BY <1>1 DEF Block
  <2>2. ASSUME NEW e \in Entry PROVE [e EXCEPT !.paxwdcrc = data] \in Entry
    BY DEF Entry
  <2> QED BY <2>1, <2>2
<1>3. Send(w, data) = u
  BY DEF Send
<1> HIDE DEF me
<1>4. d \in Block /\ SameTally(w.b, d) /\ Sized(d.bestmask)
  BY <1>1, <1>2 DEF Block, SameTally
<1> HIDE DEF d
<1>5. c \in Block /\ SameTally(d, c)
  BY <1>4, BestConsensusType, BestConsensusTally
<1> HIDE DEF c
<1>6. SameTally(w.b, c)
  BY <1>4, <1>5 DEF SameTally
<1>7. Clean(D, v) /\ v.b = c /\ v.out = w.out /\ v.txs = w.txs
  BY <1>1, <1>6, CleanFrame DEF Work
<1>8. Plain(D, Outgoing(c))
  BY <1>5, <1>7, OutgoingPlain DEF Clean
<1>9. u.b = c /\ u.out = w.out \cup {Outgoing(c)} /\ u.txs = w.txs
  BY <1>1 DEF Work
<1> HIDE DEF u, v
<1> QED BY <1>3, <1>6, <1>7, <1>8, <1>9 DEF Clean

(* Signing replaces what the notary had signed under that index.           *)
LEMMA SignTally ==
  ASSUME NEW b \in Block, NEW D, Tallied(D, b), b.pendingbestk # None,
         NEW g \in Signature, g.by = b.myind, g.k = b.pendingbestk,
         g.mask = b.pendingbestmask, g.by \in g.mask, Carries(D, g)
  PROVE  Tallied(D, Sign(b, g))
<1> DEFINE mask == b.sigsmasks[g.coin][g.k] \cup {g.by}
           x == {s \in b.sigs : s.coin # g.coin \/ s.by # g.by \/ s.k # g.k} \cup {g}
           row == [b.sigsmasks[g.coin] EXCEPT ![g.k] = mask]
           sm == [b.sigsmasks EXCEPT ![g.coin] = row]
<1>1. g.coin \in Coin /\ g.k \in Notary
      /\ b.sigsmasks \in [Coin -> [Notary -> SUBSET Notary]]
  BY DEF Signature, Block
<1>2. /\ Sign(b, g).myind = b.myind
      /\ Sign(b, g).hashmsg = b.hashmsg
      /\ Sign(b, g).desttxid = b.desttxid
      /\ Sign(b, g).bestmask = b.bestmask
      /\ Sign(b, g).pendingbestk = b.pendingbestk
      /\ Sign(b, g).pendingbestmask = b.pendingbestmask
      /\ Sign(b, g).sigs = x
      /\ Sign(b, g).sigsmasks = sm
  <2> DEFINE c == [b EXCEPT !.sigs = x]
             sc == [c.sigsmasks EXCEPT ![g.coin] = [c.sigsmasks[g.coin] EXCEPT ![g.k] = mask]]
  <2>1. Sign(b, g) = [c EXCEPT !.sigsmasks = sc]
    BY DEF Sign
  <2>2. c.sigsmasks = b.sigsmasks
    BY DEF Block
  <2>3. sc = sm
    BY <2>2
  <2> HIDE DEF sc, x, sm
  <2> QED BY <2>1, <2>3 DEF Block
<1>3. OneEach(x)
  BY DEF Tallied, OneEach
<1>4. ASSUME NEW c \in Coin, NEW k \in Notary, NEW i \in sm[c][k]
      PROVE  /\ k = b.pendingbestk
             /\ i \in b.pendingbestmask
             /\ \E s \in x : s.coin = c /\ s.by = i /\ s.k = k /\ s.mask = b.pendingbestmask
  <2>1. CASE c = g.coin /\ k = g.k /\ i = g.by
    BY <2>1
  <2>2. CASE ~(c = g.coin /\ k = g.k /\ i = g.by)
    <3>1. i \in b.sigsmasks[c][k]
      BY <1>1, <1>4, <2>2
    <3>2. PICK s \in b.sigs : s.coin = c /\ s.by = i /\ s.k = k /\ s.mask = b.pendingbestmask
      BY <3>1 DEF Tallied, BitsRight
    <3>3. s \in x
      BY <2>2, <3>2
    <3> HIDE DEF x
    <3> QED BY <3>1, <3>2, <3>3 DEF Tallied, BitsRight
  <2> QED BY <2>1, <2>2
<1>5. BitsRight(Sign(b, g))
  <2> HIDE DEF x, sm
  <2> QED BY <1>2, <1>4 DEF BitsRight
<1>6. \A s \in x : s = g \/ s \in b.sigs
  OBVIOUS
<1> HIDE DEF x, sm
<1> QED BY <1>2, <1>3, <1>5, <1>6 DEF Tallied

LEMMA SignedTxGenClean ==
  ASSUME NEW b0, NEW S, NEW D, NEW w, Sound(b0, S, w), Clean(D, w), w.b.pendingbestk # None,
         NEW coin \in Coin, NEW data \in Nat \cap D.data, NEW signed \in BOOLEAN
  PROVE  Clean(D, SignedTxGen(w, coin, data, signed))
<1> DEFINE b == w.b
           sig == [coin |-> coin, by |-> b.myind, k |-> b.pendingbestk, mask |-> b.pendingbestmask,
                   hashmsg |-> b.hashmsg, pax |-> Merkle(coin, data)]
           c == Sign(b, sig)
           v == [w EXCEPT !.b = c]
<1>1. b \in Block /\ w \in Work /\ b.pendingbestk \in Notary
  BY DEF Sound, Work, Block
<1>2. CASE ~(signed /\ Buildable(b, coin) /\ b.myind \in b.pendingbestmask)
  BY <1>2 DEF SignedTxGen
<1>3. CASE signed /\ Buildable(b, coin) /\ b.myind \in b.pendingbestmask
  <2>1. SignedTxGen(w, coin, data, signed) = Send(v, data)
    BY <1>3 DEF SignedTxGen
  <2>2. sig \in Signature /\ Carries(D, sig)
    <3>1. b.hashmsg = D.hash[b.myind]
      BY DEF Clean, Tallied
    <3> QED BY <1>1, <3>1, MerkleType DEF Block, Signature, Carries, Merkle
  <2>3. Mine(b, sig)
    BY <1>3 DEF Mine, CommittedTo, Buildable, Sound, Good
  <2>4. Tallied(D, c)
    <3>1. /\ sig.by = b.myind /\ sig.k = b.pendingbestk
          /\ sig.mask = b.pendingbestmask /\ sig.by \in sig.mask
      BY <1>3
    <3> HIDE DEF sig
    <3> QED BY <1>1, <2>2, <3>1, SignTally DEF Clean
  <2> HIDE DEF sig
  <2>5. /\ c \in Block
        /\ c.sigs \subseteq b.sigs \cup {sig}
        /\ c.myind = b.myind
        /\ c.hashmsg = b.hashmsg
        /\ c.bestmask = b.bestmask
        /\ c.pendingbestk = b.pendingbestk
        /\ c.pendingbestmask = b.pendingbestmask
        /\ c.desttxid = b.desttxid
    BY <1>1, <2>2, SignType
  <2> HIDE DEF c
  <2>6. v \in Work /\ v.b = c /\ v.out = w.out /\ v.txs = w.txs
    BY <1>1, <2>5 DEF Work
  <2> HIDE DEF v
  <2>7. Clean(D, v)
    BY <2>4, <2>6 DEF Clean
  <2>8. Sound(b0, S, v)
    <3>1. \A s : Mine(b, s) => Mine(c, s)
      BY <2>5 DEF Mine, CommittedTo
    <3>2. \A t, i : Stands(S, b, t, i) => Stands(S, c, t, i)
      BY <2>5 DEF Stands
    <3>3. Grows(b0, c) /\ Good(c)
      BY <2>5 DEF Sound, Grows, Good
    <3> QED BY <2>3, <2>5, <2>6, <3>1, <3>2, <3>3 DEF Sound
  <2> QED BY <2>1, <2>7, <2>8, SendClean
<1> QED BY <1>2, <1>3

(* A work that changes the fate of its block and nothing of the tally.     *)
LEMMA FateClean ==
  ASSUME NEW D, NEW w \in Work, Clean(D, w), NEW x
  PROVE  /\ Clean(D, [w EXCEPT !.b.state = x])
         /\ Clean(D, [w EXCEPT !.b.srctxid = x])
<1>1. w.b \in Block
  BY DEF Work
<1>2. /\ SameTally(w.b, [w.b EXCEPT !.state = x])
      /\ SameTally(w.b, [w.b EXCEPT !.srctxid = x])
  BY <1>1 DEF Block, SameTally
<1>3. /\ [w EXCEPT !.b.state = x] = [w EXCEPT !.b = [w.b EXCEPT !.state = x]]
      /\ [w EXCEPT !.b.srctxid = x] = [w EXCEPT !.b = [w.b EXCEPT !.srctxid = x]]
  OBVIOUS
<1> QED BY <1>2, <1>3, CleanFrame

(* The txid of the destination chain is of signers on one branch.          *)
LEMMA DestTxidClean ==
  ASSUME NEW D, NEW w \in Work, Clean(D, w), NEW x, OneBranch(D, x, w.b.hashmsg)
  PROVE  Clean(D, [w EXCEPT !.b.desttxid = x])
<1> DEFINE c == [w.b EXCEPT !.desttxid = x]
           v == [w EXCEPT !.b = c]
<1>1. w.b \in Block
  BY DEF Work
<1>2. [w EXCEPT !.b.desttxid = x] = v
  OBVIOUS
<1>3. /\ c.myind = w.b.myind /\ c.hashmsg = w.b.hashmsg /\ c.desttxid = x
      /\ c.sigs = w.b.sigs /\ c.sigsmasks = w.b.sigsmasks
      /\ c.pendingbestk = w.b.pendingbestk /\ c.pendingbestmask = w.b.pendingbestmask
      /\ c.bestmask = w.b.bestmask
  BY <1>1 DEF Block
<1> HIDE DEF c
<1>4. Tallied(D, c)
  BY <1>3 DEF Clean, Tallied, BitsRight
<1>5. v.b = c /\ v.out = w.out /\ v.txs = w.txs
  BY DEF Work
<1> HIDE DEF v
<1> QED BY <1>2, <1>4, <1>5 DEF Clean

LEMMA PublishedClean ==
  ASSUME NEW b0, NEW S, NEW D, NEW w, Sound(b0, S, w), Clean(D, w), w.b.pendingbestk # None,
         NEW coin \in Coin, NEW data \in Nat \cap D.data, NEW signed \in BOOLEAN,
         \E t \in w.txs : t.coin = coin /\ t.accepted /\ t.mask = w.b.pendingbestmask,
         OneBranch(D, w.b.pendingbestmask, w.b.hashmsg)
  PROVE  Clean(D, Published(w, coin, data, signed))
<1> DEFINE done == IF coin = "dest" THEN DestDone ELSE Ended
           d == [w EXCEPT !.b.desttxid = w.b.pendingbestmask]
           x == SignedTxGen(d, "src", data, signed)
           y == [w EXCEPT !.b.srctxid = w.b.pendingbestmask]
           w1 == IF coin = "dest" THEN x ELSE y
           w2 == [w1 EXCEPT !.b.state = done]
<1>1. w.b.pendingbestmask \in SUBSET Notary /\ w \in Work
  BY DEF Sound, Work, Block
<1>2. Sound(b0, S, w1) /\ Clean(D, w1)
  <2>1. CASE coin = "dest"
    <3>1. Sound(b0, S, d) /\ d.b.pendingbestk # None
      BY <2>1, SoundDestTxid
    <3>2. Clean(D, d)
      BY <1>1, DestTxidClean
    <3> HIDE DEF d
    <3>3. Sound(b0, S, x) /\ Clean(D, x)
      BY <3>1, <3>2, SignedTxGenSound, SignedTxGenClean DEF Coin
    <3> HIDE DEF x
    <3> QED BY <2>1, <3>3
  <2>2. CASE coin = "src"
    <3>1. Sound(b0, S, y) /\ Clean(D, y)
      BY <1>1, SoundSrcTxid, FateClean
    <3> HIDE DEF y
    <3> QED BY <2>2, <3>1
  <2> QED BY <2>1, <2>2 DEF Coin
<1>3. Published(w, coin, data, signed) = IF w1.b.state < done THEN Send(w2, data) ELSE w1
  BY DEF Published
<1>4. done \in {Idle, Active, DestDone, Ended}
  BY DEF DestDone, Ended
<1> HIDE DEF w1, done
<1>5. Sound(b0, S, w2) /\ Clean(D, w2)
  <2>1. w1 \in Work
    BY <1>2 DEF Sound
  <2>2. Sound(b0, S, w2)
    BY <1>2, <1>4, SoundState
  <2> QED BY <1>2, <2>1, <2>2, FateClean
<1> HIDE DEF w2
<1> QED BY <1>2, <1>3, <1>5, SendClean

(* With the bits of all signers set, every signature that goes into the    *)
(* transaction is of the committed set and there is one of each signer:    *)
(* what may be wrong is a signer's branch, and merkle data that is old.    *)
LEMMA FullTallyVerifies ==
  ASSUME NEW D, NEW b \in Block, Tallied(D, b), b.pendingbestk # None,
         NEW coin \in Coin, NEW data \in Nat \cap D.data, AllSigs(b, coin)
  PROVE  /\ Verifies(b, coin, data) => OneBranch(D, b.pendingbestmask, b.hashmsg)
         /\ OneBranch(D, b.pendingbestmask, b.hashmsg) /\ (coin = "dest" \/ D.data = {1})
              => Verifies(b, coin, data)
<1>1. ASSUME NEW i \in b.pendingbestmask
      PROVE  \E t \in b.sigs : /\ t.coin = coin /\ t.by = i /\ t.k = b.pendingbestk
                               /\ t.mask = b.pendingbestmask
  <2>1. i \in b.sigsmasks[coin][b.pendingbestk] /\ b.pendingbestk \in Notary
    BY DEF AllSigs, Block
  <2> QED BY <2>1 DEF Tallied, BitsRight
<1>2. \A s \in b.sigs : Carries(D, s)
  BY DEF Tallied
<1>3. ASSUME Verifies(b, coin, data), NEW i \in b.pendingbestmask
      PROVE  D.hash[i] = b.hashmsg
  <2>1. PICK t \in b.sigs : t.coin = coin /\ t.by = i /\ t.k = b.pendingbestk
    BY <1>1
  <2> QED BY <1>2, <1>3, <2>1 DEF Verifies, Carries
<1>4. ASSUME OneBranch(D, b.pendingbestmask, b.hashmsg), coin = "dest" \/ D.data = {1},
             NEW s \in b.sigs, s.coin = coin, s.k = b.pendingbestk, s.by \in b.pendingbestmask
      PROVE  s.mask = b.pendingbestmask /\ s.hashmsg = b.hashmsg /\ s.pax = Merkle(coin, data)
  <2>1. PICK t \in b.sigs : /\ t.coin = coin /\ t.by = s.by /\ t.k = b.pendingbestk
                            /\ t.mask = b.pendingbestmask
    BY <1>1, <1>4
  <2>2. s = t
    BY <1>4, <2>1 DEF Tallied, OneEach
  <2>3. s.hashmsg = b.hashmsg
    BY <1>2, <1>4 DEF Carries, OneBranch
  <2>4. s.pax = Merkle(coin, data)
    BY <1>2, <1>4 DEF Carries, Merkle, Coin
  <2> QED BY <2>1, <2>2, <2>3, <2>4
<1> QED BY <1>3, <1>4 DEF Verifies, OneBranch

LEMMA SigsCheckClean ==
  ASSUME NEW b0, NEW S, NEW D, NEW w, Sound(b0, S, w), Clean(D, w), w.b.pendingbestk # None,
         NEW coin \in Coin, NEW data \in Nat \cap D.data, NEW signed \in BOOLEAN, NEW answer,
         AllSigs(w.b, coin)
  PROVE  Clean(D, SigsCheck(w, coin, data, signed, answer))
<1> DEFINE b == w.b
           held == {i \in b.pendingbestmask : HasSig(b, coin, i, b.pendingbestk)}
           valid == Verifies(b, coin, data)
           reply == IF valid THEN answer ELSE "reject"
           acc == reply \in {"ok", "mismatch", "lost"}
           tx == [coin |-> coin, mask |-> b.pendingbestmask, hashmsg |-> b.hashmsg,
                  pax |-> Merkle(coin, data), valid |-> valid, accepted |-> acc]
           w1 == [w EXCEPT !.b.state = Active]
           w2 == [w1 EXCEPT !.txs = @ \cup {tx}]
           w3 == [w2 EXCEPT !.b.state = Ended]
<1>1. SigsCheck(w, coin, data, signed, answer) =
        IF b.state = Ended THEN w
        ELSE IF ~Buildable(b, coin) \/ Cardinality(held) # MinSigs THEN w1
        ELSE IF Accepted(reply) THEN Published(w2, coin, data, signed)
        ELSE IF reply = "mismatch" THEN w2
        ELSE w3
  BY DEF SigsCheck
<1>2. b \in Block /\ w \in Work
  BY DEF Sound, Work
<1>3. Sound(b0, S, w1) /\ SameRound(b, w1.b) /\ Clean(D, w1)
  BY <1>2, SoundState, FateClean DEF Active
<1>4. CASE b.state = Ended
  BY <1>1, <1>4
<1>5. CASE b.state # Ended /\ (~Buildable(b, coin) \/ Cardinality(held) # MinSigs)
  <2> HIDE DEF held, w1
  <2> QED BY <1>1, <1>3, <1>5
<1>6. CASE b.state # Ended /\ Buildable(b, coin) /\ Cardinality(held) = MinSigs
  <2>1. /\ w1.b.pendingbestk = b.pendingbestk
        /\ w1.b.hashmsg = b.hashmsg
        /\ w1.b.pendingbestmask = b.pendingbestmask
        /\ w1.b.sigs = b.sigs
    BY <1>3 DEF SameRound
  <2>2. Explained(D, tx)
    <3>1. /\ valid => OneBranch(D, b.pendingbestmask, b.hashmsg)
          /\ OneBranch(D, b.pendingbestmask, b.hashmsg) /\ (coin = "dest" \/ D.data = {1}) => valid
      BY <1>2, FullTallyVerifies DEF Clean
    <3>2. coin = "src" => OneBranch(D, b.pendingbestmask, b.hashmsg)
      <4>1. coin = "src" => b.desttxid = b.pendingbestmask
        BY <1>6 DEF Buildable, Sound, Good
      <4> QED BY <4>1 DEF Clean, Tallied
    <3> HIDE DEF valid
    <3> QED BY <3>1, <3>2 DEF Explained, Coin
  <2> HIDE DEF w1
  <2>3. Sound(b0, S, w2)
    <3>1. acc \in BOOLEAN /\ (acc => Verifies(w1.b, coin, data)) /\ w1.b.pendingbestk # None
      BY <2>1 DEF Verifies
    <3>2. tx = [coin |-> coin, mask |-> w1.b.pendingbestmask, hashmsg |-> w1.b.hashmsg,
                pax |-> Merkle(coin, data), valid |-> Verifies(w1.b, coin, data), accepted |-> acc]
      <4>1. Verifies(w1.b, coin, data) = valid
        BY <2>1 DEF Verifies
      <4> QED BY <2>1, <4>1
    <3>3. Cardinality({i \in w1.b.pendingbestmask : HasSig(w1.b, coin, i, w1.b.pendingbestk)}) = MinSigs
      <4>1. held = {i \in w1.b.pendingbestmask : HasSig(w1.b, coin, i, w1.b.pendingbestk)}
        BY <2>1 DEF HasSig
      <4> QED BY <1>6, <4>1
    <3> HIDE DEF tx, acc
    <3> QED BY <1>3, <3>1, <3>2, <3>3, SubmitSound
  <2>4. w2.b = w1.b /\ w2.out = w1.out /\ w2.txs = w1.txs \cup {tx}
    BY <1>3 DEF Sound, Work
  <2>5. Clean(D, w2)
    <3> HIDE DEF tx, w2
    <3> QED BY <1>3, <2>2, <2>4 DEF Clean
  <2>6. CASE Accepted(reply)
    <3>1. \E t \in w2.txs : t.coin = coin /\ t.accepted /\ t.mask = w2.b.pendingbestmask
      <4>1. tx.coin = coin /\ tx.accepted /\ tx.mask = w1.b.pendingbestmask
        BY <2>1, <2>6 DEF Accepted
      <4> HIDE DEF tx, w2
      <4> QED BY <2>4, <4>1
    <3>2. w2.b.pendingbestk # None
      BY <2>1, <2>4
    <3>3. OneBranch(D, w2.b.pendingbestmask, w2.b.hashmsg)
      <4>1. valid
        BY <2>6 DEF Accepted
      <4>2. OneBranch(D, b.pendingbestmask, b.hashmsg)
        BY <1>2, <4>1, FullTallyVerifies DEF Clean
      <4> HIDE DEF w2
      <4> QED BY <2>1, <2>4, <4>2
    <3> HIDE DEF w2
    <3>4. Clean(D, Published(w2, coin, data, signed))
      BY <2>3, <2>5, <3>1, <3>2, <3>3, PublishedClean
    <3> QED BY <1>1, <1>6, <2>6, <3>4
  <2>7. CASE ~Accepted(reply) /\ reply = "mismatch"
    <3> HIDE DEF w2, reply
    <3> QED BY <1>1, <1>6, <2>5, <2>7
  <2>8. CASE ~Accepted(reply) /\ reply # "mismatch"
    <3> HIDE DEF w2, reply
    <3>1. Clean(D, w3)
      BY <2>3, <2>5, FateClean DEF Sound
    <3> HIDE DEF w3
    <3> QED BY <1>1, <1>6, <2>8, <3>1
  <2> QED BY <2>6, <2>7, <2>8
<1> QED BY <1>4, <1>5, <1>6

LEMMA CommitClean ==
  ASSUME NEW b0, NEW S, NEW D, NEW w, Sound(b0, S, w), Clean(D, w),
         NEW data \in Nat \cap D.data, NEW signed \in BOOLEAN,
         w.b.bestk # None, w.b.bestmask # {}
  PROVE  Clean(D, Commit(w, data, signed))
<1> DEFINE b == w.b
           c == [b EXCEPT !.pendingbestk = b.bestk, !.pendingbestmask = b.bestmask]
           v == [w EXCEPT !.b = c]
<1>1. b \in Block /\ w \in Work
  BY DEF Sound, Work
<1>2. CASE ~Uncommitted(b)
  BY <1>2 DEF Commit
<1>3. CASE Uncommitted(b)
  <2>1. Commit(w, data, signed) = SignedTxGen(v, "dest", data, signed)
    BY <1>3 DEF Commit
  <2>2. /\ c \in Block
        /\ c.myind = b.myind
        /\ c.hashmsg = b.hashmsg
        /\ c.sigs = b.sigs
        /\ c.sigsmasks = b.sigsmasks
        /\ c.desttxid = b.desttxid
        /\ c.bestmask = b.bestmask
        /\ c.pendingbestk = b.bestk
        /\ c.pendingbestmask = b.bestmask
    BY <1>1 DEF Block
  <2> HIDE DEF c
  <2>3. b.sigs = {} /\ \A k \in Coin, i \in Notary : b.sigsmasks[k][i] = {}
    BY <1>3 DEF Uncommitted, Clean, Tallied, BitsRight, None, Notary
  <2>4. v \in Work /\ v.b = c /\ v.out = w.out /\ v.txs = w.txs
    BY <1>1, <2>2 DEF Work
  <2> HIDE DEF v
  <2>5. Tallied(D, c)
    BY <2>2, <2>3 DEF Clean, Tallied, BitsRight, OneEach
  <2>6. Clean(D, v)
    BY <2>4, <2>5 DEF Clean
  <2>7. Sound(b0, S, v)
    <3>1. Good(c) /\ Grows(b0, c)
      BY <1>3, <2>2 DEF Sound, Good, Grows, Uncommitted
    <3>2. \A s \in Signature : ~Mine(b, s)
      BY <1>3 DEF Uncommitted, Mine, CommittedTo, Signature, None, Notary
    <3>3. b.sigs \subseteq Signature /\ \A o \in w.out : o.sigs \subseteq Signature
      BY <1>1 DEF Block, Work, Snapshot
    <3>4. \A t, i : Stands(S, b, t, i) => Stands(S, c, t, i)
      BY <1>3 DEF Stands, Uncommitted
    <3> QED BY <2>2, <2>4, <3>1, <3>2, <3>3, <3>4 DEF Sound
  <2> QED BY <1>1, <2>1, <2>2, <2>4, <2>6, <2>7, SignedTxGenClean DEF Coin
<1> QED BY <1>2, <1>3

LEMMA CoSignClean ==
  ASSUME NEW b0, NEW S, NEW D, NEW w, Sound(b0, S, w), Clean(D, w), w.b.pendingbestk # None,
         NEW data \in Nat \cap D.data, NEW signed \in BOOLEAN
  PROVE  Clean(D, CoSign(w, data, signed))
BY SignedTxGenClean DEF CoSign, Coin

LEMMA PublishClean ==
  ASSUME NEW b0, NEW S, NEW D, NEW w, Sound(b0, S, w), Clean(D, w), w.b.pendingbestk # None,
         NEW data \in Nat \cap D.data, NEW signed \in BOOLEAN, NEW answer
  PROVE  Clean(D, Publish(w, data, signed, answer))
<1> DEFINE w1 == IF w.b.state < DestDone THEN SigsCheck(w, "dest", data, signed, answer["dest"]) ELSE w
<1>1. Publish(w, data, signed, answer) =
        IF ~AllSigs(w.b, "dest") THEN w
        ELSE IF AllSigs(w1.b, "src") THEN SigsCheck(w1, "src", data, signed, answer["src"]) ELSE w1
  BY DEF Publish
<1>2. CASE AllSigs(w.b, "dest")
  <2>1. Sound(b0, S, w1) /\ Grows(w.b, w1.b)
    BY SigsCheckSound DEF Coin, Grows
  <2>2. Clean(D, w1)
    BY <1>2, SigsCheckClean DEF Coin
  <2> HIDE DEF w1
  <2>3. CASE AllSigs(w1.b, "src")
    BY <1>1, <1>2, <2>1, <2>2, <2>3, SigsCheckClean DEF Coin, Grows
  <2> QED BY <1>1, <1>2, <2>2, <2>3
<1> QED BY <1>1, <1>2

-----------------------------------------------------------------------------
(* The handler.                                                            *)

LEMMA NotarizeUpdateClean ==
  ASSUME NEW D, NEW b \in Block, Good(b), Tallied(D, b),
         NEW m \in Snapshot, Plain(D, m), m.from # b.myind,
         NEW data \in Nat \cap D.data, NEW ping \in BOOLEAN, NEW signed \in BOOLEAN, NEW answer
  PROVE  Clean(D, NotarizeUpdate(b, m, data, ping, signed, answer))
<1> DEFINE S == b.sigs \cup m.sigs
           l == Learn(b, m)
           c == BestConsensus(l)
           r == Mirror(c)
           heard == Collect(r, m)
           w == [b |-> heard, out |-> {}, txs |-> {}]
           w1 == IF ping THEN Send(w, data) ELSE w
           w2 == Commit(w1, data, signed)
           w3 == CoSign(w2, data, signed)
           w4 == Publish(w3, data, signed, answer)
<1>1. NotarizeUpdate(b, m, data, ping, signed, answer) =
        IF heard.bestk = None THEN w
        ELSE IF Cardinality(Agreeing(heard)) # MinSigs \/ w1.b.bestk = None \/ w1.b.bestmask = {} THEN w1
        ELSE w4
  BY DEF NotarizeUpdate
<1>2. l \in Block /\ SameRound(b, l) /\ Sized(l.bestmask) /\ Tallied(D, l)
  BY LearnType, LearnTally, TalliedFrame DEF Good
<1> HIDE DEF l
<1>3. c \in Block /\ SameRound(l, c) /\ Sized(c.bestmask) /\ Tallied(D, c)
  BY <1>2, BestConsensusType, BestConsensusTally, TalliedFrame
<1> HIDE DEF c
<1>4. r \in Block /\ SameRound(c, r) /\ Sized(r.bestmask) /\ Tallied(D, r)
  BY <1>3, MirrorType, MirrorTally, TalliedFrame
<1> HIDE DEF r
<1>5. r.myind # m.from
  BY <1>2, <1>3, <1>4 DEF SameRound
<1>6. /\ heard \in Block
      /\ heard.myind = r.myind
      /\ heard.hashmsg = r.hashmsg
      /\ heard.bestmask = r.bestmask
      /\ heard.pendingbestk = r.pendingbestk
      /\ heard.pendingbestmask = r.pendingbestmask
      /\ heard.desttxid = r.desttxid
      /\ heard.sigs \subseteq r.sigs \cup m.sigs
      /\ Tallied(D, heard)
  BY <1>4, <1>5, CollectType, CollectTally
<1> HIDE DEF heard
<1>7. Grows(b, heard) /\ Good(heard) /\ heard.sigs \subseteq S /\ heard.desttxid = b.desttxid
  BY <1>2, <1>3, <1>4, <1>6 DEF SameRound, Grows, Good
<1>8. Sound(b, S, w) /\ Clean(D, w)
  BY <1>6, <1>7 DEF Sound, Work, Clean
<1> HIDE DEF S, w
<1>9. Sound(b, S, w1) /\ Clean(D, w1)
  BY <1>8, SendSound, SendClean
<1> HIDE DEF w1
<1>10. CASE w1.b.bestk # None /\ w1.b.bestmask # {}
  <2>1. Sound(b, S, w2) /\ w2.b.pendingbestk # None /\ Clean(D, w2)
    BY <1>9, <1>10, CommitSound, CommitClean
  <2> HIDE DEF w2
  <2>2. Sound(b, S, w3) /\ w3.b.pendingbestk # None /\ Clean(D, w3)
    BY <2>1, CoSignSound, CoSignClean
  <2> HIDE DEF w3
  <2>3. Clean(D, w4)
    BY <2>2, PublishClean
  <2> HIDE DEF w4
  <2> QED BY <1>1, <1>8, <1>9, <2>3
<1>11. CASE ~(w1.b.bestk # None /\ w1.b.bestmask # {})
  <2> HIDE DEF w4
  <2> QED BY <1>1, <1>8, <1>9, <1>11
<1> QED BY <1>10, <1>11

-----------------------------------------------------------------------------
(* The invariant holds.                                                    *)

LEMMA InitTally == Init => Tally
<1> SUFFICES ASSUME Init PROVE Tally
  OBVIOUS
<1>1. ASSUME NEW n \in Notary PROVE Tallied(Data, bp[n])
  <2>1. PICK hash \in [Notary -> Hashes] : bp = [i \in Notary |-> NewBlock(i, hash[i])]
    BY DEF Init
  <2>2. /\ bp[n].sigs = {} /\ bp[n].pendingbestk = None /\ bp[n].desttxid = {}
        /\ bp[n].sigsmasks = [c \in Coin |-> [k \in Notary |-> {}]]
        /\ bp[n].myind = n
    BY <2>1 DEF NewBlock
  <2> QED BY <2>2 DEF Tallied, OneEach, BitsRight, OneBranch, Data
<1> QED BY <1>1 DEF Init, Tally

(* More merkle data allows more.                                           *)
LEMMA DataGrows ==
  ASSUME NEW D, D.hash = Data.hash, Data.data \subseteq D.data,
         D.data # {1} \/ D.data = Data.data
  PROVE  /\ \A b : Tallied(Data, b) => Tallied(D, b)
         /\ \A m : Plain(Data, m) => Plain(D, m)
         /\ \A t : Explained(Data, t) => Explained(D, t)
<1>1. \A s : Carries(Data, s) => Carries(D, s)
  BY DEF Carries
<1>2. ASSUME NEW t, Explained(Data, t) PROVE Explained(D, t)
  <2>1. D.data = {1} => Data.data = {1}
    OBVIOUS
  <2> QED BY <1>2, <2>1 DEF Explained, OneBranch
<1> QED BY <1>1, <1>2 DEF Tallied, Plain, OneBranch

(* A clean work of one notary preserves the tally.                         *)
LEMMA CleanStep ==
  ASSUME TypeOK, Tally, NEW n \in Notary, NEW w, Clean(Data, w),
         bp' = [bp EXCEPT ![n] = w.b], bus' = bus \cup w.out,
         submitted' = submitted \cup w.txs, pax' = pax,
         \A i \in Notary : bp'[i].hashmsg = bp[i].hashmsg
  PROVE  Tally'
<1>1. Data' = Data
  BY DEF Data, Moved
<1>2. bp'[n] = w.b /\ \A i \in Notary \ {n} : bp'[i] = bp[i]
  BY DEF TypeOK
<1>3. ASSUME NEW i \in Notary PROVE Tallied(Data', bp'[i])
  BY <1>1, <1>2 DEF Clean, Tally
<1>4. ASSUME NEW m \in bus' PROVE Plain(Data', m)
  BY <1>1 DEF Clean, Tally
<1>5. ASSUME NEW t \in submitted' PROVE Explained(Data', t)
  BY <1>1 DEF Clean, Tally
<1> QED BY <1>3, <1>4, <1>5 DEF Tally

LEMMA NextTally ==
  ASSUME IInv, Tally, [Next]_vars
  PROVE  Tally'
<1>1. TypeOK /\ \A n \in Notary : bp[n].myind = n /\ bp[n] \in Block /\ Good(bp[n]) /\ pax[n] \in Nat \cap Data.data
  BY DEF IInv, TypeOK, Blocks, Tally, Data, Moved
<1>0. \A i \in Notary : bp'[i].hashmsg = bp[i].hashmsg
  BY NextStep DEF Grows
<1>2. ASSUME NEW n \in Notary
      PROVE  Sound(bp[n], bp[n].sigs, Begun(n)) /\ Clean(Data, Begun(n)) /\ Begun(n).b = bp[n]
             /\ Begun(n).out = {} /\ Begun(n).txs = {} /\ Begun(n) \in Work
  BY BegunSound DEF Begun, Clean, Tally, Sound
<1>3. ASSUME NEW n \in Notary, Ping(n) PROVE Tally'
  <2> DEFINE w == Send(Begun(n), pax[n])
  <2>1. /\ bp' = [bp EXCEPT ![n] = w.b] /\ bus' = bus \cup w.out
        /\ pax' = pax /\ submitted' = submitted
    BY <1>3 DEF Ping, Begun
  <2>2. Clean(Data, w)
    BY <1>1, <1>2, SendClean
  <2>3. w.txs = {}
    BY DEF Send, Begun
  <2> HIDE DEF w
  <2>4. submitted' = submitted \cup w.txs
    BY <2>1, <2>3
  <2> QED BY <1>0, <1>1, <2>1, <2>2, <2>4, CleanStep
<1>4. ASSUME NEW n \in Notary, NEW m \in bus, Receive(n, m) PROVE Tally'
  <2>1. PICK ping \in BOOLEAN, signed \in SignResults, answer \in [Coin -> Replies] :
          LET w == NotarizeUpdate(bp[n], m, pax[n], ping, signed, answer)
          IN  /\ bp' = [bp EXCEPT ![n] = w.b]
              /\ bus' = bus \cup w.out
              /\ submitted' = submitted \cup w.txs
    BY <1>4 DEF Receive
  <2> DEFINE w == NotarizeUpdate(bp[n], m, pax[n], ping, signed, answer)
  <2>2. m \in Snapshot /\ Plain(Data, m) /\ m.from # bp[n].myind /\ pax' = pax
    BY <1>1, <1>4 DEF TypeOK, Tally, Receive
  <2>3. signed \in BOOLEAN
    BY RoundAssumption
  <2>4. Clean(Data, w)
    BY <1>1, <2>2, <2>3, NotarizeUpdateClean DEF Tally
  <2>5. bp' = [bp EXCEPT ![n] = w.b] /\ bus' = bus \cup w.out /\ submitted' = submitted \cup w.txs
    BY <2>1
  <2> HIDE DEF w
  <2> QED BY <1>0, <1>1, <2>2, <2>4, <2>5, CleanStep
<1>5. ASSUME NEW n \in Notary, Refresh(n) PROVE Tally'
  <2>1. /\ pax' = [pax EXCEPT ![n] = @ + 1] /\ UNCHANGED <<bp, bus, submitted>>
        /\ pax[n] \in Nat /\ pax[n] # 0
    BY <1>1, <1>5 DEF Refresh, Tally
  <2>2. pax'[n] = pax[n] + 1 /\ \A i \in Notary \ {n} : pax'[i] = pax[i]
    BY <1>1, <2>1 DEF TypeOK
  <2>3. pax'[n] # 1 /\ pax'[n] # 0
    BY <2>1, <2>2
  <2>4. Data'.data = Nat /\ Data'.hash = Data.hash
    BY <2>1, <2>3 DEF Data, Moved
  <2>5. Data.data \subseteq Nat /\ Nat # {1}
    <3>1. 2 \in Nat /\ 2 \notin {1}
      OBVIOUS
    <3> QED BY <3>1 DEF Data
  <2>6. PICK D : D = Data'
    OBVIOUS
  <2>7. /\ \A b : Tallied(Data, b) => Tallied(D, b)
        /\ \A m : Plain(Data, m) => Plain(D, m)
        /\ \A t : Explained(Data, t) => Explained(D, t)
    BY <2>4, <2>5, <2>6, DataGrows
  <2> QED BY <1>1, <2>1, <2>2, <2>3, <2>6, <2>7 DEF Tally
<1>6. ASSUME NEW n \in Notary, Abort(n) PROVE Tally'
  <2> DEFINE w == [Begun(n) EXCEPT !.b.state = Ended]
  <2>1. Clean(Data, w)
    BY <1>2, FateClean
  <2>2. w.b = [bp[n] EXCEPT !.state = Ended] /\ w.out = {} /\ w.txs = {}
    BY DEF Begun
  <2>3. bp' = [bp EXCEPT ![n] = [bp[n] EXCEPT !.state = Ended]]
        /\ UNCHANGED <<bus, pax, submitted>>
    BY <1>1, <1>6 DEF Abort, TypeOK
  <2> HIDE DEF w
  <2>4. bp' = [bp EXCEPT ![n] = w.b] /\ bus' = bus \cup w.out
        /\ submitted' = submitted \cup w.txs /\ pax' = pax
    BY <2>2, <2>3
  <2> QED BY <1>0, <1>1, <2>1, <2>4, CleanStep
<1>7. CASE UNCHANGED vars
  <2>1. UNCHANGED <<bp, bus, pax, submitted>> /\ Data' = Data
    BY <1>7 DEF vars, Data, Moved
  <2> QED BY <2>1 DEF Tally
<1> QED BY <1>3, <1>4, <1>5, <1>6, <1>7 DEF Next

LEMMA TallyHolds == Spec => []Tally
<1>1. IInv /\ Tally /\ [Next]_vars => Tally'
  BY NextTally
<1> QED BY <1>1, InitTally, Invariance, PTL DEF Spec

-----------------------------------------------------------------------------
(* The theorems.                                                           *)

(* "have all sigs" of dpow_notarize_update means what it says, for every   *)
(* number of notaries and every order of messages: a bit of destsigsmasks  *)
(* or srcsigsmasks stands for a held signature of the committed set.       *)
THEOREM BitsStandForSignatures == Spec => []BitsMeanSignatures
<1>1. Tally => BitsMeanSignatures
  BY DEF Tally, Tallied, BitsRight, BitsMeanSignatures
<1> QED BY <1>1, TallyHolds, PTL

(* Whether every snapshot, bit and signature a notary holds is right does  *)
(* not depend on what it heard before: the transaction it hands to the     *)
(* destination chain is one that chain takes exactly if the signers go by  *)
(* one block for the height.                                               *)
THEOREM DestinationIsValid == Spec => []DestTxsValid
<1>1. IInv /\ Tally => DestTxsValid
  <2> SUFFICES ASSUME IInv, Tally, NEW t \in submitted, t.coin = "dest"
               PROVE  t.valid <=> \A i \in t.mask : bp[i].hashmsg = t.hashmsg
    BY DEF DestTxsValid
  <2>1. Explained(Data, t) /\ t.mask \subseteq Notary
    BY DEF Tally, IInv, TypeOK, Submission
  <2> QED BY <2>1 DEF Explained, OneBranch, Data
<1> QED BY <1>1, Invariance, TallyHolds, PTL

(* By the time dpow_sigscheck submits a transaction of the source chain,   *)
(* its signers go by one block; a wrong signature in it is one over merkle *)
(* data that has moved under some daemon.                                  *)
THEOREM OnlyDriftRefuses == Spec => []RefusedForDrift
<1>1. IInv /\ Tally => RefusedForDrift
  <2> SUFFICES ASSUME IInv, Tally, NEW t \in submitted, t.coin = "src"
               PROVE  /\ \A i \in t.mask : bp[i].hashmsg = t.hashmsg
                      /\ t.valid \/ \E n \in Notary : pax[n] # 1
    BY DEF RefusedForDrift
  <2>1. Explained(Data, t) /\ t.mask \subseteq Notary
    BY DEF Tally, IInv, TypeOK, Submission
  <2> QED BY <2>1 DEF Explained, OneBranch, Data, Moved
<1> QED BY <1>1, Invariance, TallyHolds, PTL
=============================================================================
