---------------------------- MODULE NotaryRound ----------------------------
(***************************************************************************)
(* One notarization round of the delayed proof of work: the N notaries of  *)
(* one checkpoint height agree, over an unreliable bus, on MinSigs of      *)
(* themselves, sign the transaction of the destination chain, publish it,  *)
(* and then do the same for the source chain.                              *)
(*                                                                         *)
(* A notary's struct dpow_block is a record.  Each function of the code    *)
(* that changes it is an operator from records to records, and the message *)
(* handler is their composition in the order of the code, so that one      *)
(* action is the whole of dpow_notarize_update.                            *)
(*                                                                         *)
(* Abstractions.  A bit mask is a set of notaries.  A transaction is the   *)
(* set of notaries whose utxos it spends, with the block hash its builder  *)
(* goes by and the value of its merkle data; a signature is the            *)
(* transaction it signs.  The two utxos of a notary never change during a  *)
(* round, and a message that lacks one is dropped, so "both are known" is  *)
(* one flag.  Neither coin is proof of stake (isPoS), whose transactions   *)
(* carry the builder's clock as well.                                      *)
(***************************************************************************)
EXTENDS Integers, FiniteSets

CONSTANTS
  N,          \* bp->numnotaries, the notaries elected on KMD
  MinSigs,    \* bp->minsigs, the signatures a notarization needs
  Height,     \* bp->height, which rotates the order notaries are elected in
  Links,      \* the pairs <<i, j>> such that the bus may bring j what i sends
  Hashes,     \* the hashes the block of that height has on the branches
  Funded,     \* the notaries that found a utxo of both coins
  Replies,    \* what sendrawtransaction may answer
  SignResults,\* what signrawtransaction may answer: TRUE, FALSE for an error
  MaxPax,     \* bound: values the merkle data of the KMD chain goes through
  MayAbort,   \* the notaries whose loop may give the round up
  MaxPings    \* bound: MaxPings[n] pings n sends in the round; 0 for no bound

Notary == 0 .. N - 1
None == -1
Coin == {"src", "dest"}

(* bp->state: the code's values, with 0xffffffff as the largest of them.   *)
Idle == 0
Active == 1
DestDone == 1000
Ended == 1001

ASSUME RoundAssumption ==
  /\ N \in Nat
  /\ MinSigs \in Nat \ {0}
  /\ Height \in Nat
  /\ Links \subseteq Notary \X Notary
  /\ Hashes # {}
  /\ Funded \subseteq Notary
  /\ Replies \subseteq {"ok", "reject", "null", "lost", "mismatch"}
  /\ SignResults \subseteq BOOLEAN
  /\ MaxPax \in Nat \ {0}
  /\ MayAbort \subseteq Notary
  /\ MaxPings \in [Notary -> Nat]

VARIABLES
  bp,         \* bp[n]: the struct dpow_block of notary n
  bus,        \* every snapshot sent; one may arrive late, twice or never
  pax,        \* pax[n]: the merkle data n's KMD daemon answers now
  pings,      \* pings[n]: how often n's loop has sent its ping
  submitted   \* every transaction handed to a daemon, and its fate

vars == <<bp, bus, pax, pings, submitted>>

-----------------------------------------------------------------------------
(* The data.                                                               *)

Signature == [coin : Coin, by : Notary, k : Notary, mask : SUBSET Notary,
              hashmsg : Hashes, pax : Nat]

Entry == [utxo : BOOLEAN, recvmask : SUBSET Notary, bestmask : SUBSET Notary,
          bestk : Notary \cup {None}, paxwdcrc : Nat]

Block == [myind : Notary, hashmsg : Hashes,
          notaries : [Notary -> Entry], sigs : SUBSET Signature,
          sigsmasks : [Coin -> [Notary -> SUBSET Notary]],
          recvmask : SUBSET Notary,
          bestmask : SUBSET Notary, bestk : Notary \cup {None},
          pendingbestmask : SUBSET Notary, pendingbestk : Notary \cup {None},
          matches : Nat, bestmatches : Nat, paxwdcrc : Nat,
          desttxid : SUBSET Notary, srctxid : SUBSET Notary,  \* {} is the zero txid
          state : {Idle, Active, DestDone, Ended}]

Snapshot == [from : Notary, utxo : BOOLEAN, recvmask : SUBSET Notary,
             bestmask : SUBSET Notary, bestk : Notary \cup {None},
             paxwdcrc : Nat, sigs : SUBSET Signature]

Submission == [coin : Coin, mask : SUBSET Notary, hashmsg : Hashes, pax : Nat,
               valid : BOOLEAN, accepted : BOOLEAN]

-----------------------------------------------------------------------------
(* Electing the signers.                                                   *)

(* The notaries whose two utxos b knows.                                   *)
Known(b) == {i \in Notary : b.notaries[i].utxo}

(* siglens[k] of notary i is not zero.                                     *)
HasSig(b, coin, i, k) == \E s \in b.sigs : s.coin = coin /\ s.by = i /\ s.k = k

(* The position of notary k in the rotation of this height.                *)
Turn(k) == (k + N - (Height % N)) % N

(* The first MinSigs of the notaries E in the rotation, with the last of   *)
(* them, if E has so many: at most one.                                    *)
FirstSigners(E) ==
  {f \in [mask : SUBSET E, k : E] :
     /\ Cardinality(f.mask) = MinSigs
     /\ f.k \in f.mask
     /\ \A i \in E : i \in f.mask <=> Turn(i) <= Turn(f.k)}

Elect(b, E) ==
  IF FirstSigners(E) = {} THEN [b EXCEPT !.bestmask = {}]
  ELSE LET f == CHOOSE f \in FirstSigners(E) : TRUE
       IN  [b EXCEPT !.bestmask = f.mask, !.bestk = f.k]

(* Elects among the notaries that half of all notaries have heard.         *)
NotaryBestK(b) ==
  Elect(b, {k \in Known(b) : /\ b.notaries[k].paxwdcrc = b.paxwdcrc
                             /\ Cardinality({z \in Notary : k \in b.notaries[z].recvmask}) >= N \div 2})

(* Elects among all notaries known; it forgets bestk when there are too    *)
(* few, and recomputes which signatures are held under the one it elects.  *)
MaskMin(b) ==
  LET E == {k \in Known(b) : b.notaries[k].paxwdcrc = b.paxwdcrc}
      e == Elect([b EXCEPT !.bestk = None, !.recvmask = @ \cup E], E)
      held(c, k) == IF k = e.bestk THEN {i \in Notary : HasSig(b, c, i, k)} ELSE {}
  IN  [e EXCEPT !.sigsmasks = [c \in Coin |-> [k \in Notary |-> b.sigsmasks[c][k] \cup held(c, k)]]]

(* Every member of S has heard every member of S.                          *)
CrossConnected(b, S) == \A i, j \in S : i \in b.notaries[j].recvmask

(* The pairs (bestk, bestmask) notaries propose, who proposes each, and    *)
(* the one with most proposers among those whose members are connected;    *)
(* of two with as many, the one met first.                                 *)
Proposal(b, i) == [k |-> b.notaries[i].bestk, mask |-> b.notaries[i].bestmask]
Proposers(b, p) == {i \in Notary : Proposal(b, i) = p}

Proposals(b) ==
  {p \in {Proposal(b, i) : i \in Notary} :
     p.k # None /\ Cardinality(p.mask) = MinSigs /\ CrossConnected(b, p.mask)}

Ahead(b, p, q) ==
  LET P == Proposers(b, p)
      Q == Proposers(b, q)
  IN  \/ Cardinality(P) > Cardinality(Q)
      \/ Cardinality(P) = Cardinality(Q) /\ \E i \in P : \A j \in Q : i <= j

(* The members of p's mask that propose that mask, with whatever bestk.    *)
Backers(b, p) == {i \in p.mask : b.notaries[i].bestmask = p.mask}

(* The proposal b goes over to: better than the best it has seen, and of   *)
(* notaries whose utxos it knows.  At most one.                            *)
Better(b) ==
  {p \in Proposals(b) :
     /\ \A q \in Proposals(b) : Ahead(b, p, q)
     /\ p.mask \subseteq Known(b)
     /\ \/ Cardinality(Backers(b, p)) > b.bestmatches
        \/ /\ Cardinality(Backers(b, p)) = b.bestmatches
           /\ Cardinality(Proposers(b, p)) > b.matches}

Adopt(b, p) ==
  LET me == [b.notaries[b.myind] EXCEPT !.bestmask = p.mask, !.bestk = p.k]
  IN  [b EXCEPT !.matches = Cardinality(Proposers(b, p)),
                !.bestmatches = Cardinality(Backers(b, p)),
                !.bestmask = p.mask, !.bestk = p.k, !.notaries[b.myind] = me]

BestConsensus(b) ==
  LET adopted == IF Better(b) = {} THEN b ELSE Adopt(b, CHOOSE p \in Better(b) : TRUE)
      heard == [adopted EXCEPT !.recvmask = @ \cup Known(b)]
  IN  IF heard.bestmask = {} THEN NotaryBestK(heard) ELSE heard

-----------------------------------------------------------------------------
(* Sending, signing and publishing.  A handler's work is a record: the     *)
(* block, the snapshots it put on the bus, the transactions it submitted.  *)

Outgoing(b) ==
  LET me == b.notaries[b.myind]
      best == IF b.pendingbestmask # {} THEN [k |-> b.pendingbestk, mask |-> b.pendingbestmask]
              ELSE IF me.bestmask # {} THEN Proposal(b, b.myind)
              ELSE [k |-> b.bestk, mask |-> b.bestmask]
  IN  [from |-> b.myind, utxo |-> me.utxo, paxwdcrc |-> b.paxwdcrc,
       recvmask |-> IF b.recvmask = {} THEN me.recvmask ELSE b.recvmask,
       bestmask |-> best.mask, bestk |-> best.k,
       sigs |-> {s \in b.sigs : s.by = b.myind /\ s.k = IF b.pendingbestk # None THEN b.pendingbestk ELSE best.k}]

(* Every send fetches the merkle data anew and runs the consensus again.   *)
Send(w, data) ==
  LET me == [w.b.notaries[w.b.myind] EXCEPT !.paxwdcrc = data]
      b == BestConsensus([w.b EXCEPT !.paxwdcrc = data, !.notaries[w.b.myind] = me])
  IN  [w EXCEPT !.b = b, !.out = @ \cup {Outgoing(b)}]

(* The merkle data in a transaction: only the source chain's carries the   *)
(* part that moves with the KMD chain.                                     *)
MerkleUnset(coin, data) == IF coin = "src" THEN data ELSE None  \* mutant
MerkleOnBoth(coin, data) == data                                \* mutant

Merkle(coin, data) == IF coin = "src" THEN data ELSE 0

(* A transaction can be built: every utxo is known and, for the source     *)
(* chain, the txid of the destination chain that goes into it.             *)
NeedsTxid(b, coin) ==  \* mutant
  /\ b.pendingbestmask \subseteq Known(b)
  /\ b.desttxid # {}

Buildable(b, coin) ==
  /\ b.pendingbestmask \subseteq Known(b)
  /\ coin = "src" => b.desttxid # {}

(* The notary's signature replaces the one it had under that index.        *)
Sign(b, sig) ==
  LET mask == b.sigsmasks[sig.coin][sig.k] \cup {sig.by}
  IN  [b EXCEPT !.sigs = {s \in @ : s.coin # sig.coin \/ s.by # sig.by \/ s.k # sig.k} \cup {sig},
                !.sigsmasks[sig.coin][sig.k] = mask]

(* Signs the pending transaction, if this notary's utxo is in it.          *)
SignedTxGen(w, coin, data, signed) ==
  LET b == w.b
      sig == [coin |-> coin, by |-> b.myind, k |-> b.pendingbestk, mask |-> b.pendingbestmask,
              hashmsg |-> b.hashmsg, pax |-> Merkle(coin, data)]
  IN  IF signed /\ Buildable(b, coin) /\ b.myind \in b.pendingbestmask
      THEN Send([w EXCEPT !.b = Sign(b, sig)], data)
      ELSE w

(* Each signature that goes into the transaction signs that transaction:   *)
(* the same inputs, and in the opreturn the same block and merkle data.    *)
Verifies(b, coin, data) ==
  \A s \in b.sigs : (s.coin = coin /\ s.k = b.pendingbestk /\ s.by \in b.pendingbestmask)
                      => /\ s.mask = b.pendingbestmask
                         /\ s.hashmsg = b.hashmsg
                         /\ s.pax = Merkle(coin, data)

(* The daemon has accepted the transaction and returned its txid.          *)
Published(w, coin, data, signed) ==
  LET b == w.b
      done == IF coin = "dest" THEN DestDone ELSE Ended
      w1 == IF coin = "dest"
            THEN SignedTxGen([w EXCEPT !.b.desttxid = b.pendingbestmask], "src", data, signed)
            ELSE [w EXCEPT !.b.srctxid = b.pendingbestmask]
  IN  IF w1.b.state < done THEN Send([w1 EXCEPT !.b.state = done], data) ELSE w1

(* The daemon answers with the txid expected.  "mismatch" is another txid, *)
(* "reject" any other reply, "null" none; "lost" is none either, although  *)
(* the daemon took the transaction.                                        *)
AnyReply(reply) == reply # "null"  \* mutant

Accepted(reply) == reply = "ok"

(* Builds the transaction from the signatures held and submits it.  A      *)
(* daemon accepts only valid signatures.                                   *)
SigsCheck(w, coin, data, signed, answer) ==
  LET b == w.b
      held == {i \in b.pendingbestmask : HasSig(b, coin, i, b.pendingbestk)}
      valid == Verifies(b, coin, data)
      reply == IF valid THEN answer ELSE "reject"
      tx == [coin |-> coin, mask |-> b.pendingbestmask, hashmsg |-> b.hashmsg,
             pax |-> Merkle(coin, data), valid |-> valid,
             accepted |-> reply \in {"ok", "mismatch", "lost"}]
      w1 == [w EXCEPT !.b.state = Active]
      w2 == [w1 EXCEPT !.txs = @ \cup {tx}]
  IN  IF b.state = Ended THEN w
      ELSE IF ~Buildable(b, coin) \/ Cardinality(held) # MinSigs THEN w1
      ELSE IF Accepted(reply) THEN Published(w2, coin, data, signed)
      ELSE IF reply = "mismatch" THEN w2
      ELSE [w2 EXCEPT !.b.state = Ended]

-----------------------------------------------------------------------------
(* The handler of a snapshot.                                              *)

(* The sender's entry, and an election while nothing is elected yet.       *)
Learn(b, m) ==
  LET e == b.notaries[m.from]
      sender == [e EXCEPT !.utxo = TRUE,
                          !.bestmask = IF m.bestmask = {} THEN @ ELSE m.bestmask,
                          !.recvmask = @ \cup m.recvmask,
                          !.paxwdcrc = m.paxwdcrc]
      me == [b.notaries[b.myind] EXCEPT !.paxwdcrc = b.paxwdcrc]
      b1 == [b EXCEPT !.notaries[m.from] = sender, !.notaries[b.myind] = me]
  IN  IF b.bestmask # {} THEN b1
      ELSE MaskMin([b1 EXCEPT !.recvmask = @ \cup {m.from, b.myind}])

(* The notary's own entry follows its block.                               *)
Mirror(b) ==
  LET me == [b.notaries[b.myind] EXCEPT !.bestk = IF b.bestk = None THEN @ ELSE b.bestk,
                                        !.bestmask = IF b.bestmask = {} THEN @ ELSE b.bestmask,
                                        !.recvmask = IF b.recvmask = {} THEN @ ELSE b.recvmask]
  IN  [b EXCEPT !.notaries[b.myind] = me]

(* The sender proposes what this notary has elected.                       *)
Agrees(b, m) == m.bestk = b.bestk /\ m.bestmask = b.bestmask

(* The signatures of m that are not held yet.                              *)
Fresh(b, m) == {s \in m.sigs : ~HasSig(b, s.coin, m.from, m.bestk)}

(* The sender's bestk and signatures.  A signature is kept the first time, *)
(* and only while the elected set is the one this notary is committed to;  *)
(* its bit is set only if the sender is committed to the same.             *)
Collect(b, m) ==
  LET sender == [b.notaries[m.from] EXCEPT !.bestk = m.bestk]
      b1 == [b EXCEPT !.notaries[m.from] = sender]
      fresh == Fresh(b, m)
      bits(c, k) == IF k # m.bestk \/ (\A s \in fresh : s.coin # c) THEN b.sigsmasks[c][k]
                    ELSE IF Agrees(b, m) THEN b.sigsmasks[c][k] \cup {m.from}
                    ELSE b.sigsmasks[c][k] \ {m.from}
  IN  IF m.bestk = None /\ b.notaries[m.from].bestk # None THEN b
      ELSE IF b.pendingbestk # m.bestk \/ b.pendingbestmask # b.bestmask THEN b1
      ELSE [b1 EXCEPT !.sigs = @ \cup fresh,
                      !.sigsmasks = [c \in Coin |-> [k \in Notary |-> bits(c, k)]]]

(* The members of the elected set that propose exactly it, with the same   *)
(* merkle data.                                                            *)
Agreeing(b) ==
  {i \in b.bestmask : /\ b.notaries[i].bestk = b.bestk
                      /\ b.notaries[i].bestmask = b.bestmask
                      /\ b.notaries[i].paxwdcrc = b.paxwdcrc}

(* Nothing is pending.                                                     *)
NotPendingThis(b) ==  \* mutant: the test that is commented out in the code
  b.pendingbestk # b.bestk \/ b.pendingbestmask # b.bestmask

Uncommitted(b) == b.pendingbestk = None

(* Commits to the elected set and signs for the destination chain; once.   *)
Commit(w, data, signed) ==
  IF ~Uncommitted(w.b) THEN w
  ELSE SignedTxGen([w EXCEPT !.b.pendingbestk = w.b.bestk, !.b.pendingbestmask = w.b.bestmask],
                   "dest", data, signed)

(* Signs for the source chain, if nobody's signature is held for it yet.   *)
CoSign(w, data, signed) ==
  IF w.b.desttxid # {} /\ w.b.sigsmasks["src"][w.b.pendingbestk] = {}
  THEN SignedTxGen(w, "src", data, signed) ELSE w

(* "have all sigs"                                                         *)
AllSigs(b, coin) == b.sigsmasks[coin][b.pendingbestk] = b.pendingbestmask

(* Publishes on each chain for which all signatures are held.              *)
Publish(w, data, signed, answer) ==
  LET w1 == IF w.b.state < DestDone THEN SigsCheck(w, "dest", data, signed, answer["dest"]) ELSE w
  IN  IF ~AllSigs(w.b, "dest") THEN w
      ELSE IF AllSigs(w1.b, "src") THEN SigsCheck(w1, "src", data, signed, answer["src"]) ELSE w1

NotarizeUpdate(b, m, data, ping, signed, answer) ==
  LET heard == Collect(Mirror(BestConsensus(Learn(b, m))), m)
      w == [b |-> heard, out |-> {}, txs |-> {}]
      w1 == IF ping THEN Send(w, data) ELSE w
  IN  IF heard.bestk = None THEN w
      ELSE IF Cardinality(Agreeing(heard)) # MinSigs \/ w1.b.bestk = None \/ w1.b.bestmask = {} THEN w1
      ELSE Publish(CoSign(Commit(w1, data, signed), data, signed), data, signed, answer)

-----------------------------------------------------------------------------
(* The machine.                                                            *)

EmptyEntry == [utxo |-> FALSE, recvmask |-> {}, bestmask |-> {}, bestk |-> None, paxwdcrc |-> 0]

NewBlock(n, hash) ==
  [myind |-> n, hashmsg |-> hash,
   notaries |-> [i \in Notary |-> [EmptyEntry EXCEPT !.utxo = (i = n /\ n \in Funded)]],
   sigs |-> {}, sigsmasks |-> [c \in Coin |-> [k \in Notary |-> {}]],
   recvmask |-> {n}, bestmask |-> {}, bestk |-> None,
   pendingbestmask |-> {}, pendingbestk |-> None,
   matches |-> 0, bestmatches |-> 0, paxwdcrc |-> 0,
   desttxid |-> {}, srctxid |-> {}, state |-> Idle]

(* Each notary starts from the block its own daemon has at the height, and *)
(* keeps to it.                                                            *)
Init ==
  /\ \E hash \in [Notary -> Hashes] : bp = [n \in Notary |-> NewBlock(n, hash[n])]
  /\ bus = {}
  /\ pax = [n \in Notary |-> 1]
  /\ pings = [n \in Notary |-> 0]
  /\ submitted = {}

(* A ping is sent, and counted if their number is bounded.                 *)
Pinged(n) ==
  IF MaxPings[n] = 0 THEN pings' = pings
  ELSE /\ pings[n] < MaxPings[n]
       /\ pings' = [pings EXCEPT ![n] = @ + 1]

(* The loop of the state machine sends its ping.                           *)
Ping(n) ==
  /\ bp[n].state # Ended
  /\ Pinged(n)
  /\ LET w == Send([b |-> bp[n], out |-> {}, txs |-> {}], pax[n])
     IN  /\ bp' = [bp EXCEPT ![n] = w.b]
         /\ bus' = bus \cup w.out
  /\ UNCHANGED <<pax, submitted>>

(* A snapshot of another notary arrives.  Whether the timers let the       *)
(* handler send a ping, and what the daemons answer, is not determined.    *)
Receive(n, m) ==
  /\ bp[n].state # Ended
  /\ <<m.from, n>> \in Links
  /\ m.from # n
  /\ m.utxo
  /\ \E ping \in BOOLEAN, signed \in SignResults, answer \in [Coin -> Replies] :
       LET w == NotarizeUpdate(bp[n], m, pax[n], ping, signed, answer)
       IN  /\ IF ping THEN Pinged(n) ELSE pings' = pings
           /\ bp' = [bp EXCEPT ![n] = w.b]
           /\ bus' = bus \cup w.out
           /\ submitted' = submitted \cup w.txs
  /\ UNCHANGED pax

(* The merkle data of the KMD chain changes under n's daemon.              *)
Refresh(n) ==
  /\ pax[n] < MaxPax
  /\ pax' = [pax EXCEPT ![n] = @ + 1]
  /\ UNCHANGED <<bp, bus, pings, submitted>>

(* The loop gives up: its time is over, a newer checkpoint is there, the   *)
(* block was reorganised away, or a ratification has started.              *)
Abort(n) ==
  /\ n \in MayAbort
  /\ bp[n].state # Ended
  /\ bp' = [bp EXCEPT ![n].state = Ended]
  /\ UNCHANGED <<bus, pax, pings, submitted>>

Next ==
  \E n \in Notary :
    \/ Ping(n)
    \/ \E m \in bus : Receive(n, m)
    \/ Refresh(n)
    \/ Abort(n)

Spec == Init /\ [][Next]_vars

(* A ping of n would say nothing new.                                      *)
Told(n) ==
  \/ bp[n].state = Ended
  \/ LET w == Send([b |-> bp[n], out |-> {}, txs |-> {}], pax[n])
     IN  w.b = bp[n] /\ w.out \subseteq bus

(* What n's handler may make of the snapshot m, and whether it would       *)
(* change anything.                                                        *)
Handled(n, m) ==
  {NotarizeUpdate(bp[n], m, pax[n], ping, signed, answer) :
     ping \in BOOLEAN, signed \in SignResults, answer \in [Coin -> Replies]}

Heeded(n, m) ==
  \/ bp[n].state = Ended
  \/ ~m.utxo
  \/ \A w \in Handled(n, m) : w.b = bp[n] /\ w.out \subseteq bus /\ w.txs \subseteq submitted

(* The loop pings again and again, and each ping says what its sender      *)
(* knows by then: the bus may lose or delay many of them, but while a      *)
(* notary keeps saying the same, the others hear it at last (the weak      *)
(* fairness of Receive, with its ENABLED written out for TLC).  Nothing    *)
(* makes the loop give up.                                                 *)
Fairness ==
  \A n \in Notary :
    /\ []<>Told(n) \/ []<><<Ping(n)>>_vars
    /\ \A j \in {i \in Notary \ {n} : <<i, n>> \in Links} :
         \/ []<>(\A m \in bus : m = Outgoing(bp[j]) => Heeded(n, m))
         \/ []<><<\E m \in bus : m = Outgoing(bp[j]) /\ Receive(n, m)>>_vars

FairSpec == Spec /\ Fairness

-----------------------------------------------------------------------------
(* Properties.                                                             *)

TypeOK ==
  /\ bp \in [Notary -> Block]
  /\ bus \subseteq Snapshot
  /\ pax \in [Notary -> Nat]
  /\ pings \in [Notary -> Nat]
  /\ submitted \subseteq Submission

(* A signature, wherever it is held or on its way, is of a notary that is  *)
(* committed to exactly the transaction it signs; one for the source chain *)
(* is of a notary that saw the destination chain accept its transaction.   *)
(* dpow_notarize_update signs only when pendingbestk is first set, and     *)
(* dpow_voutstandard builds no source transaction without a desttxid.      *)
CommittedTo(b, s) ==
  /\ s.by \in s.mask
  /\ b.pendingbestmask = s.mask
  /\ b.pendingbestk = s.k
  /\ b.hashmsg = s.hashmsg
  /\ s.coin = "src" => b.desttxid = s.mask

SignaturesBind ==
  /\ \A n \in Notary : \A s \in bp[n].sigs : CommittedTo(bp[s.by], s)
  /\ \A m \in bus : \A s \in m.sigs : CommittedTo(bp[s.by], s)

(* A bit of destsigsmasks or srcsigsmasks under the committed index stands *)
(* for a signature of the committed set by a member of it: the test "have  *)
(* all sigs" of dpow_notarize_update means what it says.                   *)
BitsMeanSignatures ==
  \A n \in Notary : \A c \in Coin : \A k \in Notary : \A i \in bp[n].sigsmasks[c][k] :
    /\ k = bp[n].pendingbestk
    /\ i \in bp[n].pendingbestmask
    /\ \E s \in bp[n].sigs : s.coin = c /\ s.by = i /\ s.mask = bp[n].pendingbestmask

(* Nothing in a round compares the blocks notaries go by: a snapshot is    *)
(* matched by height, the election by the crc of the merkle data.  That    *)
(* the signers are on one branch is found out when dpow_sigscheck submits  *)
(* the destination's transaction, and nothing but that can go wrong with   *)
(* its signatures: they verify exactly if all signers go by the block the  *)
(* submitter goes by, whatever it heard before.                            *)
DestTxsValid ==
  \A t \in submitted :
    t.coin = "dest" => (t.valid <=> \A i \in t.mask : bp[i].hashmsg = t.hashmsg)

(* By the time a transaction of the source chain is submitted its signers  *)
(* are known to be on one branch, also if it was reorganised away since;   *)
(* it is refused for a wrong signature only because the merkle data moved  *)
(* between a notary's signing it and another's assembling it:              *)
(* dpow_paxpending asks for it at every send.                              *)
RefusedForDrift ==
  \A t \in submitted :
    t.coin = "src" => /\ \A i \in t.mask : bp[i].hashmsg = t.hashmsg
                      /\ t.valid \/ \E n \in Notary : pax[n] # 1

(* Two notarizations of the height that a chain accepted have the same     *)
(* signers, or none in common.                                             *)
Agreement ==
  \A t, u \in submitted :
    t.accepted /\ u.accepted /\ t.mask \cap u.mask # {} => t.mask = u.mask

(* The source chain is notarized only with a set of signers all of whom    *)
(* saw the destination chain accept the transaction of that very set.      *)
SrcAfterDest ==
  \A t \in submitted :
    t.accepted /\ t.coin = "src" =>
      /\ \E u \in submitted : u.coin = "dest" /\ u.accepted /\ u.mask = t.mask
      /\ \A i \in t.mask : bp[i].desttxid = t.mask

(* A notary's commitment and the txid it put into the source transaction   *)
(* are final: what it hears later, and a better consensus, change neither. *)
CommitmentsFinal ==
  [][\A n \in Notary :
       /\ bp[n].pendingbestk # None => /\ bp'[n].pendingbestk = bp[n].pendingbestk
                                       /\ bp'[n].pendingbestmask = bp[n].pendingbestmask
       /\ bp[n].desttxid # {} => bp'[n].desttxid = bp[n].desttxid]_vars

(* What dpow_notarize_update does with late, repeated and lost messages,   *)
(* failing daemons and moving merkle data is no more than a notarization:  *)
(* one commitment each, and no chain takes a transaction before all of its *)
(* signers stand behind it.                                                *)
Commitments == [n \in Notary |-> IF bp[n].pendingbestk = None THEN {} ELSE bp[n].pendingbestmask]
Taken(c) == {t.mask : t \in {u \in submitted : u.coin = c /\ u.accepted}}

Round == INSTANCE Notarization WITH
           Complete <- {S \in SUBSET Notary : Cardinality(S) = MinSigs},
           commitment <- Commitments,
           seen <- [n \in Notary |-> bp[n].desttxid],
           chain <- [c \in Coin |-> Taken(c)]

Implements == Round!Spec

(* The round notarizes: in the end a notary has published on both chains.  *)
Notarizes == <>(\E t \in submitted : t.coin = "src" /\ t.accepted)
=============================================================================
