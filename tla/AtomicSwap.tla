---------------------------- MODULE AtomicSwap ----------------------------
(***************************************************************************)
(* One atomic swap of the exchange: the two loops that exchange messages   *)
(* and publish the three outputs (LP_aliceloop, LP_bobloop), and the       *)
(* passes of basilisk_remember that claim them afterwards from what the    *)
(* files and the chains say.                                               *)
(*                                                                         *)
(* The parties have exchanged their keys: both wrote the file of the swap, *)
(* and Alice may have given up waiting for Bob's last answer.              *)
(*                                                                         *)
(* Abstractions.  Time is counted from swap->I.started, in units in which  *)
(* the waits and the locktimes are small.  The fee is a message only.  A   *)
(* spending transaction counts from the moment a daemon accepts it.  A     *)
(* pass is five steps, and the steps of the two parties interleave.        *)
(***************************************************************************)
EXTENDS Integers

CONSTANTS
  Lock,         \* LP_atomic_locktime, the put and the call duration
  Margin,       \* the 777 seconds claims keep from a locktime
  FailWait,     \* the 1800 seconds a payment that is not found is waited for
  Patience,     \* TX_WAIT_TIMEOUT
  ConfirmDelay, \* the longest an output waits for its confirmations
  Absent,       \* the parties that may do nothing for any time...
  Return,       \* ... until this time
  Lossy,        \* may a message be lost
  Faults,       \* what may fail: "daemon" queries, "broadcast"s
  Polls,        \* may swapstatus be asked for while the loop still runs
  MaxCrashes,   \* bound on the crashes of each party
  MaxTime       \* bound on the time

Party == {"alice", "bob"}
Output == {"deposit", "apayment", "payment"}

ASSUME SwapAssumption ==
  /\ Lock \in Nat /\ Margin \in Nat /\ FailWait \in Nat
  /\ Patience \in Nat /\ ConfirmDelay \in Nat
  /\ Absent \subseteq Party /\ Return \in Nat
  /\ Lossy \in BOOLEAN /\ Polls \in BOOLEAN
  /\ Faults \subseteq {"daemon", "broadcast"}
  /\ MaxCrashes \in Nat /\ MaxTime \in Nat

(* started + putduration, and started + putduration + callduration, which  *)
(* is the expiration too.                                                  *)
plocktime == Lock
dlocktime == Lock + Lock
expiration == dlocktime

VARIABLES
  now,          \* time(NULL) - swap->I.started
  chain,        \* chain[o]: "none", "pool", or "mined" with its confirmations
  spender,      \* spender[o]: who spent o, or "none"
  pooled,       \* pooled[o]: when o came to the pool, 0 outside of it
  net,          \* the messages sent on the pair socket
  pc,           \* pc[p]: where p's loop is, "over" after it, "down" if p is
  asked,        \* asked[p]: when p's loop began to wait for a message
  file,         \* file[p]: the outputs whose transaction p wrote to disk
  view,         \* view[p]: struct LP_swap_remember of p's pass, see View
  passed,       \* passed[p]: has p made a pass at this time
  finished,     \* finished[p]: the .finished file of p
  crashes       \* crashes[p]: how often p crashed

vars == <<now, chain, spender, pooled, net, pc, asked, file, view, passed,
          finished, crashes>>

Waits == {"waitFee", "waitDeposit", "waitApayment", "waitPayment"}
Pc == Waits \cup
      {"fee", "saveDeposit", "sendDeposit", "confDeposit",
       "saveApayment", "sendApayment", "confApayment",
       "savePayment", "sendPayment", "confPayment", "over", "down"}

(* at: 0 without a pass, 1 to 3 at its claims, 4 at its end.  by[o]: who   *)
(* spent o; "dead" is the deadtxid, for an output gettxout does not know.  *)
View == [at : 0 .. 4, sent : SUBSET Output,
         by : [Output -> Party \cup {"none", "dead"}]]
NoPass == [at |-> 0, sent |-> {}, by |-> [o \in Output |-> "none"]]

Init ==
  /\ now = 0
  /\ chain = [o \in Output |-> "none"]
  /\ spender = [o \in Output |-> "none"]
  /\ pooled = [o \in Output |-> 0]
  /\ net = {}
  /\ \E a \in {"fee", "over"} :
       pc = [p \in Party |-> IF p = "bob" THEN "waitFee" ELSE a]
  /\ asked = [p \in Party |-> 0]
  /\ file = [p \in Party |-> {}]
  /\ view = [p \in Party |-> NoPass]
  /\ passed = [p \in Party |-> FALSE]
  /\ finished = [p \in Party |-> FALSE]
  /\ crashes = [p \in Party |-> 0]

-----------------------------------------------------------------------------
(* The chains.                                                             *)

OnChain(o) == chain[o] # "none"
Unspent(o) == OnChain(o) /\ spender[o] = "none"

(* LP_broadcast: nothing is sent again that is known already.              *)
Broadcast(o) ==
  \/ /\ ~ OnChain(o)
     /\ chain' = [chain EXCEPT ![o] = "pool"]
     /\ pooled' = [pooled EXCEPT ![o] = now]
  \/ /\ OnChain(o) \/ "broadcast" \in Faults
     /\ UNCHANGED <<chain, pooled>>

Confirm(o) ==
  /\ chain[o] = "pool"
  /\ chain' = [chain EXCEPT ![o] = "mined"]
  /\ pooled' = [pooled EXCEPT ![o] = 0]
  /\ UNCHANGED <<now, spender, net, pc, asked, file, view, passed, finished,
                 crashes>>

-----------------------------------------------------------------------------
(* The loops.                                                              *)

EnterUnset(p, to) ==  \* mutant: the end of the range for none
  /\ pc' = [pc EXCEPT ![p] = to]
  /\ asked' = [asked EXCEPT ![p] = IF to \in Waits THEN now ELSE -1]

Enter(p, to) ==
  /\ pc' = [pc EXCEPT ![p] = to]
  /\ asked' = [asked EXCEPT ![p] = IF to \in Waits THEN now ELSE 0]

(* swap_nn_send: a message may be lost with the other side's socket.       *)
Tell(m) == \/ net' = net \cup {m}
           \/ Lossy /\ net' = net

(* basilisk_alicetxs makes the fee and the payment of Alice; without the   *)
(* utxos for them she gives up.                                            *)
AliceFee ==
  /\ pc["alice"] = "fee"
  /\ \/ Tell("fee") /\ Enter("alice", "waitDeposit")
     \/ Enter("alice", "over") /\ UNCHANGED net
  /\ UNCHANGED <<now, chain, spender, pooled, file, view, passed, finished,
                 crashes>>

(* LP_waitfor with LP_verify_otherfee, which keeps nothing.                *)
BobFee ==
  /\ pc["bob"] = "waitFee"
  /\ "fee" \in net
  /\ Enter("bob", "saveDeposit")
  /\ UNCHANGED <<now, chain, spender, pooled, net, file, view, passed,
                 finished, crashes>>

(* LP_swapdata_rawtxsend up to its first basilisk_dontforget_update: the   *)
(* transaction is on disk before it is broadcast.  Bob may be without one, *)
(* for basilisk_bobscripts_set hides that it could not make it.            *)
Save(p, o, from, to) ==
  /\ pc[p] = from
  /\ \/ Enter(p, to) /\ file' = [file EXCEPT ![p] = @ \cup {o}]
     \/ p = "bob" /\ Enter(p, "over") /\ UNCHANGED file
  /\ UNCHANGED <<now, chain, spender, pooled, net, view, passed, finished,
                 crashes>>

(* The rest of it: a broadcast that failed is not noticed, and the other   *)
(* side is sent the transaction all the same.                              *)
Send(p, o, from, to) ==
  /\ pc[p] = from
  /\ Broadcast(o)
  /\ Tell(o)
  /\ Enter(p, to)
  /\ UNCHANGED <<now, spender, file, view, passed, finished, crashes>>

(* LP_waitfor with LP_verify_bobdeposit, LP_verify_alicepayment or         *)
(* LP_verify_bobpayment: the receiver broadcasts the transaction too,      *)
(* remembers it, and goes on if a daemon knows it.                         *)
Receive(p, o, from, to) ==
  /\ pc[p] = from
  /\ o \in net
  /\ Broadcast(o)
  /\ file' = [file EXCEPT ![p] = @ \cup {o}]
  /\ \/ chain'[o] # "none" /\ Enter(p, to)
     \/ /\ chain'[o] = "none" \/ "daemon" \in Faults
        /\ Enter(p, "over")
  /\ UNCHANGED <<now, spender, net, view, passed, finished, crashes>>

(* The loops over LP_numconfirms, which nothing but the chain ends.        *)
Await(p, o, from, to) ==
  /\ pc[p] = from
  /\ chain[o] = "mined"
  /\ Enter(p, to)
  /\ UNCHANGED <<now, chain, spender, pooled, net, file, view, passed,
                 finished, crashes>>

AliceLoop ==
  \/ AliceFee
  \/ Receive("alice", "deposit", "waitDeposit", "confDeposit")
  \/ Await("alice", "deposit", "confDeposit", "saveApayment")
  \/ Save("alice", "apayment", "saveApayment", "sendApayment")
  \/ Send("alice", "apayment", "sendApayment", "confApayment")
  \/ Await("alice", "apayment", "confApayment", "waitPayment")
  \/ Receive("alice", "payment", "waitPayment", "confPayment")
  \/ Await("alice", "payment", "confPayment", "over")

BobLoop ==
  \/ BobFee
  \/ Save("bob", "deposit", "saveDeposit", "sendDeposit")
  \/ Send("bob", "deposit", "sendDeposit", "confDeposit")
  \/ Await("bob", "deposit", "confDeposit", "waitApayment")
  \/ Receive("bob", "apayment", "waitApayment", "confApayment")
  \/ Await("bob", "apayment", "confApayment", "savePayment")
  \/ Save("bob", "payment", "savePayment", "sendPayment")
  \/ Send("bob", "payment", "sendPayment", "over")

(* LP_waitfor runs out of time; Bob waits for Alice's payment for the      *)
(* timeouts of both coins.  The loop ends and LP_pendswap_add follows.     *)
Deadline(p) == asked[p] + (IF pc[p] = "waitApayment" THEN 2 * Patience
                           ELSE Patience)
GiveUp(p) ==
  /\ pc[p] \in Waits
  /\ now >= Deadline(p)
  /\ Enter(p, "over")
  /\ UNCHANGED <<now, chain, spender, pooled, net, file, view, passed,
                 finished, crashes>>

-----------------------------------------------------------------------------
(* The passes of basilisk_remember.                                        *)

Other(p) == IF p = "bob" THEN "alice" ELSE "bob"

(* The outputs the daemons may not tell about.                             *)
Unanswered(p) == IF "daemon" \in Faults THEN SUBSET file[p] ELSE {{}}

(* LP_rswap_init, LP_swap_load, LP_rswap_checktx and                       *)
(* basilisk_swap_spendupdate: what the files name is looked for.  A spend  *)
(* is found among what the other party's address received, p's own only if *)
(* it is in p's cache of transactions.  What is spent was sent.            *)
Look(p) ==
  /\ view[p].at = 0
  /\ ~ finished[p]
  /\ pc[p] = "over" \/ (Polls /\ pc[p] # "down")
  /\ \E unseen, unfound \in Unanswered(p), own \in SUBSET {o \in file[p] : spender[o] = p} :
       LET found == {o \in file[p] \ unfound : spender[o] = Other(p)} \cup own
       IN  view' = [view EXCEPT ![p] =
             [at |-> 1,
              sent |-> {o \in file[p] \ unseen : OnChain(o)} \cup found,
              by |-> [o \in Output |-> IF o \in found THEN spender[o] ELSE "none"]]]
  /\ UNCHANGED <<now, chain, spender, pooled, net, pc, asked, file, passed,
                 finished, crashes>>

(* The order of the claims.                                                *)
Claimed(p) == CASE p = "alice" -> <<"payment", "deposit", "apayment">>
                [] p = "bob"   -> <<"apayment", "payment", "deposit">>

(* When a pass asks gettxout for an output...                              *)
TriesEarly(p, o) ==  \* mutant: the margin is on the wrong side
  LET v == view[p]
  IN  /\ v.by[o] = "none"
      /\ CASE p = "alice" /\ o = "payment"  -> "payment" \in v.sent
           [] p = "alice" /\ o = "deposit"  -> "deposit" \in file[p] /\ now > dlocktime - Margin
           [] p = "alice" /\ o = "apayment" -> "apayment" \in file[p]
           [] p = "bob"   /\ o = "apayment" -> \E q \in {"payment", "deposit"} : v.by[q] # "none"
           [] p = "bob"   /\ o # "apayment" -> o \in file[p]

Tries(p, o) ==
  LET v == view[p]
  IN  /\ v.by[o] = "none"
      /\ CASE p = "alice" /\ o = "payment"  -> "payment" \in v.sent
           [] p = "alice" /\ o = "deposit"  -> "deposit" \in file[p] /\ now > dlocktime + Margin
           [] p = "alice" /\ o = "apayment" -> "apayment" \in file[p]
           [] p = "bob"   /\ o = "apayment" -> \E q \in {"payment", "deposit"} : v.by[q] # "none"
           [] p = "bob"   /\ o # "apayment" -> o \in file[p]

ExtractsAny(v) == \E o \in {"payment", "deposit"} : v.by[o] # "none"  \* mutant

(* privAm, taken from whatever spent the payment, from the spend of the    *)
(* deposit only if the payment is unspent.                                 *)
ExtractsAm(v) == IF v.by["payment"] # "none" THEN v.by["payment"] = "alice"
                 ELSE v.by["deposit"] = "alice"

(* The reasons Bob has to take his deposit back.  The fourth of the code,  *)
(* no payment of Alice and now past plocktime - 777, is never met: without *)
(* hers he has no plocktime, and 0 - 777 is the end of the uint32_t range. *)
RefundsSent(v) ==  \* mutant: asks not whether the payment was sent
  \/ v.by["apayment"] # "none"
  \/ now > dlocktime - Margin
  \/ now > FailWait /\ "payment" \in file["bob"]
  \/ now > dlocktime - (3 * Lock) \div 2 /\ "payment" \notin file["bob"]
RefundsFailed(v) ==  \* mutant: not after the locktime
  \/ v.by["apayment"] # "none"
  \/ now > FailWait /\ "payment" \in file["bob"] /\ "payment" \notin v.sent
  \/ now > dlocktime - (3 * Lock) \div 2 /\ "payment" \notin file["bob"]

Refunds(v) ==
  \/ v.by["apayment"] # "none"
  \/ now > dlocktime - Margin
  \/ /\ "payment" \in file["bob"] /\ "payment" \notin v.sent
     /\ now > FailWait
  \/ /\ "payment" \notin file["bob"]
     /\ now > dlocktime - (3 * Lock) \div 2

(* ... and when it makes the transaction that claims it.                   *)
Claims(p, o) ==
  CASE p = "alice" /\ o = "payment"  -> TRUE
    [] p = "alice" /\ o = "deposit"  -> TRUE
    [] p = "alice" /\ o = "apayment" -> "deposit" \in file[p] /\ spender["deposit"] = "bob"
    [] p = "bob"   /\ o = "apayment" -> ExtractsAm(view[p])
    [] p = "bob"   /\ o = "payment"  -> now > plocktime + Margin
    [] p = "bob"   /\ o = "deposit"  -> Refunds(view[p])

(* gettxout is asked for the txid in the file.  Bob tries for Alice's      *)
(* payment without one, too.                                               *)
Answered(p, o) == Unspent(o) /\ o \in file[p]

(* One claim: not tried; taken for spent, as gettxout answers nothing;     *)
(* broadcast; or left for a later pass.                                    *)
Claim(p, o) ==
  /\ view[p].at \in 1 .. 3
  /\ o = Claimed(p)[view[p].at]
  /\ LET Set(s) == view' = [view EXCEPT ![p].at = @ + 1, ![p].by[o] = s]
     IN  \/ ~ Tries(p, o) /\ Set(view[p].by[o]) /\ UNCHANGED spender
         \/ /\ Tries(p, o)
            /\ ~ Answered(p, o) \/ "daemon" \in Faults
            /\ Set("dead") /\ UNCHANGED spender
         \/ /\ Tries(p, o) /\ Answered(p, o) /\ Claims(p, o)
            /\ Set(p) /\ spender' = [spender EXCEPT ![o] = p]
         \/ /\ Tries(p, o) /\ Answered(p, o)
            /\ ~ Claims(p, o) \/ "broadcast" \in Faults
            /\ Set("none") /\ UNCHANGED spender
  /\ UNCHANGED <<now, chain, pooled, net, pc, asked, file, passed, finished,
                 crashes>>

(* LP_spends_set and basilisk_swap_isfinished.                             *)
ClaimedOne(p) == \E o \in Output : view[p].by[o] = p  \* mutant: for Bob too

IsFinished(p) ==
  LET v == view[p]
      Spent(o) == v.by[o] # "none"
      Sent(o) == o \in v.sent \/ v.by[o] \in Party
      Known(o) == o \in file[p]
  IN  \/ \A o \in Output : Spent(o)
      \/ ~ Sent("payment") /\ ~ Known("payment") /\ Spent("apayment") /\ Spent("deposit")
      \/ /\ \A o \in {"payment", "apayment"} : ~ Sent(o) /\ ~ Known(o)
         /\ Spent("deposit")
      \/ now > expiration - Lock /\ \A o \in Output : ~ Spent(o) /\ ~ Sent(o)
      \/ /\ p = "bob"
         /\ \/ /\ v.by["apayment"] = "bob" \/ v.by["payment"] = "bob"
               /\ v.by["deposit"] = "bob"
            \/ /\ ~ Known("payment") \/ ~ Sent("payment")
               /\ v.by["deposit"] = "bob"
            \/ now > expiration /\ ~ Known("deposit") /\ ~ Sent("deposit")
      \/ /\ p = "alice"
         /\ \/ \E o \in Output : v.by[o] = "alice"
            \/ /\ now > expiration /\ ~ Sent("apayment")
               /\ ~ Known("apayment") \/ v.by["deposit"] = "bob"

EndPass(p) ==
  /\ view[p].at = 4
  /\ view' = [view EXCEPT ![p] = NoPass]
  /\ passed' = [passed EXCEPT ![p] = TRUE]
  /\ finished' = [finished EXCEPT ![p] = IsFinished(p)]
  /\ UNCHANGED <<now, chain, spender, pooled, net, pc, asked, file, crashes>>

-----------------------------------------------------------------------------
(* Crashes and time.                                                       *)

Crash(p) ==
  /\ pc[p] # "down"
  /\ crashes[p] < MaxCrashes
  /\ Enter(p, "down")
  /\ view' = [view EXCEPT ![p] = NoPass]
  /\ crashes' = [crashes EXCEPT ![p] = @ + 1]
  /\ UNCHANGED <<now, chain, spender, pooled, net, file, passed, finished>>

(* A swap is not resumed: LP_swapsloop asks for swap 0-0, which is an      *)
(* error, so the user has to ask for its status from now on.               *)
Restart(p) ==
  /\ pc[p] = "down"
  /\ Enter(p, "over")
  /\ UNCHANGED <<now, chain, spender, pooled, net, file, view, passed,
                 finished, crashes>>

(* p did what it can do now: it waits for the other side or for the chain, *)
(* or made a pass.  Time may go on in the middle of the next one.          *)
Idle(p) ==
  /\ view[p].at = 0 \/ passed[p]
  /\ \/ pc[p] = "over" /\ (passed[p] \/ finished[p])
     \/ pc[p] = "waitFee"      /\ "fee" \notin net      /\ now < Deadline(p)
     \/ pc[p] = "waitDeposit"  /\ "deposit" \notin net  /\ now < Deadline(p)
     \/ pc[p] = "waitApayment" /\ "apayment" \notin net /\ now < Deadline(p)
     \/ pc[p] = "waitPayment"  /\ "payment" \notin net  /\ now < Deadline(p)
     \/ pc[p] = "confDeposit"  /\ chain["deposit"] # "mined"
     \/ pc[p] = "confApayment" /\ chain["apayment"] # "mined"
     \/ pc[p] = "confPayment"  /\ chain["payment"] # "mined"

Tick ==
  /\ now < MaxTime
  /\ \A p \in Party : Idle(p) \/ (p \in Absent /\ now < Return)
  /\ \A o \in Output : chain[o] = "pool" => now < pooled[o] + ConfirmDelay
  /\ now' = now + 1
  /\ passed' = [p \in Party |-> FALSE]
  /\ UNCHANGED <<chain, spender, pooled, net, pc, asked, file, view, finished,
                 crashes>>

LoopStep == AliceLoop \/ BobLoop

PassStep(p) == Look(p) \/ (\E o \in Output : Claim(p, o)) \/ EndPass(p)

Next ==
  \/ LoopStep
  \/ \E o \in Output : Confirm(o)
  \/ \E p \in Party : GiveUp(p) \/ Look(p) \/ EndPass(p) \/ Crash(p) \/ Restart(p)
  \/ \E p \in Party, o \in Output : Claim(p, o)
  \/ Tick

Spec == Init /\ [][Next]_vars

(* The loops poll, the main loop passes over its pending swaps every few   *)
(* seconds, miners confirm; a party that crashed comes back at last, and   *)
(* its user asks for the swap.                                             *)
FairSpec ==
  /\ Spec
  /\ WF_vars(LoopStep)
  /\ \A o \in Output : WF_vars(Confirm(o))
  /\ \A p \in Party : WF_vars(GiveUp(p)) /\ WF_vars(PassStep(p)) /\ WF_vars(Restart(p))
  /\ WF_vars(Tick)

-----------------------------------------------------------------------------
(* Properties.                                                             *)

(* The structures hold what their types allow.                             *)
TypeOK ==
  /\ now \in 0 .. MaxTime
  /\ chain \in [Output -> {"none", "pool", "mined"}]
  /\ spender \in [Output -> Party \cup {"none"}]
  /\ pooled \in [Output -> 0 .. MaxTime]
  /\ net \subseteq Output \cup {"fee"}
  /\ pc \in [Party -> Pc]
  /\ asked \in [Party -> 0 .. MaxTime]
  /\ file \in [Party -> SUBSET Output]
  /\ view \in [Party -> View]
  /\ passed \in [Party -> BOOLEAN]
  /\ finished \in [Party -> BOOLEAN]
  /\ crashes \in [Party -> 0 .. MaxCrashes]

(* Every claim a pass makes is one the scripts allow: the swap implements  *)
(* the ledger, so it keeps what the ledger promises.                       *)
Ledger == INSTANCE SwapLedger WITH
  PaymentLock <- plocktime, DepositLock <- dlocktime,
  onchain <- {o \in Output : OnChain(o)}
Implements == Ledger!Spec
Atomic == Ledger!Atomic

(* Bob never loses both: where Alice took his payment, she does not get    *)
(* hers back.                                                              *)
BobNotCheated == ~ (spender["payment"] = "alice" /\ spender["apayment"] = "alice")

(* A party that holds the swap for finished has nothing left to take: none *)
(* of Bob's outputs is unspent, and Alice has one of the three if she paid.*)
FinishedIsDone ==
  /\ finished["bob"] => \A o \in {"deposit", "payment"} : ~ Unspent(o)
  /\ finished["alice"] /\ OnChain("apayment") => \E o \in Output : spender[o] = "alice"

(* ... and Bob has Alice's payment where she took his.                     *)
FinishedIsFair ==
  finished["bob"] /\ spender["payment"] = "alice" => spender["apayment"] = "bob"

(* "to enable bob to spend alicepayment when alice does a claim for bob    *)
(* deposit, the scripts are changed": he does spend it then.               *)
ClaimedIsPaid ==
  (spender["deposit"] = "alice" /\ Unspent("apayment")) ~> ~ Unspent("apayment")

(* Every output that is published is spent at last.                        *)
Settles == \A o \in Output : OnChain(o) ~> spender[o] # "none"
=============================================================================
