-------------------------- MODULE SwapFinishProofs --------------------------
(***************************************************************************)
(* Who holds a swap for finished has nothing left to take, whatever the    *)
(* delays, with lost messages, crashes and parties that are away, as long  *)
(* as daemons answer, broadcasts arrive and no status is asked for before  *)
(* the loop is over.  Bob, if he stays and is in time, never loses both.   *)
(***************************************************************************)
EXTENDS AtomicSwapProofs

USE DEF Party, Output

Undisturbed == Faults = {} /\ Polls = FALSE

(* Who publishes an output.                                                *)
Own(o) == IF o = "apayment" THEN "alice" ELSE "bob"

(* The step of its owner's loop that publishes it.                         *)
Sending(o) == CASE o = "deposit"  -> "sendDeposit"
                [] o = "apayment" -> "sendApayment"
                [] o = "payment"  -> "sendPayment"

(* Bob's loop after he wrote down his deposit.                             *)
Deposited == {"sendDeposit", "confDeposit", "waitApayment", "confApayment",
              "savePayment", "sendPayment"}

(* An output is on its chain before anyone hears of it, and on the disk of *)
(* its owner before it is on its chain.                                    *)
SentAfterSaved ==
  \A o \in Output :
    /\ o \in net => OnChain(o)
    /\ OnChain(o) => o \in file[Own(o)]
    /\ pc[Own(o)] = Sending(o) => o \in file[Own(o)]

(* Bob has a deposit before he has a payment.                              *)
DepositFirst ==
  /\ pc["bob"] \in Deposited => "deposit" \in file["bob"]
  /\ "payment" \in file["bob"] => "deposit" \in file["bob"]

(* Passes are made, and the swap is finished, after the loop.              *)
PassAfterLoop ==
  \A p \in Party :
    /\ view[p].at # 0 => pc[p] = "over"
    /\ view[p].at = 0 => view[p] = NoPass
    /\ finished[p] => pc[p] \in {"over", "down"}

(* What a pass holds for spent or for not sent, of what its owner          *)
(* published himself, cannot be taken.                                     *)
OwnViewRight ==
  \A o \in Output :
    /\ view[Own(o)].by[o] # "none" => ~ Unspent(o)
    /\ view[Own(o)].at # 0 /\ o \notin view[Own(o)].sent => ~ OnChain(o)

FInv ==
  /\ TypeOK
  /\ ViewsTrue
  /\ Atomic
  /\ SentAfterSaved
  /\ DepositFirst
  /\ PassAfterLoop
  /\ OwnViewRight
  /\ FinishedIsDone

-----------------------------------------------------------------------------
(* The kinds of steps.                                                     *)

(* Where a loop may be, apart from where it sends.                         *)
Quiet == Pc \ {"sendDeposit", "sendApayment", "sendPayment", "down"}
Moving == Pc \ {"over", "down"}

ReceiveStep ==
  \E p \in Party, o \in Output, from \in Moving, to \in Quiet :
    Receive(p, o, from, to) /\ (p = "bob" => from \in Deposited)
AwaitStep ==
  \E p \in Party, o \in Output, from \in Moving, to \in Quiet :
    Await(p, o, from, to) /\ (p = "bob" => from \in Deposited)
SaveStep ==
  \E o \in Output, from \in Moving :
    Save(Own(o), o, from, Sending(o)) /\ (o = "payment" => from \in Deposited)
SendStep ==
  \E o \in Output, to \in Quiet : Send(Own(o), o, Sending(o), to)

LEMMA Places ==
  /\ {"waitDeposit", "confDeposit", "saveApayment", "sendApayment", "confApayment",
      "waitPayment", "confPayment", "saveDeposit", "sendDeposit", "waitApayment",
      "savePayment", "sendPayment"} \subseteq Moving
  /\ {"confDeposit", "saveApayment", "confApayment", "waitPayment", "confPayment",
      "waitApayment", "savePayment", "over"} \subseteq Quiet
  /\ {"confDeposit", "waitApayment", "confApayment", "savePayment"} \subseteq Deposited
  /\ Own("deposit") = "bob" /\ Own("payment") = "bob" /\ Own("apayment") = "alice"
  /\ Sending("deposit") = "sendDeposit" /\ Sending("payment") = "sendPayment"
  /\ Sending("apayment") = "sendApayment"
  /\ \A o \in Output : Own(o) \in Party /\ Sending(o) \in Moving
  /\ Quiet \subseteq Pc /\ Moving \subseteq Pc /\ "over" \in Pc
<1>1. {"waitDeposit", "confDeposit", "saveApayment", "sendApayment", "confApayment",
       "waitPayment", "confPayment", "saveDeposit", "sendDeposit", "waitApayment",
       "savePayment", "sendPayment"} \subseteq Moving
  BY DEF Moving, Pc, Waits
<1>2. /\ {"confDeposit", "saveApayment", "confApayment", "waitPayment", "confPayment",
          "waitApayment", "savePayment", "over"} \subseteq Quiet
      /\ Quiet \subseteq Pc /\ Moving \subseteq Pc /\ "over" \in Pc
  BY DEF Quiet, Moving, Pc, Waits
<1>3. /\ Own("deposit") = "bob" /\ Own("payment") = "bob" /\ Own("apayment") = "alice"
      /\ Sending("deposit") = "sendDeposit" /\ Sending("payment") = "sendPayment"
      /\ Sending("apayment") = "sendApayment"
  BY DEF Own, Sending
<1>. QED  BY <1>1, <1>2, <1>3 DEF Deposited

(* The loops, by what their steps do.                                      *)
LEMMA LoopKinds ==
  ASSUME LoopStep
  PROVE  AliceFee \/ BobFee \/ ReceiveStep \/ AwaitStep \/ SaveStep \/ SendStep
<1>1. CASE \/ Receive("alice", "deposit", "waitDeposit", "confDeposit")
           \/ Receive("alice", "payment", "waitPayment", "confPayment")
           \/ Receive("bob", "apayment", "waitApayment", "confApayment")
  BY <1>1, Places DEF ReceiveStep
<1>2. CASE \/ Await("alice", "deposit", "confDeposit", "saveApayment")
           \/ Await("alice", "apayment", "confApayment", "waitPayment")
           \/ Await("alice", "payment", "confPayment", "over")
           \/ Await("bob", "deposit", "confDeposit", "waitApayment")
           \/ Await("bob", "apayment", "confApayment", "savePayment")
  BY <1>2, Places DEF AwaitStep
<1>3. CASE Save("alice", "apayment", "saveApayment", "sendApayment")
  BY <1>3, Places DEF SaveStep
<1>4. CASE Save("bob", "deposit", "saveDeposit", "sendDeposit")
  BY <1>4, Places DEF SaveStep
<1>5. CASE Save("bob", "payment", "savePayment", "sendPayment")
  BY <1>5, Places DEF SaveStep
<1>6. CASE \/ Send("alice", "apayment", "sendApayment", "confApayment")
           \/ Send("bob", "deposit", "sendDeposit", "confDeposit")
           \/ Send("bob", "payment", "sendPayment", "over")
  BY <1>6, Places DEF SendStep
<1>. QED
  BY <1>1, <1>2, <1>3, <1>4, <1>5, <1>6 DEF LoopStep, AliceLoop, BobLoop

(* A loop that is over does not move, and a step moves one loop.           *)
LEMMA LoopMover ==
  ASSUME TypeOK, LoopStep
  PROVE  \A p \in Party : pc[p] \in {"over", "down"} => pc'[p] = pc[p]
<1> DEFINE Moves(p, from) == /\ p \in Party /\ from \in Moving /\ pc[p] = from
                             /\ \E to \in Pc : pc' = [pc EXCEPT ![p] = to]
<1>1. \E p, from : Moves(p, from)
  <2>1. CASE AliceFee
    <3>1. Moves("alice", "fee")
      BY <2>1 DEF AliceFee, Enter, Moving, Pc, Waits
    <3>. QED  BY <3>1
  <2>2. CASE BobFee
    <3>1. Moves("bob", "waitFee")
      BY <2>2 DEF BobFee, Enter, Moving, Pc, Waits
    <3>. QED  BY <3>1
  <2>3. ASSUME NEW p \in Party, NEW o \in Output, NEW from \in Moving, NEW to \in Pc,
               Receive(p, o, from, to) \/ Await(p, o, from, to)
                 \/ Save(p, o, from, to) \/ Send(p, o, from, to)
        PROVE  Moves(p, from)
    BY <2>3, Places DEF Receive, Await, Save, Send, Enter
  <2> HIDE DEF Moves
  <2>. QED
    BY <2>1, <2>2, <2>3, LoopKinds, Places DEF ReceiveStep, AwaitStep, SaveStep, SendStep
<1>2. PICK p \in Party, from \in Moving, to \in Pc :
        pc[p] = from /\ pc' = [pc EXCEPT ![p] = to]
  BY <1>1
<1>. QED  BY <1>2 DEF TypeOK, Moving

(* An output comes to its chain when its owner sends it.                   *)
LEMMA LoopChain ==
  ASSUME Undisturbed, TypeOK, SentAfterSaved, LoopStep, NEW o \in Output,
         OnChain(o)' # OnChain(o)
  PROVE  pc[Own(o)] = Sending(o) /\ OnChain(o)'
<1>1. ASSUME NEW p \in Party, NEW r \in Output, NEW from, NEW to, Receive(p, r, from, to)
      PROVE  FALSE
  BY <1>1 DEF Receive, Broadcast, Undisturbed, SentAfterSaved, OnChain
<1>2. ASSUME NEW r \in Output, NEW to, Send(Own(r), r, Sending(r), to)
      PROVE  pc[Own(o)] = Sending(o) /\ OnChain(o)'
  BY <1>2 DEF Send, Broadcast, OnChain, TypeOK
<1>3. ASSUME UNCHANGED chain  PROVE FALSE
  BY <1>3 DEF OnChain
<1>. QED
  BY <1>1, <1>2, <1>3, LoopKinds
     DEF AliceFee, BobFee, ReceiveStep, AwaitStep, SaveStep, SendStep, Await, Save

(* What the owner no longer sends stays on its chain, or off it.           *)
LEMMA Frozen ==
  ASSUME Undisturbed, TypeOK, SentAfterSaved, [Next]_vars, NEW o \in Output,
         pc[Own(o)] \in {"over", "down"}
  PROVE  OnChain(o)' = OnChain(o)
<1>1. CASE LoopStep
  BY <1>1, LoopChain DEF Sending
<1>2. ASSUME NEW r \in Output, Confirm(r)  PROVE OnChain(o)' = OnChain(o)
  BY <1>2 DEF Confirm, OnChain, TypeOK
<1>3. ASSUME UNCHANGED chain  PROVE OnChain(o)' = OnChain(o)
  BY <1>3 DEF OnChain
<1>. QED
  BY <1>1, <1>2, <1>3 DEF Next, GiveUp, Look, EndPass, Crash, Restart, Claim, Tick, vars

(* Nobody spends what is spent.                                            *)
LEMMA SpentStays ==
  ASSUME TypeOK, [Next]_vars, NEW o \in Output, spender[o] # "none"
  PROVE  spender'[o] = spender[o]
<1>1. ASSUME UNCHANGED spender  PROVE spender'[o] = spender[o]
  BY <1>1
<1>2. ASSUME NEW p \in Party, NEW r \in Output, Claim(p, r)
      PROVE  spender'[o] = spender[o]
  BY <1>2 DEF Claim, Answered, Unspent, TypeOK
<1>. QED
  BY <1>1, <1>2, LoopFrame DEF Next, Confirm, GiveUp, Look, EndPass, Crash, Restart, Tick, vars

-----------------------------------------------------------------------------
(* Each part of the invariant is kept.                                     *)

LEMMA SentKept ==
  ASSUME Undisturbed, TypeOK, SentAfterSaved, [Next]_vars
  PROVE  SentAfterSaved'
<1> SUFFICES ASSUME NEW o \in Output
             PROVE  /\ o \in net' => OnChain(o)'
                    /\ OnChain(o)' => o \in file'[Own(o)]
                    /\ pc'[Own(o)] = Sending(o) => o \in file'[Own(o)]
  BY DEF SentAfterSaved
<1>0. /\ o \in net => OnChain(o)
      /\ OnChain(o) => o \in file[Own(o)]
      /\ pc[Own(o)] = Sending(o) => o \in file[Own(o)]
      /\ Own(o) \in Party
  BY Places DEF SentAfterSaved
<1>1. ASSUME UNCHANGED <<chain, net, file>>, pc'[Own(o)] # Sending(o) \/ UNCHANGED pc
      PROVE  /\ o \in net' => OnChain(o)'
             /\ OnChain(o)' => o \in file'[Own(o)]
             /\ pc'[Own(o)] = Sending(o) => o \in file'[Own(o)]
  BY <1>0, <1>1 DEF OnChain
<1>2. CASE LoopStep
  <2>1. OnChain(o)' = OnChain(o) \/ (OnChain(o)' /\ o \in file[Own(o)])
    BY <1>0, <1>2, LoopChain
  <2>2. \A p \in Party : file[p] \subseteq file'[p]
    BY <1>2, LoopKinds
       DEF AliceFee, BobFee, ReceiveStep, AwaitStep, SaveStep, SendStep,
           Receive, Await, Save, Send, TypeOK
  <2>3. OnChain(o) => OnChain(o)'
    BY <1>0, <2>1
  <2>4. o \in net' => OnChain(o)'
    <3>1. CASE UNCHANGED net
      BY <1>0, <2>3, <3>1
    <3>2. ASSUME NEW r \in Output, NEW to, Send(Own(r), r, Sending(r), to)
          PROVE  o \in net' => OnChain(o)'
      BY <1>0, <2>3, <3>2
         DEF Send, Tell, Broadcast, OnChain, Undisturbed, TypeOK
    <3>3. CASE AliceFee
      BY <1>0, <2>3, <3>3 DEF AliceFee, Tell
    <3>. QED
      BY <1>2, <3>1, <3>2, <3>3, LoopKinds
         DEF BobFee, ReceiveStep, AwaitStep, SaveStep, SendStep, Receive, Await, Save
  <2>5. pc'[Own(o)] = Sending(o) => o \in file'[Own(o)]
    <3>1. ASSUME NEW p \in Party, NEW to \in Quiet, Enter(p, to)
          PROVE  pc'[Own(o)] = Sending(o) => pc[Own(o)] = Sending(o)
      BY <3>1 DEF Enter, TypeOK, Sending, Quiet
    <3>2. CASE AliceFee \/ BobFee
      BY <1>0, <2>2, <3>2 DEF AliceFee, BobFee, Enter, TypeOK, Sending
    <3>3. CASE ReceiveStep
      BY <1>0, <2>2, <3>1, <3>3, Places DEF ReceiveStep, Receive, Quiet
    <3>4. CASE AwaitStep \/ SendStep
      BY <1>0, <2>2, <3>1, <3>4, Places DEF AwaitStep, SendStep, Await, Send
    <3>5. CASE SaveStep
      <4>1. PICK r \in Output, from \in Moving : Save(Own(r), r, from, Sending(r))
        BY <3>5 DEF SaveStep
      <4>2. CASE Enter(Own(r), "over")
        BY <1>0, <2>2, <3>1, <4>2, Places
      <4>3. CASE Enter(Own(r), Sending(r)) /\ r \in file'[Own(r)]
        <5>1. r = o => o \in file'[Own(o)]
          BY <4>3
        <5>2. r # o => (pc'[Own(o)] = Sending(o) => pc[Own(o)] = Sending(o))
          BY <4>3 DEF Enter, TypeOK, Own, Sending
        <5>. QED  BY <1>0, <2>2, <5>1, <5>2
      <4>. QED  BY <4>1, <4>2, <4>3, Places DEF Save, TypeOK
    <3>. QED  BY <1>2, <3>2, <3>3, <3>4, <3>5, LoopKinds
  <2>. QED  BY <1>0, <2>1, <2>2, <2>4, <2>5
<1>3. ASSUME NEW r \in Output, Confirm(r)
      PROVE  /\ o \in net' => OnChain(o)'
             /\ OnChain(o)' => o \in file'[Own(o)]
             /\ pc'[Own(o)] = Sending(o) => o \in file'[Own(o)]
  BY <1>0, <1>3 DEF Confirm, OnChain, TypeOK
<1>4. ASSUME NEW p \in Party, GiveUp(p) \/ Crash(p) \/ Restart(p)
      PROVE  /\ o \in net' => OnChain(o)'
             /\ OnChain(o)' => o \in file'[Own(o)]
             /\ pc'[Own(o)] = Sending(o) => o \in file'[Own(o)]
  BY <1>0, <1>4 DEF GiveUp, Crash, Restart, Enter, TypeOK, Sending, OnChain
<1>. QED
  BY <1>1, <1>2, <1>3, <1>4 DEF Next, Look, EndPass, Claim, Tick, vars

LEMMA DepositKept ==
  ASSUME TypeOK, DepositFirst, [Next]_vars
  PROVE  DepositFirst'
<1>1. ASSUME UNCHANGED <<pc, file>>  PROVE DepositFirst'
  BY <1>1 DEF DepositFirst
<1>2. ASSUME UNCHANGED file, pc'["bob"] \notin Deposited  PROVE DepositFirst'
  BY <1>2 DEF DepositFirst
<1>3. CASE LoopStep
  <2>1. CASE AliceFee
    BY <2>1 DEF AliceFee, Enter, TypeOK, DepositFirst
  <2>2. CASE BobFee
    BY <1>2, <2>2 DEF BobFee, Enter, TypeOK, Deposited
  <2>3. ASSUME NEW p \in Party, NEW o \in Output, NEW from, NEW to,
               Receive(p, o, from, to) \/ Await(p, o, from, to),
               p = "bob" => from \in Deposited
        PROVE  DepositFirst'
    BY <2>3 DEF Receive, Await, Enter, TypeOK, DepositFirst
  <2>4. CASE SaveStep
    <3>1. PICK r \in Output, from \in Moving :
            Save(Own(r), r, from, Sending(r)) /\ (r = "payment" => from \in Deposited)
      BY <2>4 DEF SaveStep
    <3>2. CASE r = "apayment"
      BY <3>1, <3>2 DEF Save, Enter, Own, TypeOK, DepositFirst
    <3>3. CASE r = "deposit"
      BY <3>1, <3>3 DEF Save, Enter, Own, TypeOK, DepositFirst, Deposited
    <3>4. CASE r = "payment"
      BY <3>1, <3>4 DEF Save, Enter, Own, TypeOK, DepositFirst
    <3>. QED  BY <3>2, <3>3, <3>4
  <2>5. CASE SendStep
    BY <2>5 DEF SendStep, Send, Enter, Own, Sending, TypeOK, DepositFirst, Deposited
  <2>. QED
    BY <1>3, <2>1, <2>2, <2>3, <2>4, <2>5, LoopKinds DEF ReceiveStep, AwaitStep
<1>4. ASSUME NEW p \in Party, GiveUp(p) \/ Crash(p) \/ Restart(p)
      PROVE  DepositFirst'
  BY <1>4 DEF GiveUp, Crash, Restart, Enter, TypeOK, DepositFirst, Deposited
<1>. QED
  BY <1>1, <1>3, <1>4 DEF Next, Confirm, Look, EndPass, Claim, Tick, vars

LEMMA PassKept ==
  ASSUME Undisturbed, TypeOK, PassAfterLoop, [Next]_vars
  PROVE  PassAfterLoop'
<1>1. ASSUME UNCHANGED <<view, finished>>,
             \A p \in Party : pc[p] \in {"over", "down"} => pc'[p] = pc[p]
      PROVE  PassAfterLoop'
  BY <1>1 DEF PassAfterLoop
<1>2. CASE LoopStep
  <2>1. UNCHANGED finished
    BY <1>2, LoopKinds
       DEF AliceFee, BobFee, ReceiveStep, AwaitStep, SaveStep, SendStep,
           Receive, Await, Save, Send
  <2>. QED  BY <1>1, <1>2, <2>1, LoopFrame, LoopMover
<1>3. ASSUME NEW p \in Party, GiveUp(p)  PROVE PassAfterLoop'
  BY <1>1, <1>3 DEF GiveUp, Waits, Enter, TypeOK
<1>4. ASSUME NEW p \in Party, Look(p)  PROVE PassAfterLoop'
  <2>1. view'[p].at = 1 /\ (\A q \in Party \ {p} : view'[q] = view[q])
    BY <1>4 DEF Look, TypeOK
  <2>. QED  BY <1>4, <2>1 DEF Look, Undisturbed, PassAfterLoop
<1>5. ASSUME NEW p \in Party, EndPass(p)  PROVE PassAfterLoop'
  BY <1>5 DEF EndPass, NoPass, TypeOK, PassAfterLoop
<1>6. ASSUME NEW p \in Party, Crash(p)  PROVE PassAfterLoop'
  BY <1>6 DEF Crash, Enter, NoPass, TypeOK, PassAfterLoop
<1>7. ASSUME NEW p \in Party, Restart(p)  PROVE PassAfterLoop'
  BY <1>7 DEF Restart, Enter, TypeOK, PassAfterLoop
<1>8. ASSUME NEW p \in Party, NEW o \in Output, Claim(p, o)  PROVE PassAfterLoop'
  <2>1. /\ view'[p].at = view[p].at + 1 /\ view[p].at \in 1 .. 3
        /\ \A q \in Party \ {p} : view'[q] = view[q]
    BY <1>8, ViewType DEF Claim, TypeOK, View
  <2>. QED  BY <1>8, <2>1 DEF Claim, PassAfterLoop
<1>. QED
  BY <1>1, <1>2, <1>3, <1>4, <1>5, <1>6, <1>7, <1>8 DEF Next, Confirm, Tick, vars

LEMMA ViewKept ==
  ASSUME Undisturbed, TypeOK, SentAfterSaved, PassAfterLoop, OwnViewRight, [Next]_vars
  PROVE  OwnViewRight'
<1> SUFFICES ASSUME NEW o \in Output
             PROVE  /\ view'[Own(o)].by[o] # "none" => ~ Unspent(o)'
                    /\ view'[Own(o)].at # 0 /\ o \notin view'[Own(o)].sent => ~ OnChain(o)'
  BY DEF OwnViewRight
<1> DEFINE p == Own(o)
           Right(v) == /\ v.by[o] # "none" => ~ Unspent(o)'
                       /\ v.at # 0 /\ o \notin v.sent => ~ OnChain(o)'
<1>0. p \in Party /\ view[p] \in View
  BY Places DEF TypeOK
<1>1. Right(NoPass)
  BY DEF NoPass
<1>2. view[p].at = 0 => Right(view[p])
  BY <1>0, <1>1 DEF PassAfterLoop
<1>3. view[p].at # 0 => pc[p] = "over"
  BY <1>0 DEF PassAfterLoop
<1>4. view[p].at # 0 => OnChain(o)' = OnChain(o)
  BY <1>3, Frozen
<1>5. view[p].at # 0 /\ ~ Unspent(o) => ~ Unspent(o)'
  BY <1>4, SpentStays DEF Unspent
<1>6. Right(view[p])
  BY <1>2, <1>4, <1>5 DEF OwnViewRight
<1> HIDE DEF p, Right
<1>7. ASSUME view'[p] = view[p] \/ view'[p] = NoPass  PROVE Right(view'[p])
  BY <1>1, <1>6, <1>7
<1>8. ASSUME UNCHANGED view  PROVE Right(view'[p])
  <2>1. view'[p] = view[p]
    BY <1>8
  <2>. QED  BY <1>7, <2>1
<1>9. ASSUME NEW q \in Party, Look(q)  PROVE Right(view'[p])
  <2>1. CASE q # p
    BY <1>7, <1>9, <2>1 DEF Look, TypeOK
  <2>2. CASE q = p
    <3>1. PICK unseen \in Unanswered(q), unfound \in Unanswered(q),
               own \in SUBSET {r \in file[q] : spender[r] = q} :
            LET found == {r \in file[q] \ unfound : spender[r] = Other(q)} \cup own
            IN  view' = [view EXCEPT ![q] =
                  [at |-> 1,
                   sent |-> {r \in file[q] \ unseen : OnChain(r)} \cup found,
                   by |-> [r \in Output |-> IF r \in found THEN spender[r] ELSE "none"]]]
      BY <1>9 DEF Look
    <3>2. view'[p].by[o] # "none" => spender[o] # "none"
      BY <1>0, <2>2, <3>1 DEF TypeOK
    <3>3. OnChain(o) => o \in file[p]
      BY DEF SentAfterSaved, p
    <3>4. o \in file[p] /\ OnChain(o) => o \in view'[p].sent
      <4>1. unseen = {}
        BY DEF Unanswered, Undisturbed
      <4>. QED  BY <1>0, <2>2, <3>1, <4>1 DEF TypeOK
    <3>5. UNCHANGED <<chain, spender>>
      BY <1>9 DEF Look
    <3>. QED  BY <3>2, <3>3, <3>4, <3>5 DEF Right, Unspent, OnChain
  <2>. QED  BY <2>1, <2>2
<1>10. ASSUME NEW q \in Party, NEW r \in Output, Claim(q, r)  PROVE Right(view'[p])
  <2>1. CASE q # p
    <3>1. view'[p] = view[p]
      BY <1>0, <1>10, <2>1 DEF Claim, TypeOK
    <3>. QED  BY <1>7, <3>1
  <2>2. CASE q = p
    <3>1. PICK s \in Party \cup {"none", "dead"} :
            /\ view' = [view EXCEPT ![p].at = @ + 1, ![p].by[r] = s]
            /\ \/ s = view[p].by[r]
               \/ s = "dead" /\ (r = o => ~ Unspent(r)) /\ UNCHANGED spender
               \/ s = p /\ spender' = [spender EXCEPT ![r] = p]
               \/ s = "none"
      <4>1. view[p].by[r] \in Party \cup {"none", "dead"}
        BY <1>0, ViewType
      <4>2. r = o /\ Tries(p, r) => (Answered(p, r) <=> Unspent(r))
        BY <1>6 DEF Right, Tries, Answered, p, Own
      <4>. QED  BY <1>0, <1>10, <2>2, <4>1, <4>2 DEF Claim, Undisturbed
    <3>2. /\ view'[p].sent = view[p].sent
          /\ view'[p].by[o] = IF r = o THEN s ELSE view[p].by[o]
      BY <1>0, <3>1, ViewType DEF TypeOK, View
    <3>3. UNCHANGED chain /\ view[p].at # 0
      BY <1>10, <2>2 DEF Claim
    <3>4. o \notin view[p].sent => ~ OnChain(o)'
      BY <1>6, <3>3 DEF Right
    <3>5. view'[p].by[o] # "none" => ~ Unspent(o)'
      <4>1. CASE view'[p].by[o] = view[p].by[o]
        BY <1>6, <4>1 DEF Right
      <4>2. CASE r = o /\ s = "dead" /\ ~ Unspent(r) /\ UNCHANGED spender
        BY <3>3, <4>2 DEF Unspent, OnChain
      <4>3. CASE r = o /\ s = p /\ spender' = [spender EXCEPT ![r] = p]
        BY <1>0, <4>3 DEF Unspent, TypeOK
      <4>. QED  BY <3>1, <3>2, <4>1, <4>2, <4>3
    <3>. QED  BY <3>2, <3>4, <3>5 DEF Right
  <2>. QED  BY <2>1, <2>2
<1>11. ASSUME NEW q \in Party, EndPass(q) \/ Crash(q)  PROVE Right(view'[p])
  BY <1>0, <1>7, <1>11 DEF EndPass, Crash, TypeOK
<1>12. Right(view'[p])
  BY <1>8, <1>9, <1>10, <1>11, LoopFrame DEF Next, Confirm, GiveUp, Restart, Tick, vars
<1>. QED  BY <1>12 DEF Right, p

(* The end of a pass: the reasons of basilisk_swap_isfinished one by one.  *)
LEMMA BobFinishes ==
  ASSUME TypeOK, ViewsTrue, Atomic, SentAfterSaved, DepositFirst, OwnViewRight,
         view["bob"].at # 0, IsFinished("bob"), NEW o \in {"deposit", "payment"}
  PROVE  ~ Unspent(o)
<1> DEFINE v == view["bob"]
<1>1. \A r \in {"deposit", "payment"} :
        /\ v.by[r] # "none" => ~ Unspent(r)
        /\ r \notin v.sent => ~ OnChain(r)
        /\ r \notin file["bob"] => ~ OnChain(r)
  BY DEF OwnViewRight, SentAfterSaved, Own
<1>2. \A r \in Output, q \in Party : v.by[r] = q => spender[r] = q
  BY DEF ViewsTrue
<1>3. "deposit" \notin file["bob"] => "payment" \notin file["bob"]
  BY DEF DepositFirst
<1>4. spender["apayment"] = "bob" /\ spender["deposit"] = "bob" => spender["payment"] = "alice"
  BY DEF Atomic, Ledger!Atomic, Ledger!AmShown
<1> HIDE DEF v
<1>. QED
  BY <1>1, <1>2, <1>3, <1>4 DEF IsFinished, Unspent, v

LEMMA AliceFinishes ==
  ASSUME TypeOK, ViewsTrue, Atomic, SentAfterSaved, OwnViewRight,
         view["alice"].at # 0, IsFinished("alice"), OnChain("apayment")
  PROVE  \E o \in Output : spender[o] = "alice"
<1> DEFINE v == view["alice"]
<1>1. /\ v.by["apayment"] # "none" => ~ Unspent("apayment")
      /\ "apayment" \in v.sent /\ "apayment" \in file["alice"]
  BY DEF OwnViewRight, SentAfterSaved, Own
<1>2. \A r \in Output : v.by[r] = "alice" => spender[r] = "alice"
  BY DEF ViewsTrue
<1>3. ~ Unspent("apayment") => spender["apayment"] \in {"alice", "bob"}
  BY DEF Unspent, TypeOK
<1>4. spender["apayment"] = "bob" => spender["payment"] = "alice" \/ spender["deposit"] = "alice"
  BY DEF Atomic, Ledger!Atomic, Ledger!AmShown
<1> HIDE DEF v
<1>. QED
  BY <1>1, <1>2, <1>3, <1>4 DEF IsFinished, v

LEMMA DoneKept ==
  ASSUME Undisturbed, FInv, [Next]_vars
  PROVE  FinishedIsDone'
<1>1. ASSUME UNCHANGED finished  PROVE FinishedIsDone'
  <2>1. ASSUME NEW o \in Output, finished[Own(o)]
        PROVE  OnChain(o)' = OnChain(o)
    BY <2>1, Frozen, Places DEF FInv, PassAfterLoop
  <2>2. \A o \in Output : spender[o] # "none" => spender'[o] = spender[o]
    BY SpentStays DEF FInv
  <2>3. finished["bob"] => \A o \in {"deposit", "payment"} : Unspent(o)' => Unspent(o)
    BY <2>1, <2>2 DEF Unspent, Own
  <2>4. finished["alice"] => (OnChain("apayment")' => OnChain("apayment"))
    BY <2>1 DEF Own
  <2>. QED  BY <1>1, <2>2, <2>3, <2>4 DEF FInv, FinishedIsDone
<1>2. ASSUME NEW p \in Party, EndPass(p)  PROVE FinishedIsDone'
  <2>1. /\ view[p].at # 0 /\ UNCHANGED <<chain, spender>>
        /\ finished' = [finished EXCEPT ![p] = IsFinished(p)]
    BY <1>2 DEF EndPass
  <2>2. \A o \in Output : (OnChain(o)' <=> OnChain(o)) /\ (Unspent(o)' <=> Unspent(o))
    BY <2>1 DEF OnChain, Unspent
  <2>3. p = "bob" /\ IsFinished(p) => \A o \in {"deposit", "payment"} : ~ Unspent(o)
    BY <2>1, BobFinishes DEF FInv
  <2>4. p = "alice" /\ IsFinished(p) /\ OnChain("apayment") => \E o \in Output : spender[o] = "alice"
    BY <2>1, AliceFinishes DEF FInv
  <2>5. \A q \in Party : finished'[q] => IF q = p THEN IsFinished(p) ELSE finished[q]
    BY <2>1 DEF FInv, TypeOK
  <2>. QED  BY <2>1, <2>2, <2>3, <2>4, <2>5 DEF FInv, FinishedIsDone
<1>3. UNCHANGED finished \/ \E p \in Party : EndPass(p)
  BY LoopKinds
     DEF Next, Confirm, GiveUp, Look, Crash, Restart, Claim, Tick, vars,
         AliceFee, BobFee, ReceiveStep, AwaitStep, SaveStep, SendStep,
         Receive, Await, Save, Send
<1>. QED  BY <1>1, <1>2, <1>3

LEMMA InitFInv == Init => FInv
<1> SUFFICES ASSUME Init  PROVE FInv
  OBVIOUS
<1>1. SentAfterSaved
  BY DEF Init, SentAfterSaved, OnChain, Own, Sending
<1>2. DepositFirst /\ PassAfterLoop /\ FinishedIsDone
  BY DEF Init, DepositFirst, PassAfterLoop, FinishedIsDone, Deposited, NoPass
<1>3. OwnViewRight
  BY Places DEF Init, OwnViewRight, NoPass, Unspent, OnChain
<1>4. Atomic
  BY DEF Init, Atomic, Ledger!Atomic
<1>. QED  BY <1>1, <1>2, <1>3, <1>4, InitTypes, InitViews DEF FInv

LEMMA NextFInv == Undisturbed /\ FInv /\ [Next]_vars => FInv'
<1> SUFFICES ASSUME Undisturbed, FInv, [Next]_vars  PROVE FInv'
  OBVIOUS
<1>1. TypeOK' /\ ViewsTrue'
  BY NextTypes, NextViews DEF FInv
<1>2. Atomic'
  BY NextRefines, LedgerKeeps DEF FInv, Atomic
<1>3. SentAfterSaved' /\ DepositFirst' /\ PassAfterLoop' /\ OwnViewRight'
  BY SentKept, DepositKept, PassKept, ViewKept DEF FInv
<1>. QED  BY <1>1, <1>2, <1>3, DoneKept DEF FInv

(* Who holds a swap for finished has nothing left to take, if daemons      *)
(* answer, broadcasts arrive and passes wait for the loop.                 *)
THEOREM FinishedMeansDone == Undisturbed => (Spec => []FinishedIsDone)
<1>1. FInv => FinishedIsDone
  BY DEF FInv
<1>2. ASSUME Undisturbed  PROVE Spec => []FinishedIsDone
  <2>1. FInv /\ [Next]_vars => FInv'
    BY <1>2, NextFInv
  <2>. QED  BY <1>1, <2>1, InitFInv, PTL DEF Spec
<1>. QED  BY <1>2

-----------------------------------------------------------------------------
(* Bob against the clock.                                                  *)

(* When Bob takes his deposit back in any case.                            *)
LastCall == dlocktime - Margin

(* Bob is never away, his loop ends by the last call, and between the time *)
(* he can take his payment back and the last call there is one for a whole *)
(* pass.                                                                   *)
BobInTime ==
  /\ "bob" \notin Absent
  /\ 3 * Patience + 2 * ConfirmDelay <= LastCall
  /\ 2 * Margin + 2 <= Lock

(* The latest time at which Bob's loop is where it is.                     *)
ByFee == Patience
ByDeposit == Patience + ConfirmDelay
ByApayment == 3 * Patience + ConfirmDelay
ByPayment == 3 * Patience + 2 * ConfirmDelay

LoopInTime ==
  /\ \A o \in Output : pooled[o] <= now
  /\ chain["deposit"] = "pool" => pooled["deposit"] <= ByFee
  /\ pc["bob"] \in {"waitFee", "saveDeposit", "sendDeposit"} => now <= ByFee
  /\ pc["bob"] = "waitFee" => asked["bob"] = 0
  /\ pc["bob"] = "confDeposit" => OnChain("deposit") /\ now <= ByDeposit
  /\ pc["bob"] = "waitApayment" => asked["bob"] <= ByDeposit /\ now <= ByApayment
  /\ pc["bob"] = "confApayment" /\ chain["apayment"] = "pool" => pooled["apayment"] <= ByApayment
  /\ pc["bob"] \in {"confApayment", "savePayment", "sendPayment"} => now <= ByPayment

(* Bob's payment comes to its chain when Alice's is on hers and in his     *)
(* file, and ends his loop; only what is on a chain is spent, by Bob only  *)
(* after his loop, and his passes come after it too.                       *)
Received == OnChain("apayment") /\ "apayment" \in file["bob"]

PaymentLast ==
  /\ pc["bob"] \in {"confApayment", "savePayment", "sendPayment"} => Received
  /\ OnChain("payment") => Received /\ pc["bob"] \in {"over", "down"}
  /\ \A o \in Output : spender[o] # "none" => OnChain(o)
  /\ \A o \in Output : spender[o] = "bob" => pc["bob"] \in {"over", "down"}
  /\ passed["bob"] => pc["bob"] \in {"over", "down"}

(* Bob, who makes a pass at every time, ended one later than t.            *)
Later(t) == now > t + 1 \/ (passed["bob"] /\ now > t)
Reclaim == plocktime + Margin

(* From plocktime + Margin on, a pass leaves no payment of his unspent, so *)
(* that a pass as late as the last call sees who spent it.                 *)
Reclaimed ==
  /\ view["bob"].at >= 3 /\ Later(Reclaim) => ~ Unspent("payment")
  /\ Later(LastCall - 1) => ~ Unspent("payment")
  /\ view["bob"].at # 0 /\ Later(LastCall - 1) /\ OnChain("payment")
       => spender["payment"] = "bob" \/ view["bob"].by["payment"] = "alice"

(* Where a pass sees Alice's claim of his payment, it claims hers before   *)
(* it comes to his deposit.                                                *)
PaidFirst ==
  /\ view["bob"].at >= 2 /\ view["bob"].by["payment"] = "alice"
       => view["bob"].by["apayment"] # "none"
  /\ view["bob"].by["apayment"] # "none" /\ OnChain("payment")
       => spender["apayment"] # "none"

(* When Bob takes his deposit back, nothing is left for Alice to take.     *)
DepositLast ==
  spender["deposit"] = "bob" =>
    \/ spender["payment"] = "bob"
    \/ spender["apayment"] = "bob"
    \/ ~ OnChain("payment")

-----------------------------------------------------------------------------
(* What the steps do to an output and to Bob's loop.                       *)

LEMMA TimesAreOrdered ==
  /\ Lock \in Nat /\ Margin \in Nat /\ Patience \in Nat /\ ConfirmDelay \in Nat
  /\ ByFee \in Nat /\ ByDeposit \in Nat /\ ByApayment \in Nat /\ ByPayment \in Nat
  /\ ByFee <= ByDeposit /\ ByDeposit <= ByApayment /\ ByApayment <= ByPayment
  /\ ByDeposit = ByFee + ConfirmDelay
  /\ ByApayment = ByDeposit + 2 * Patience
  /\ ByPayment = ByApayment + ConfirmDelay
  /\ Reclaim \in Nat /\ LastCall \in Int
BY SwapAssumption
   DEF ByFee, ByDeposit, ByApayment, ByPayment, Reclaim, LastCall, plocktime, dlocktime

(* What a step of the loops does to one output: nothing, or its owner      *)
(* sends it and goes on.                                                   *)
LEMMA Pools ==
  ASSUME Undisturbed, TypeOK, SentAfterSaved, LoopStep, NEW o \in Output
  PROVE  \/ chain'[o] = chain[o] /\ pooled'[o] = pooled[o]
         \/ /\ pc[Own(o)] = Sending(o) /\ pc'[Own(o)] # Sending(o)
            /\ chain[o] = "none" /\ chain'[o] = "pool" /\ pooled'[o] = now
<1>1. ASSUME NEW p \in Party, NEW r \in Output, NEW from, NEW to, Receive(p, r, from, to)
      PROVE  UNCHANGED <<chain, pooled>>
  BY <1>1 DEF Receive, Broadcast, Undisturbed, SentAfterSaved, OnChain
<1>2. ASSUME NEW r \in Output, NEW to \in Quiet, Send(Own(r), r, Sending(r), to)
      PROVE  \/ chain'[o] = chain[o] /\ pooled'[o] = pooled[o]
             \/ /\ pc[Own(o)] = Sending(o) /\ pc'[Own(o)] # Sending(o)
                /\ chain[o] = "none" /\ chain'[o] = "pool" /\ pooled'[o] = now
  <2>1. CASE r # o
    BY <1>2, <2>1 DEF Send, Broadcast, TypeOK
  <2>2. CASE r = o
    <3>1. pc'[Own(o)] = to /\ to # Sending(o)
      BY <1>2, <2>2, Places DEF Send, Enter, TypeOK, Quiet, Sending
    <3>. QED  BY <1>2, <2>2, <3>1 DEF Send, Broadcast, OnChain, TypeOK
  <2>. QED  BY <2>1, <2>2
<1>3. CASE AliceFee \/ BobFee \/ AwaitStep \/ SaveStep
  BY <1>3 DEF AliceFee, BobFee, AwaitStep, SaveStep, Await, Save
<1>4. CASE ReceiveStep
  BY <1>1, <1>4 DEF ReceiveStep
<1>5. CASE SendStep
  BY <1>2, <1>5 DEF SendStep
<1>. QED  BY <1>3, <1>4, <1>5, LoopKinds

(* The steps of Alice's loop leave Bob's where it is.                      *)
LEMMA BobMoves ==
  ASSUME TypeOK, LoopStep
  PROVE  BobLoop \/ (pc'["bob"] = pc["bob"] /\ asked'["bob"] = asked["bob"])
<1>1. ASSUME NEW o, NEW from, NEW to,
             \/ Receive("alice", o, from, to) \/ Await("alice", o, from, to)
             \/ Save("alice", o, from, to) \/ Send("alice", o, from, to)
      PROVE  pc'["bob"] = pc["bob"] /\ asked'["bob"] = asked["bob"]
  BY <1>1 DEF Receive, Await, Save, Send, Enter, TypeOK
<1>2. CASE AliceFee
  BY <1>2 DEF AliceFee, Enter, TypeOK
<1>. QED  BY <1>1, <1>2 DEF LoopStep, AliceLoop

(* What is on its chain stays there.                                       *)
LEMMA ChainStays ==
  ASSUME Undisturbed, TypeOK, SentAfterSaved, [Next]_vars, NEW o \in Output, OnChain(o)
  PROVE  OnChain(o)'
<1>1. CASE LoopStep
  BY <1>1, LoopChain
<1>2. ASSUME NEW r \in Output, Confirm(r)  PROVE OnChain(o)'
  BY <1>2 DEF Confirm, OnChain, TypeOK
<1>3. ASSUME UNCHANGED chain  PROVE OnChain(o)'
  BY <1>3 DEF OnChain
<1>. QED
  BY <1>1, <1>2, <1>3 DEF Next, GiveUp, Look, EndPass, Crash, Restart, Claim, Tick, vars

(* A loop that is over does not begin again.                               *)
LEMMA OverStays ==
  ASSUME TypeOK, [Next]_vars, NEW p \in Party, pc[p] \in {"over", "down"}
  PROVE  pc'[p] \in {"over", "down"}
<1>1. CASE LoopStep
  BY <1>1, LoopMover
<1>2. ASSUME NEW q \in Party, GiveUp(q) \/ Crash(q) \/ Restart(q)
      PROVE  pc'[p] \in {"over", "down"}
  BY <1>2 DEF GiveUp, Crash, Restart, Enter, TypeOK
<1>. QED
  BY <1>1, <1>2 DEF Next, Confirm, Look, EndPass, Claim, Tick, vars

-----------------------------------------------------------------------------
(* Bob's loop is in time.                                                  *)

LEMMA LoopStepInTime ==
  ASSUME Undisturbed, TypeOK, SentAfterSaved, PaymentLast, LoopInTime, LoopStep
  PROVE  LoopInTime'
<1>0. /\ now' = now /\ now \in Nat
      /\ pooled \in [Output -> Nat] /\ asked \in [Party -> Nat]
  BY LoopFrame DEF TypeOK
<1>1. \A o \in Output : pooled'[o] <= now'
  BY <1>0, Pools DEF LoopInTime
<1>2. chain'["deposit"] = "pool" => pooled'["deposit"] <= ByFee
  BY <1>0, Pools, Places DEF LoopInTime
<1>3. OnChain("apayment") /\ chain'["apayment"] = "pool"
        => chain["apayment"] = "pool" /\ pooled'["apayment"] = pooled["apayment"]
  BY Pools DEF OnChain
<1>4. OnChain("deposit") => OnChain("deposit")'
  BY Pools DEF OnChain
<1>5. CASE pc'["bob"] = pc["bob"] /\ asked'["bob"] = asked["bob"]
  BY <1>0, <1>1, <1>2, <1>3, <1>4, <1>5 DEF LoopInTime, PaymentLast, Received
<1>6. ASSUME NEW to \in {"saveDeposit", "sendDeposit", "over"},
             pc'["bob"] = to,
             pc["bob"] \in {"waitFee", "saveDeposit", "savePayment", "sendPayment", "confApayment"},
             to # "over" => pc["bob"] \in {"waitFee", "saveDeposit"}
      PROVE  LoopInTime'
  BY <1>0, <1>1, <1>2, <1>6 DEF LoopInTime
<1>7. CASE BobFee
  <2>1. pc["bob"] = "waitFee" /\ pc'["bob"] = "saveDeposit"
    BY <1>7 DEF BobFee, Enter, TypeOK
  <2>. QED  BY <1>6, <2>1
<1>8. CASE Save("bob", "deposit", "saveDeposit", "sendDeposit")
  <2>1. pc["bob"] = "saveDeposit" /\ pc'["bob"] \in {"sendDeposit", "over"}
    BY <1>8 DEF Save, Enter, TypeOK
  <2>. QED  BY <1>6, <2>1
<1>9. CASE Send("bob", "deposit", "sendDeposit", "confDeposit")
  <2>1. pc["bob"] = "sendDeposit" /\ pc'["bob"] = "confDeposit"
    BY <1>9 DEF Send, Enter, TypeOK
  <2>2. OnChain("deposit")'
    BY <1>9 DEF Send, Broadcast, OnChain, TypeOK, Undisturbed
  <2>. QED  BY <1>0, <1>1, <1>2, <2>1, <2>2, TimesAreOrdered DEF LoopInTime
<1>10. CASE Await("bob", "deposit", "confDeposit", "waitApayment")
  <2>1. pc["bob"] = "confDeposit" /\ pc'["bob"] = "waitApayment" /\ asked'["bob"] = now
    BY <1>10 DEF Await, Enter, TypeOK, Waits
  <2>. QED  BY <1>0, <1>1, <1>2, <2>1, TimesAreOrdered DEF LoopInTime
<1>11. CASE Receive("bob", "apayment", "waitApayment", "confApayment")
  <2>1. pc["bob"] = "waitApayment" /\ pc'["bob"] \in {"confApayment", "over"}
    BY <1>11 DEF Receive, Enter, TypeOK
  <2>2. pooled'["apayment"] <= ByApayment
    BY <1>0, <1>1, <2>1, Pools, TimesAreOrdered DEF LoopInTime
  <2>. QED  BY <1>0, <1>1, <1>2, <2>1, <2>2, TimesAreOrdered DEF LoopInTime
<1>12. CASE Await("bob", "apayment", "confApayment", "savePayment")
  <2>1. pc["bob"] = "confApayment" /\ pc'["bob"] = "savePayment"
    BY <1>12 DEF Await, Enter, TypeOK
  <2>. QED  BY <1>0, <1>1, <1>2, <2>1 DEF LoopInTime
<1>13. CASE Save("bob", "payment", "savePayment", "sendPayment")
  <2>1. pc["bob"] = "savePayment" /\ pc'["bob"] \in {"sendPayment", "over"}
    BY <1>13 DEF Save, Enter, TypeOK
  <2>. QED  BY <1>0, <1>1, <1>2, <2>1 DEF LoopInTime
<1>14. CASE Send("bob", "payment", "sendPayment", "over")
  <2>1. pc["bob"] = "sendPayment" /\ pc'["bob"] = "over"
    BY <1>14 DEF Send, Enter, TypeOK
  <2>. QED  BY <1>6, <2>1
<1>. QED
  BY <1>5, <1>7, <1>8, <1>9, <1>10, <1>11, <1>12, <1>13, <1>14, BobMoves DEF BobLoop

LEMMA TickInTime ==
  ASSUME BobInTime, TypeOK, PaymentLast, LoopInTime, Tick
  PROVE  LoopInTime'
<1>1. Idle("bob")
  BY DEF BobInTime, Tick
<1>2. /\ now' = now + 1 /\ now \in Nat
      /\ UNCHANGED <<chain, pooled, asked, pc>>
      /\ pooled \in [Output -> Nat] /\ asked \in [Party -> Nat]
      /\ \A o \in Output : chain[o] = "pool" => now < pooled[o] + ConfirmDelay
  BY DEF Tick, TypeOK
<1>3. pc["bob"] \notin {"saveDeposit", "sendDeposit", "savePayment", "sendPayment"}
  BY <1>1 DEF Idle
<1>4. pc["bob"] = "waitFee" => now < Patience
  BY <1>1, <1>2, TimesAreOrdered DEF Idle, Deadline, LoopInTime
<1>5. pc["bob"] = "confDeposit" => chain["deposit"] = "pool"
  BY <1>1 DEF Idle, LoopInTime, OnChain, TypeOK
<1>6. pc["bob"] = "waitApayment" => now < ByDeposit + 2 * Patience
  BY <1>1, <1>2, TimesAreOrdered DEF Idle, Deadline, LoopInTime
<1>7. pc["bob"] = "confApayment" => chain["apayment"] = "pool"
  BY <1>1 DEF Idle, PaymentLast, Received, OnChain, TypeOK
<1>8. \A o \in Output : pooled'[o] <= now'
  BY <1>2 DEF LoopInTime
<1>9. chain'["deposit"] = "pool" => pooled'["deposit"] <= ByFee
  BY <1>2 DEF LoopInTime
<1>10. /\ pc["bob"] = "waitFee" => now' <= ByFee
       /\ pc["bob"] = "confDeposit" => now' <= ByDeposit
       /\ pc["bob"] = "waitApayment" => now' <= ByApayment
       /\ pc["bob"] = "confApayment" => now' <= ByPayment
  <2>1. pc["bob"] = "waitFee" => now' <= ByFee
    BY <1>2, <1>4, TimesAreOrdered DEF ByFee
  <2>2. pc["bob"] = "confDeposit" => now' <= ByDeposit
    BY <1>2, <1>5, TimesAreOrdered DEF LoopInTime
  <2>3. pc["bob"] = "waitApayment" => now' <= ByApayment
    BY <1>2, <1>6, TimesAreOrdered
  <2>4. pc["bob"] = "confApayment" => now' <= ByPayment
    BY <1>2, <1>7, TimesAreOrdered DEF LoopInTime
  <2>. QED  BY <2>1, <2>2, <2>3, <2>4
<1>. QED
  BY <1>2, <1>3, <1>8, <1>9, <1>10 DEF LoopInTime, OnChain

LEMMA InTimeKept ==
  ASSUME Undisturbed, BobInTime, TypeOK, SentAfterSaved, PaymentLast, LoopInTime, [Next]_vars
  PROVE  LoopInTime'
<1>1. CASE LoopStep
  BY <1>1, LoopStepInTime
<1>2. ASSUME NEW o \in Output, Confirm(o)  PROVE LoopInTime'
  BY <1>2 DEF Confirm, TypeOK, LoopInTime, OnChain
<1>3. ASSUME NEW p \in Party, GiveUp(p) \/ Crash(p) \/ Restart(p)  PROVE LoopInTime'
  BY <1>3 DEF GiveUp, Crash, Restart, Enter, TypeOK, LoopInTime, OnChain
<1>4. CASE Tick
  BY <1>4, TickInTime
<1>5. ASSUME UNCHANGED <<now, chain, pooled, pc, asked>>  PROVE LoopInTime'
  BY <1>5 DEF LoopInTime, OnChain
<1>. QED
  BY <1>1, <1>2, <1>3, <1>4, <1>5 DEF Next, Look, EndPass, Claim, vars

-----------------------------------------------------------------------------
(* Bob's payment is last.                                                  *)

LEMMA InitPaymentLast == Init => PaymentLast
BY DEF Init, PaymentLast, Received, OnChain

(* An output is spent by a claim, and by no other step.                    *)
LEMMA Spenders ==
  ASSUME [Next]_vars
  PROVE  UNCHANGED spender \/ \E p \in Party, o \in Output : Claim(p, o)
BY LoopFrame DEF Next, Confirm, GiveUp, Look, EndPass, Crash, Restart, Tick, vars

(* The steps that set the clock, or that Bob did what he could.            *)
LEMMA BobTimes ==
  ASSUME TypeOK, [Next]_vars
  PROVE  EndPass("bob") \/ Tick \/ (now' = now /\ passed'["bob"] = passed["bob"])
<1>1. CASE LoopStep
  <2>1. UNCHANGED passed
    BY <1>1, LoopKinds
       DEF AliceFee, BobFee, ReceiveStep, AwaitStep, SaveStep, SendStep,
           Receive, Await, Save, Send
  <2>. QED  BY <1>1, <2>1, LoopFrame
<1>. QED
  BY <1>1 DEF Next, Confirm, GiveUp, Look, EndPass, Crash, Restart, Claim, vars, TypeOK

(* No transaction is taken from a file.                                    *)
LEMMA FilesStay ==
  ASSUME TypeOK, [Next]_vars
  PROVE  file["bob"] \subseteq file'["bob"]
<1>1. CASE LoopStep
  BY <1>1, LoopKinds
     DEF AliceFee, BobFee, ReceiveStep, AwaitStep, SaveStep, SendStep,
         Receive, Await, Save, Send, TypeOK
<1>. QED
  BY <1>1 DEF Next, Confirm, GiveUp, Look, EndPass, Crash, Restart, Claim, Tick, vars

LEMMA PaymentLastKept ==
  ASSUME Undisturbed, TypeOK, SentAfterSaved, PassAfterLoop, PaymentLast, [Next]_vars
  PROVE  PaymentLast'
<1>1. /\ \A o \in Output : OnChain(o) => OnChain(o)'
      /\ Received => Received'
  BY ChainStays, FilesStay DEF Received
<1>2. pc["bob"] \in {"over", "down"} => pc'["bob"] \in {"over", "down"}
  BY OverStays
<1>3. pc'["bob"] \in {"confApayment", "savePayment", "sendPayment"} => Received'
  <2>1. CASE pc'["bob"] = pc["bob"]
    BY <1>1, <2>1 DEF PaymentLast
  <2>2. CASE BobLoop
    <3>1. CASE BobFee
      BY <3>1 DEF BobFee, Enter, TypeOK
    <3>2. ASSUME NEW o, NEW from, NEW to \in Pc \ {"confApayment", "savePayment", "sendPayment"},
                 Save("bob", o, from, to) \/ Send("bob", o, from, to) \/ Await("bob", o, from, to)
          PROVE  pc'["bob"] \notin {"confApayment", "savePayment", "sendPayment"}
      BY <3>2 DEF Save, Send, Await, Enter, TypeOK
    <3>3. CASE Receive("bob", "apayment", "waitApayment", "confApayment")
      BY <3>3 DEF Receive, Enter, TypeOK, OnChain, Received
    <3>4. CASE Await("bob", "apayment", "confApayment", "savePayment")
      BY <1>1, <3>4 DEF Await, PaymentLast
    <3>5. CASE Save("bob", "payment", "savePayment", "sendPayment")
      BY <1>1, <3>5 DEF Save, PaymentLast
    <3>. QED  BY <2>2, <3>1, <3>2, <3>3, <3>4, <3>5 DEF BobLoop, Pc, Waits
  <2>3. ASSUME NEW p \in Party, GiveUp(p) \/ Crash(p) \/ Restart(p)
        PROVE  pc'["bob"] \in {pc["bob"], "over", "down"}
    BY <2>3 DEF GiveUp, Crash, Restart, Enter, TypeOK
  <2>. QED
    BY <2>1, <2>2, <2>3, BobMoves DEF Next, Confirm, Look, EndPass, Claim, Tick, vars
<1>4. OnChain("payment")' => Received' /\ pc'["bob"] \in {"over", "down"}
  <2>1. CASE OnChain("payment")
    BY <1>1, <1>2, <2>1 DEF PaymentLast
  <2>2. CASE OnChain("payment")' /\ ~ OnChain("payment") /\ LoopStep
    <3>1. pc["bob"] = "sendPayment" /\ pc'["bob"] # "sendPayment"
      BY <2>2, Pools, Places DEF OnChain
    <3>2. BobLoop
      BY <2>2, <3>1, BobMoves
    <3>3. Send("bob", "payment", "sendPayment", "over")
      BY <3>1, <3>2 DEF BobLoop, BobFee, Save, Send, Receive, Await
    <3>4. pc'["bob"] = "over"
      BY <3>3 DEF Send, Enter, TypeOK
    <3>. QED  BY <1>1, <3>1, <3>4 DEF PaymentLast
  <2>3. ASSUME NEW o \in Output, Confirm(o)  PROVE OnChain("payment")' = OnChain("payment")
    BY <2>3 DEF Confirm, OnChain, TypeOK
  <2>4. ASSUME UNCHANGED chain  PROVE OnChain("payment")' = OnChain("payment")
    BY <2>4 DEF OnChain
  <2>. QED
    BY <2>1, <2>2, <2>3, <2>4 DEF Next, GiveUp, Look, EndPass, Crash, Restart, Claim, Tick, vars
<1>5. ASSUME NEW o \in Output
      PROVE  /\ spender'[o] # "none" => OnChain(o)'
             /\ spender'[o] = "bob" => pc'["bob"] \in {"over", "down"}
  <2>1. CASE UNCHANGED spender
    BY <1>1, <1>2, <2>1 DEF PaymentLast
  <2>2. ASSUME NEW p \in Party, NEW r \in Output, Claim(p, r)
        PROVE  /\ spender'[o] # "none" => spender[o] # "none" \/ OnChain(o)
               /\ spender'[o] = "bob" => spender[o] = "bob" \/ pc["bob"] = "over"
    <3>1. view[p].at # 0
      BY <2>2 DEF Claim
    <3>2. pc[p] = "over"
      BY <3>1 DEF PassAfterLoop
    <3>. QED  BY <2>2, <3>2 DEF Claim, Answered, Unspent, TypeOK
  <2>. QED  BY <1>1, <1>2, <2>1, <2>2, Spenders DEF PaymentLast
<1>6. passed'["bob"] => pc'["bob"] \in {"over", "down"}
  <2>1. CASE passed'["bob"] = passed["bob"]
    BY <1>2, <2>1 DEF PaymentLast
  <2>2. CASE EndPass("bob")
    BY <2>2 DEF EndPass, PassAfterLoop
  <2>3. CASE Tick
    BY <2>3 DEF Tick
  <2>. QED  BY <2>1, <2>2, <2>3, BobTimes
<1>. QED  BY <1>3, <1>4, <1>5, <1>6 DEF PaymentLast

-----------------------------------------------------------------------------
(* What Bob's passes see and do.                                           *)

(* What a pass starts from: the spends by Alice of what Bob wrote down.    *)
LEMMA BobLooks ==
  ASSUME Undisturbed, TypeOK, Look("bob")
  PROVE  /\ view'["bob"].at = 1
         /\ \A o \in Output : view'["bob"].by[o] \in {"none", spender[o]}
         /\ \A o \in file["bob"] : spender[o] = "alice" => view'["bob"].by[o] = "alice"
         /\ pc["bob"] = "over"
         /\ UNCHANGED <<now, chain, spender, file, pc, passed>>
<1>1. PICK unseen \in Unanswered("bob"), unfound \in Unanswered("bob"),
           own \in SUBSET {r \in file["bob"] : spender[r] = "bob"} :
        LET found == {r \in file["bob"] \ unfound : spender[r] = Other("bob")} \cup own
        IN  view' = [view EXCEPT !["bob"] =
              [at |-> 1,
               sent |-> {r \in file["bob"] \ unseen : OnChain(r)} \cup found,
               by |-> [r \in Output |-> IF r \in found THEN spender[r] ELSE "none"]]]
  BY DEF Look
<1>2. unfound = {} /\ Other("bob") = "alice"
  BY DEF Unanswered, Undisturbed, Other
<1>3. file["bob"] \subseteq Output
  BY DEF TypeOK
<1>. QED  BY <1>1, <1>2, <1>3 DEF Look, TypeOK, Undisturbed

(* One claim of a pass, where daemons answer and broadcasts arrive.        *)
LEMMA BobClaims ==
  ASSUME Undisturbed, TypeOK, NEW o \in Output, Claim("bob", o)
  PROVE  /\ view["bob"].at \in 1 .. 3 /\ o = Claimed("bob")[view["bob"].at]
         /\ view'["bob"].at = view["bob"].at + 1
         /\ \A r \in Output \ {o} : /\ view'["bob"].by[r] = view["bob"].by[r]
                                    /\ spender'[r] = spender[r]
         /\ UNCHANGED <<now, chain, file, pc, passed>>
         /\ \/ ~ Tries("bob", o) /\ view'["bob"].by[o] = view["bob"].by[o] /\ UNCHANGED spender
            \/ /\ Tries("bob", o) /\ ~ Answered("bob", o)
               /\ view'["bob"].by[o] = "dead" /\ UNCHANGED spender
            \/ /\ Tries("bob", o) /\ Answered("bob", o) /\ Claims("bob", o)
               /\ view'["bob"].by[o] = "bob" /\ spender'[o] = "bob"
            \/ /\ Tries("bob", o) /\ Answered("bob", o) /\ ~ Claims("bob", o)
               /\ view'["bob"].by[o] = "none" /\ UNCHANGED spender
<1>1. view["bob"] \in View /\ view["bob"].by \in [Output -> Party \cup {"none", "dead"}]
  BY ViewType DEF TypeOK
<1>2. ASSUME NEW s, view' = [view EXCEPT !["bob"].at = @ + 1, !["bob"].by[o] = s]
      PROVE  /\ view'["bob"].at = view["bob"].at + 1
             /\ view'["bob"].by[o] = s
             /\ \A r \in Output \ {o} : view'["bob"].by[r] = view["bob"].by[r]
  BY <1>1, <1>2 DEF TypeOK, View
<1>3. /\ view["bob"].at \in 1 .. 3 /\ o = Claimed("bob")[view["bob"].at]
      /\ UNCHANGED <<now, chain, file, pc, passed>>
  BY DEF Claim
<1>4. spender \in [Output -> Party \cup {"none"}]
  BY DEF TypeOK
<1>5. \/ ~ Tries("bob", o) /\ UNCHANGED spender
         /\ view' = [view EXCEPT !["bob"].at = @ + 1, !["bob"].by[o] = view["bob"].by[o]]
      \/ Tries("bob", o) /\ ~ Answered("bob", o) /\ UNCHANGED spender
         /\ view' = [view EXCEPT !["bob"].at = @ + 1, !["bob"].by[o] = "dead"]
      \/ Tries("bob", o) /\ Answered("bob", o) /\ Claims("bob", o)
         /\ view' = [view EXCEPT !["bob"].at = @ + 1, !["bob"].by[o] = "bob"]
         /\ spender' = [spender EXCEPT ![o] = "bob"]
      \/ Tries("bob", o) /\ Answered("bob", o) /\ ~ Claims("bob", o) /\ UNCHANGED spender
         /\ view' = [view EXCEPT !["bob"].at = @ + 1, !["bob"].by[o] = "none"]
  BY DEF Claim, Undisturbed
<1>. QED  BY <1>2, <1>3, <1>4, <1>5

(* The steps that change Bob's view.                                       *)
LEMMA BobViews ==
  ASSUME TypeOK, [Next]_vars
  PROVE  \/ view'["bob"] = view["bob"] \/ view'["bob"] = NoPass
         \/ Look("bob") \/ \E o \in Output : Claim("bob", o)
<1>1. ASSUME NEW q \in Party, EndPass(q) \/ Crash(q)
      PROVE  view'["bob"] = view["bob"] \/ view'["bob"] = NoPass
  BY <1>1 DEF EndPass, Crash, TypeOK
<1>2. ASSUME NEW q \in Party, Look(q), q # "bob"  PROVE view'["bob"] = view["bob"]
  BY <1>2 DEF Look, TypeOK
<1>3. ASSUME NEW q \in Party, NEW o \in Output, Claim(q, o), q # "bob"
      PROVE  view'["bob"] = view["bob"]
  BY <1>3 DEF Claim, TypeOK
<1>4. UNCHANGED view => view'["bob"] = view["bob"]
  OBVIOUS
<1>. QED
  BY <1>1, <1>2, <1>3, <1>4, LoopFrame DEF Next, Confirm, GiveUp, Restart, Tick, vars

-----------------------------------------------------------------------------
(* Bob takes his payment back in time, or sees who did.                    *)

LEMMA InitReclaimed == Init => Reclaimed
BY DEF Init, Reclaimed, NoPass, Unspent, OnChain

(* After the last call, or after his loop, Bob sends no payment: one that  *)
(* is not unspent stays so.                                                *)
LEMMA StaysTaken ==
  ASSUME Undisturbed, BobInTime, TypeOK, SentAfterSaved, LoopInTime, PaymentLast, [Next]_vars,
         ~ Unspent("payment"), Later(LastCall - 1) \/ pc["bob"] = "over"
  PROVE  ~ Unspent("payment")'
<1>1. CASE OnChain("payment")
  BY <1>1, SpentStays DEF Unspent
<1>2. CASE ~ OnChain("payment") /\ OnChain("payment")'
  <2>1. LoopStep
    <3>1. ASSUME NEW o \in Output, Confirm(o)  PROVE OnChain("payment")' = OnChain("payment")
      BY <3>1 DEF Confirm, OnChain, TypeOK
    <3>2. ASSUME UNCHANGED chain  PROVE OnChain("payment")' = OnChain("payment")
      BY <3>2 DEF OnChain
    <3>. QED
      BY <1>2, <3>1, <3>2 DEF Next, GiveUp, Look, EndPass, Crash, Restart, Claim, Tick, vars
  <2>2. pc["bob"] = "sendPayment"
    BY <1>2, <2>1, LoopChain, Places
  <2>3. ~ passed["bob"]
    BY <2>2 DEF PaymentLast
  <2>4. now <= LastCall /\ now \in Nat
    BY <2>2, TimesAreOrdered DEF LoopInTime, BobInTime, ByPayment, TypeOK
  <2>. QED  BY <2>2, <2>3, <2>4, TimesAreOrdered DEF Later
<1>. QED  BY <1>1, <1>2 DEF Unspent

(* What Bob's idleness means when the clock goes on.                       *)
LEMMA BobRests ==
  ASSUME BobInTime, TypeOK, PaymentLast, FinishedIsDone, Tick
  PROVE  /\ view["bob"].at # 0 => passed["bob"]
         /\ passed["bob"] \/ ~ Unspent("payment")
         /\ now \in Nat /\ now' = now + 1 /\ ~ passed'["bob"]
         /\ UNCHANGED <<chain, spender, view>>
<1>1. Idle("bob")
  BY DEF BobInTime, Tick
<1>2. pc["bob"] = "over" => passed["bob"] \/ finished["bob"]
  BY <1>1 DEF Idle
<1>3. pc["bob"] # "down"
  BY <1>1 DEF Idle
<1>4. pc["bob"] # "over" => ~ Unspent("payment")
  BY <1>3 DEF PaymentLast, Unspent
<1>. QED  BY <1>1, <1>2, <1>4 DEF Idle, FinishedIsDone, Tick, TypeOK

LEMMA ReclaimedKept ==
  ASSUME Undisturbed, BobInTime, FInv, LoopInTime, PaymentLast, Reclaimed, [Next]_vars
  PROVE  Reclaimed'
<1> USE DEF FInv
<1>0. /\ now \in Nat /\ Reclaim \in Nat /\ passed["bob"] \in BOOLEAN
      /\ LastCall \in Int /\ Reclaim + 2 <= LastCall
  BY TimesAreOrdered DEF TypeOK, BobInTime, Reclaim, LastCall, plocktime, dlocktime
<1>1. CASE Tick
  <2>1. \A t \in Int : Later(t)' => now > t
    BY <1>0, <1>1, BobRests DEF Later
  <2>2. view["bob"].at # 0 => (\A t \in Int : Later(t)' => Later(t))
    BY <1>1, <2>1, BobRests DEF Later
  <2>3. Unspent("payment") => (\A t \in Int : Later(t)' => Later(t))
    BY <1>1, <2>1, BobRests DEF Later
  <2>4. (Unspent("payment")' <=> Unspent("payment")) /\ (OnChain("payment")' <=> OnChain("payment"))
    BY <1>1 DEF Tick, Unspent, OnChain
  <2>. QED
    BY <1>0, <1>1, <2>2, <2>3, <2>4, BobRests DEF Reclaimed
<1>2. CASE EndPass("bob")
  <2>1. view["bob"].at = 4 /\ view'["bob"] = NoPass /\ now' = now
    BY <1>2 DEF EndPass, TypeOK
  <2>2. Later(LastCall - 1)' => Later(Reclaim)
    BY <1>0, <2>1 DEF Later
  <2>3. Unspent("payment")' <=> Unspent("payment")
    BY <1>2 DEF EndPass, Unspent, OnChain
  <2>. QED  BY <1>0, <2>1, <2>2, <2>3 DEF Reclaimed, NoPass
<1>3. CASE now' = now /\ passed'["bob"] = passed["bob"]
  <2>1. \A t \in Int : Later(t)' <=> Later(t)
    BY <1>3 DEF Later
  <2>3. Later(LastCall - 1)' => ~ Unspent("payment")'
    BY <1>0, <2>1, StaysTaken DEF Reclaimed
  <2>4. view["bob"].at # 0 => pc["bob"] = "over"
    BY DEF PassAfterLoop
  <2>5. view["bob"].at # 0 => OnChain("payment")' = OnChain("payment")
    BY <2>4, Frozen, Places
  <2>6. spender["payment"] = "bob" => spender'["payment"] = "bob"
    BY SpentStays
  <2>7. /\ view["bob"].at >= 3 /\ Later(Reclaim)' => ~ Unspent("payment")'
        /\ view["bob"].at # 0 /\ Later(LastCall - 1)' /\ OnChain("payment")'
             => spender'["payment"] = "bob" \/ view["bob"].by["payment"] = "alice"
    <3>1. view["bob"].at \in 0 .. 4
      BY ViewType DEF TypeOK
    <3>. QED  BY <1>0, <2>1, <2>4, <2>5, <2>6, <3>1, StaysTaken DEF Reclaimed
  <2>8. CASE view'["bob"] = view["bob"]
    BY <2>3, <2>7, <2>8 DEF Reclaimed
  <2>9. CASE view'["bob"] = NoPass
    BY <2>3, <2>9 DEF Reclaimed, NoPass
  <2>10. CASE Look("bob")
    <3>1. view'["bob"].at = 1 /\ spender' = spender
      BY <2>10, BobLooks
    <3>2. ASSUME Later(LastCall - 1)', OnChain("payment")'
          PROVE  spender'["payment"] = "bob" \/ view'["bob"].by["payment"] = "alice"
      <4>1. OnChain("payment")
        BY <2>10, <3>2 DEF Look, OnChain
      <4>2. spender["payment"] \in Party
        BY <1>0, <2>1, <3>2, <4>1 DEF Reclaimed, Unspent, TypeOK
      <4>3. "payment" \in file["bob"]
        BY <4>1, Places DEF SentAfterSaved
      <4>. QED  BY <2>10, <3>1, <4>2, <4>3, BobLooks
    <3>. QED  BY <2>3, <3>1, <3>2 DEF Reclaimed
  <2>11. ASSUME NEW o \in Output, Claim("bob", o)  PROVE Reclaimed'
    <3>1. /\ view["bob"].at \in 1 .. 3 /\ o = Claimed("bob")[view["bob"].at]
          /\ view'["bob"].at = view["bob"].at + 1
      BY <2>11, BobClaims
    <3>2. view["bob"].by["payment"] = "alice" => view'["bob"].by["payment"] = "alice"
      BY <2>11, BobClaims DEF Tries
    <3>3. ASSUME view'["bob"].at >= 3, Later(Reclaim)'  PROVE ~ Unspent("payment")'
      <4>1. CASE view["bob"].at = 3
        BY <2>7, <3>3, <4>1
      <4>2. CASE view["bob"].at = 2
        <5>1. o = "payment"
          BY <3>1, <4>2 DEF Claimed
        <5>2. Claims("bob", "payment")
          BY <1>0, <1>3, <3>3 DEF Later, Claims, Reclaim
        <5>3. CASE ~ Tries("bob", "payment")
          <6>1. "payment" \notin file["bob"] \/ view["bob"].by["payment"] # "none"
            BY <5>3 DEF Tries
          <6>2. ~ Unspent("payment")
            BY <6>1, Places DEF OwnViewRight, SentAfterSaved, Unspent
          <6>. QED  BY <2>4, <4>2, <6>2, StaysTaken
        <5>4. CASE ~ Unspent("payment")
          BY <2>4, <4>2, <5>4, StaysTaken
        <5>5. CASE Tries("bob", "payment") /\ Unspent("payment")
          <6>1. "payment" \in file["bob"]
            BY <5>5 DEF Tries
          <6>2. Answered("bob", "payment")
            BY <5>5, <6>1 DEF Answered
          <6>3. spender'["payment"] = "bob"
            BY <2>11, <5>1, <5>2, <5>5, <6>2, BobClaims
          <6>. QED  BY <6>3 DEF Unspent
        <5>. QED  BY <5>3, <5>4, <5>5
      <4>. QED  BY <3>1, <3>3, <4>1, <4>2
    <3>4. view["bob"].at # 0
      BY <3>1
    <3>. QED  BY <2>3, <2>7, <3>2, <3>3, <3>4 DEF Reclaimed
  <2>. QED  BY <2>8, <2>9, <2>10, <2>11, BobViews
<1>. QED  BY <1>1, <1>2, <1>3, BobTimes

-----------------------------------------------------------------------------
(* Bob claims Alice's payment before he takes his deposit back.            *)

LEMMA InitPaidFirst == Init => PaidFirst /\ DepositLast
BY DEF Init, PaidFirst, DepositLast, NoPass

LEMMA PaidKept ==
  ASSUME Undisturbed, FInv, PaymentLast, PaidFirst, [Next]_vars
  PROVE  PaidFirst'
<1> USE DEF FInv
<1>1. view["bob"].at # 0 => OnChain("payment")' = OnChain("payment")
  BY Frozen, Places DEF PassAfterLoop
<1>2. view["bob"].by["apayment"] # "none" => view["bob"].at # 0
  BY DEF PassAfterLoop, NoPass
<1>3. spender["apayment"] # "none" => spender'["apayment"] # "none"
  BY SpentStays
<1>4. view["bob"].by["apayment"] # "none" /\ OnChain("payment")' => spender'["apayment"] # "none"
  BY <1>1, <1>2, <1>3 DEF PaidFirst
<1>5. CASE view'["bob"] = view["bob"]
  BY <1>4, <1>5 DEF PaidFirst
<1>6. CASE view'["bob"] = NoPass
  BY <1>6 DEF PaidFirst, NoPass
<1>7. CASE Look("bob")
  BY <1>7, BobLooks DEF PaidFirst
<1>8. ASSUME NEW o \in Output, Claim("bob", o)  PROVE PaidFirst'
  <2>0. /\ view["bob"].at \in 1 .. 3 /\ o = Claimed("bob")[view["bob"].at]
        /\ view'["bob"].at = view["bob"].at + 1
    BY <1>8, BobClaims
  <2>1. CASE view["bob"].at = 1
    <3>1. o = "apayment"
      BY <2>0, <2>1 DEF Claimed
    <3>2. view'["bob"].by["payment"] = view["bob"].by["payment"]
      BY <1>8, <3>1, BobClaims
    <3>3. view'["bob"].by["payment"] = "alice" => view'["bob"].by["apayment"] # "none"
      <4>1. view["bob"].by["payment"] = "alice" => Claims("bob", "apayment")
        BY DEF Claims, ExtractsAm
      <4>2. view["bob"].by["payment"] = "alice" /\ view["bob"].by["apayment"] = "none"
              => Tries("bob", "apayment")
        BY DEF Tries
      <4>. QED  BY <1>8, <3>1, <3>2, <4>1, <4>2, BobClaims
    <3>4. view'["bob"].by["apayment"] # "none" /\ OnChain("payment")'
            => spender'["apayment"] # "none"
      <4>1. OnChain("payment")' => Received
        BY <1>1, <2>0 DEF PaymentLast
      <4>2. CASE view'["bob"].by["apayment"] = view["bob"].by["apayment"]
        BY <1>4, <4>2
      <4>3. CASE ~ Answered("bob", "apayment") /\ UNCHANGED spender
        BY <4>1, <4>3 DEF Unspent, Answered, Received
      <4>4. CASE spender'["apayment"] = "bob"
        BY <4>4
      <4>5. CASE view'["bob"].by["apayment"] = "none"
        BY <4>5
      <4>. QED  BY <1>8, <3>1, <4>2, <4>3, <4>4, <4>5, BobClaims
    <3>. QED  BY <3>3, <3>4 DEF PaidFirst
  <2>2. CASE view["bob"].at \in 2 .. 3
    <3>1. o # "apayment"
      BY <2>0, <2>2 DEF Claimed
    <3>2. view'["bob"].by["apayment"] = view["bob"].by["apayment"]
      BY <1>8, <3>1, BobClaims
    <3>3. view'["bob"].by["payment"] = "alice" => view["bob"].by["payment"] = "alice"
      BY <1>8, BobClaims
    <3>. QED  BY <1>4, <2>2, <3>2, <3>3 DEF PaidFirst
  <2>. QED  BY <2>0, <2>1, <2>2
<1>. QED  BY <1>5, <1>6, <1>7, <1>8, BobViews

(* The four reasons of Refunds.                                            *)
LEMMA DepositLastKept ==
  ASSUME Undisturbed, BobInTime, FInv, PaymentLast, Reclaimed, PaidFirst, DepositLast,
         [Next]_vars
  PROVE  DepositLast'
<1> USE DEF FInv
<1>1. ASSUME spender["deposit"] = "bob"  PROVE DepositLast'
  <2>1. OnChain("payment")' = OnChain("payment")
    BY <1>1, Frozen, Places DEF PaymentLast
  <2>. QED  BY <1>1, <2>1, SpentStays DEF DepositLast
<1>2. ASSUME NEW p \in Party, NEW o \in Output, Claim(p, o),
             spender["deposit"] # "bob", spender'["deposit"] = "bob"
      PROVE  DepositLast'
  <2>1. p = "bob" /\ o = "deposit"
    BY <1>2 DEF Claim, TypeOK
  <2>2. /\ view["bob"].at = 3 /\ UNCHANGED <<chain, now>>
        /\ \A r \in Output \ {"deposit"} : spender'[r] = spender[r]
        /\ Unspent("deposit") /\ Claims("bob", "deposit")
    BY <1>2, <2>1, BobClaims DEF Claimed, Answered
  <2>3. OnChain("payment")' = OnChain("payment")
    BY <2>2 DEF OnChain
  <2>4. SUFFICES ASSUME OnChain("payment")
                 PROVE  spender["payment"] = "bob" \/ spender["apayment"] = "bob"
    BY <2>2, <2>3 DEF DepositLast
  <2>5. spender["apayment"] # "alice"
    BY <2>2 DEF Atomic, Ledger!Atomic, Ledger!BnShown, Unspent
  <2>6. CASE view["bob"].by["apayment"] # "none"
    BY <2>4, <2>5, <2>6 DEF PaidFirst, TypeOK
  <2>7. CASE now > dlocktime - Margin
    <3>1. Later(LastCall - 1)
      BY <2>7, TimesAreOrdered DEF Later, LastCall, TypeOK
    <3>2. spender["payment"] = "bob" \/ view["bob"].by["payment"] = "alice"
      BY <2>2, <2>4, <3>1 DEF Reclaimed
    <3>3. view["bob"].by["payment"] = "alice" => view["bob"].by["apayment"] # "none"
      BY <2>2 DEF PaidFirst
    <3>. QED  BY <2>6, <3>2, <3>3
  <2>8. CASE "payment" \notin file["bob"] \/ "payment" \notin view["bob"].sent
    BY <2>2, <2>4, <2>8, Places DEF SentAfterSaved, OwnViewRight
  <2>. QED  BY <2>2, <2>6, <2>7, <2>8 DEF Claims, Refunds
<1>3. ASSUME spender["deposit"] # "bob", UNCHANGED spender  PROVE DepositLast'
  BY <1>3 DEF DepositLast
<1>. QED  BY <1>1, <1>2, <1>3, Spenders DEF DepositLast

-----------------------------------------------------------------------------
(* Where a pass of Bob finds the swap finished and Alice has his payment,  *)
(* he has hers.                                                            *)
LEMMA BobFinishesFair ==
  ASSUME FInv, PaymentLast, PaidFirst, DepositLast, view["bob"].at = 4, IsFinished("bob"),
         spender["payment"] = "alice"
  PROVE  spender["apayment"] = "bob"
<1> DEFINE v == view["bob"]
<1>1. OnChain("payment")
  BY DEF PaymentLast
<1>2. "payment" \in v.sent /\ "payment" \in file["bob"] /\ "deposit" \in file["bob"]
  BY <1>1, Places DEF FInv, OwnViewRight, SentAfterSaved, DepositFirst
<1>3. \A o \in Output, p \in Party : v.by[o] = p => spender[o] = p
  BY DEF FInv, ViewsTrue
<1>4. v.by["apayment"] # "none" => spender["apayment"] # "none"
  BY <1>1 DEF PaidFirst
<1>5. spender["apayment"] = "alice" => spender["apayment"] = "bob"
  BY <1>1 DEF FInv, Atomic, Ledger!Atomic, Ledger!BnShown, DepositLast
<1>6. v.by["apayment"] # "none" => spender["apayment"] = "bob"
  BY <1>4, <1>5 DEF FInv, TypeOK
<1> HIDE DEF v
<1>. QED  BY <1>2, <1>3, <1>6 DEF IsFinished, v

LEMMA FairKept ==
  ASSUME Undisturbed, FInv, PaymentLast, PaidFirst, DepositLast, FinishedIsFair, [Next]_vars
  PROVE  FinishedIsFair'
<1> USE DEF FInv
<1>1. ASSUME finished'["bob"] = finished["bob"], finished["bob"], spender'["payment"] = "alice"
      PROVE  spender'["apayment"] = "bob"
  <2>1. pc["bob"] \in {"over", "down"}
    BY <1>1 DEF PassAfterLoop
  <2>2. OnChain("payment")' = OnChain("payment")
    BY <2>1, Frozen, Places
  <2>3. OnChain("payment")'
    BY <1>1, PaymentLastKept DEF PaymentLast
  <2>4. ~ Unspent("payment")
    BY <1>1 DEF FinishedIsDone
  <2>5. spender["payment"] = "alice"
    BY <1>1, <2>2, <2>3, <2>4, SpentStays DEF Unspent
  <2>. QED  BY <1>1, <2>5, SpentStays DEF FinishedIsFair
<1>2. CASE EndPass("bob")
  <2>1. view["bob"].at = 4 /\ spender' = spender /\ finished'["bob"] = IsFinished("bob")
    BY <1>2 DEF EndPass, TypeOK
  <2>. QED  BY <2>1, BobFinishesFair DEF FinishedIsFair
<1>3. finished'["bob"] = finished["bob"] \/ EndPass("bob")
  <2>1. LoopStep => UNCHANGED finished
    BY LoopKinds
       DEF AliceFee, BobFee, ReceiveStep, AwaitStep, SaveStep, SendStep,
           Receive, Await, Save, Send
  <2>. QED
    BY <2>1 DEF Next, Confirm, GiveUp, Look, EndPass, Crash, Restart, Claim, Tick, vars, TypeOK
<1>. QED  BY <1>1, <1>2, <1>3 DEF FinishedIsFair

-----------------------------------------------------------------------------
BobInv ==
  /\ FInv
  /\ LoopInTime
  /\ PaymentLast
  /\ Reclaimed
  /\ PaidFirst
  /\ DepositLast
  /\ FinishedIsFair

LEMMA InitBobInv == Init => BobInv
<1>1. Init => LoopInTime
  BY TimesAreOrdered DEF Init, LoopInTime, OnChain
<1>2. Init => FinishedIsFair
  BY DEF Init, FinishedIsFair
<1>. QED
  BY <1>1, <1>2, InitFInv, InitPaymentLast, InitReclaimed, InitPaidFirst DEF BobInv

LEMMA NextBobInv == Undisturbed /\ BobInTime /\ BobInv /\ [Next]_vars => BobInv'
<1> SUFFICES ASSUME Undisturbed, BobInTime, BobInv, [Next]_vars  PROVE BobInv'
  OBVIOUS
<1>1. FInv'
  BY NextFInv DEF BobInv
<1>2. LoopInTime' /\ PaymentLast'
  BY InTimeKept, PaymentLastKept DEF BobInv, FInv
<1>3. Reclaimed' /\ PaidFirst' /\ DepositLast' /\ FinishedIsFair'
  BY ReclaimedKept, PaidKept, DepositLastKept, FairKept DEF BobInv
<1>. QED  BY <1>1, <1>2, <1>3 DEF BobInv

LEMMA BobInvHolds ==
  ASSUME Undisturbed, BobInTime
  PROVE  Spec => []BobInv
<1>1. BobInv /\ [Next]_vars => BobInv'
  BY NextBobInv
<1>. QED  BY <1>1, InitBobInv, PTL DEF Spec

(* Bob never loses both, whatever Alice does: where she took his payment,  *)
(* she does not get hers back.                                             *)
THEOREM BobIsNotCheated ==
  ASSUME Undisturbed, BobInTime
  PROVE  Spec => []BobNotCheated
<1>1. BobInv => BobNotCheated
  BY DEF BobInv, FInv, Atomic, Ledger!Atomic, Ledger!BnShown, DepositLast, PaymentLast,
         BobNotCheated
<1>. QED  BY <1>1, BobInvHolds, PTL

(* Bob finishes no swap in which Alice took his payment and he not hers.   *)
THEOREM FinishedMeansFair ==
  ASSUME Undisturbed, BobInTime
  PROVE  Spec => []FinishedIsFair
<1>1. BobInv => FinishedIsFair
  BY DEF BobInv
<1>. QED  BY <1>1, BobInvHolds, PTL
=============================================================================
