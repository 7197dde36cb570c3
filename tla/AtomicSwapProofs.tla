-------------------------- MODULE AtomicSwapProofs --------------------------
(***************************************************************************)
(* The swap implements the ledger, for any locktimes, margins and delays,  *)
(* with lost messages, crashes, parties that are away, daemons that do not *)
(* answer, broadcasts that fail, and passes while the loops still run.     *)
(***************************************************************************)
EXTENDS AtomicSwap, TLAPS

USE SwapAssumption DEF Party, Output

(* A pass believes of no spend that did not happen.                        *)
ViewsTrue ==
  \A p \in Party, o \in Output :
    view[p].by[o] \in Party => spender[o] = view[p].by[o]

-----------------------------------------------------------------------------
(* Types.                                                                  *)

LEMMA ViewType ==
  ASSUME NEW v \in View
  PROVE  /\ v.at \in 0 .. 4
         /\ v.sent \subseteq Output
         /\ v.by \in [Output -> Party \cup {"none", "dead"}]
BY DEF View

LEMMA InitTypes == Init => TypeOK
BY DEF Init, TypeOK, View, NoPass, Pc, Waits

LEMMA EnterTypes ==
  ASSUME TypeOK, NEW p \in Party, NEW to \in Pc, Enter(p, to)
  PROVE  /\ pc' \in [Party -> Pc]
         /\ asked' \in [Party -> 0 .. MaxTime]
BY DEF TypeOK, Enter

LEMMA BroadcastTypes ==
  ASSUME TypeOK, NEW o \in Output, Broadcast(o)
  PROVE  /\ chain' \in [Output -> {"none", "pool", "mined"}]
         /\ pooled' \in [Output -> 0 .. MaxTime]
BY DEF TypeOK, Broadcast

LEMMA LoopTypes ==
  ASSUME TypeOK, AliceLoop \/ BobLoop
  PROVE  TypeOK'
<1>1. ASSUME NEW p \in Party, NEW o \in Output, NEW from \in Pc, NEW to \in Pc,
             Receive(p, o, from, to)
      PROVE  TypeOK'
  <2>1. pc' \in [Party -> Pc] /\ asked' \in [Party -> 0 .. MaxTime]
    BY <1>1, EnterTypes DEF Receive, Pc
  <2>2. chain' \in [Output -> {"none", "pool", "mined"}] /\ pooled' \in [Output -> 0 .. MaxTime]
    BY <1>1, BroadcastTypes DEF Receive
  <2>. QED  BY <1>1, <2>1, <2>2 DEF Receive, TypeOK
<1>2. ASSUME NEW p \in Party, NEW o \in Output, NEW from \in Pc, NEW to \in Pc,
             Send(p, o, from, to)
      PROVE  TypeOK'
  <2>1. pc' \in [Party -> Pc] /\ asked' \in [Party -> 0 .. MaxTime]
    BY <1>2, EnterTypes DEF Send
  <2>2. chain' \in [Output -> {"none", "pool", "mined"}] /\ pooled' \in [Output -> 0 .. MaxTime]
    BY <1>2, BroadcastTypes DEF Send
  <2>. QED  BY <1>2, <2>1, <2>2 DEF Send, Tell, TypeOK
<1>3. ASSUME NEW p \in Party, NEW o \in Output, NEW from \in Pc, NEW to \in Pc,
             Save(p, o, from, to)
      PROVE  TypeOK'
  <2>1. pc' \in [Party -> Pc] /\ asked' \in [Party -> 0 .. MaxTime]
    BY <1>3, EnterTypes DEF Save, Pc
  <2>. QED  BY <1>3, <2>1 DEF Save, TypeOK
<1>4. ASSUME NEW p \in Party, NEW o \in Output, NEW from \in Pc, NEW to \in Pc,
             Await(p, o, from, to)
      PROVE  TypeOK'
  <2>1. pc' \in [Party -> Pc] /\ asked' \in [Party -> 0 .. MaxTime]
    BY <1>4, EnterTypes DEF Await
  <2>. QED  BY <1>4, <2>1 DEF Await, TypeOK
<1>5. CASE AliceFee
  <2>1. pc' \in [Party -> Pc] /\ asked' \in [Party -> 0 .. MaxTime]
    BY <1>5, EnterTypes DEF AliceFee, Pc, Waits
  <2>. QED  BY <1>5, <2>1 DEF AliceFee, Tell, TypeOK
<1>6. CASE BobFee
  <2>1. pc' \in [Party -> Pc] /\ asked' \in [Party -> 0 .. MaxTime]
    BY <1>6, EnterTypes DEF BobFee, Pc
  <2>. QED  BY <1>6, <2>1 DEF BobFee, TypeOK
<1>7. {"waitDeposit", "confDeposit", "saveApayment", "sendApayment", "confApayment",
       "waitPayment", "confPayment", "over", "saveDeposit", "sendDeposit",
       "waitApayment", "savePayment", "sendPayment"} \subseteq Pc
  BY DEF Pc, Waits
<1>8. CASE AliceLoop
  BY <1>8, <1>1, <1>2, <1>3, <1>4, <1>5, <1>7 DEF AliceLoop
<1>9. CASE BobLoop
  BY <1>9, <1>1, <1>2, <1>3, <1>4, <1>6, <1>7 DEF BobLoop
<1>. QED  BY <1>8, <1>9

LEMMA LookTypes ==
  ASSUME TypeOK, NEW p \in Party, Look(p)
  PROVE  TypeOK'
<1>1. PICK unseen \in Unanswered(p), unfound \in Unanswered(p),
           own \in SUBSET {o \in file[p] : spender[o] = p} :
        LET found == {o \in file[p] \ unfound : spender[o] = Other(p)} \cup own
        IN  view' = [view EXCEPT ![p] =
              [at |-> 1,
               sent |-> {o \in file[p] \ unseen : OnChain(o)} \cup found,
               by |-> [o \in Output |-> IF o \in found THEN spender[o] ELSE "none"]]]
  BY DEF Look
<1> DEFINE found == {o \in file[p] \ unfound : spender[o] = Other(p)} \cup own
           v == [at |-> 1,
                 sent |-> {o \in file[p] \ unseen : OnChain(o)} \cup found,
                 by |-> [o \in Output |-> IF o \in found THEN spender[o] ELSE "none"]]
<1>2. v \in View
  <2>1. file[p] \subseteq Output /\ own \subseteq Output
    BY DEF TypeOK
  <2>2. found \subseteq Output
    BY <2>1
  <2>3. \A o \in Output : spender[o] \in Party \cup {"none", "dead"}
    BY DEF TypeOK
  <2> HIDE DEF found
  <2>4. [o \in Output |-> IF o \in found THEN spender[o] ELSE "none"]
          \in [Output -> Party \cup {"none", "dead"}]
    BY <2>3
  <2>5. {o \in file[p] \ unseen : OnChain(o)} \cup found \subseteq Output
    BY <2>1, <2>2
  <2>. QED  BY <2>4, <2>5 DEF View
<1>3. view' = [view EXCEPT ![p] = v]
  BY <1>1
<1> HIDE DEF v
<1>. QED  BY <1>2, <1>3 DEF Look, TypeOK

LEMMA ClaimTypes ==
  ASSUME TypeOK, NEW p \in Party, NEW o \in Output, Claim(p, o)
  PROVE  TypeOK'
<1>1. /\ view[p] \in View /\ view[p].at \in 1 .. 3
      /\ view[p].by[o] \in Party \cup {"none", "dead"}
  BY ViewType DEF TypeOK, Claim
<1>2. PICK s \in Party \cup {"none", "dead"} :
        view' = [view EXCEPT ![p].at = @ + 1, ![p].by[o] = s]
  BY <1>1 DEF Claim
<1>3. view' \in [Party -> View]
  BY <1>1, <1>2 DEF TypeOK, View
<1>4. spender' \in [Output -> Party \cup {"none"}]
  BY DEF Claim, TypeOK
<1>. QED  BY <1>3, <1>4 DEF Claim, TypeOK

LEMMA NextTypes == TypeOK /\ [Next]_vars => TypeOK'
<1> SUFFICES ASSUME TypeOK, [Next]_vars  PROVE TypeOK'
  OBVIOUS
<1>0. NoPass \in View
  BY DEF NoPass, View
<1>1. CASE LoopStep
  BY <1>1, LoopTypes DEF LoopStep
<1>2. ASSUME NEW o \in Output, Confirm(o)  PROVE TypeOK'
  BY <1>2 DEF Confirm, TypeOK
<1>3. ASSUME NEW p \in Party, GiveUp(p)  PROVE TypeOK'
  <2>1. pc' \in [Party -> Pc] /\ asked' \in [Party -> 0 .. MaxTime]
    BY <1>3, EnterTypes DEF GiveUp, Pc
  <2>. QED  BY <1>3, <2>1 DEF GiveUp, TypeOK
<1>4. ASSUME NEW p \in Party, Look(p)  PROVE TypeOK'
  BY <1>4, LookTypes
<1>5. ASSUME NEW p \in Party, EndPass(p)  PROVE TypeOK'
  <2>1. IsFinished(p) \in BOOLEAN
    BY DEF IsFinished
  <2>. QED  BY <1>0, <1>5, <2>1 DEF EndPass, TypeOK
<1>6. ASSUME NEW p \in Party, Crash(p)  PROVE TypeOK'
  <2>1. pc' \in [Party -> Pc] /\ asked' \in [Party -> 0 .. MaxTime]
    BY <1>6, EnterTypes DEF Crash, Pc
  <2>. QED  BY <1>0, <1>6, <2>1 DEF Crash, TypeOK
<1>7. ASSUME NEW p \in Party, Restart(p)  PROVE TypeOK'
  <2>1. pc' \in [Party -> Pc] /\ asked' \in [Party -> 0 .. MaxTime]
    BY <1>7, EnterTypes DEF Restart, Pc
  <2>. QED  BY <1>7, <2>1 DEF Restart, TypeOK
<1>8. ASSUME NEW p \in Party, NEW o \in Output, Claim(p, o)  PROVE TypeOK'
  BY <1>8, ClaimTypes
<1>9. CASE Tick
  BY <1>9 DEF Tick, TypeOK
<1>10. CASE UNCHANGED vars
  BY <1>10 DEF vars, TypeOK
<1>. QED  BY <1>1, <1>2, <1>3, <1>4, <1>5, <1>6, <1>7, <1>8, <1>9, <1>10 DEF Next

(* The structures hold what their types allow, always.                     *)
THEOREM TypeCorrect == Spec => []TypeOK
BY InitTypes, NextTypes, PTL DEF Spec

-----------------------------------------------------------------------------
(* What the passes believe.                                                *)

LEMMA InitViews == Init => ViewsTrue
BY DEF Init, ViewsTrue, NoPass

(* A view that only loses beliefs, while nobody spends anything.           *)
LEMMA ViewsKept ==
  ASSUME ViewsTrue, UNCHANGED spender, NEW p \in Party, view \in [Party -> View],
         view' = view \/ view' = [view EXCEPT ![p] = NoPass]
  PROVE  ViewsTrue'
BY DEF ViewsTrue, NoPass

LEMMA LookTrue ==
  ASSUME TypeOK, ViewsTrue, NEW p \in Party, Look(p)
  PROVE  ViewsTrue'
<1>1. PICK unseen \in Unanswered(p), unfound \in Unanswered(p),
           own \in SUBSET {o \in file[p] : spender[o] = p} :
        LET found == {o \in file[p] \ unfound : spender[o] = Other(p)} \cup own
        IN  view' = [view EXCEPT ![p] =
              [at |-> 1,
               sent |-> {o \in file[p] \ unseen : OnChain(o)} \cup found,
               by |-> [o \in Output |-> IF o \in found THEN spender[o] ELSE "none"]]]
  BY DEF Look
<1> SUFFICES ASSUME NEW q \in Party, NEW o \in Output, view'[q].by[o] \in Party
             PROVE  spender'[o] = view'[q].by[o]
  BY DEF ViewsTrue
<1>2. UNCHANGED spender
  BY DEF Look
<1>3. CASE q # p
  BY <1>1, <1>2, <1>3 DEF ViewsTrue, TypeOK
<1>4. CASE q = p
  <2>1. view'[p].by[o] \in {spender[o], "none"}
    BY <1>1 DEF TypeOK
  <2>. QED  BY <1>2, <1>4, <2>1
<1>. QED  BY <1>3, <1>4

(* Who spends an output spends one that nobody believes to be spent.       *)
LEMMA ClaimTrue ==
  ASSUME TypeOK, ViewsTrue, NEW p \in Party, NEW o \in Output, Claim(p, o)
  PROVE  ViewsTrue'
<1>1. PICK s \in Party \cup {"none", "dead"} :
        /\ view' = [view EXCEPT ![p].at = @ + 1, ![p].by[o] = s]
        /\ \/ s \in {"none", "dead"} /\ UNCHANGED spender
           \/ s = view[p].by[o] /\ UNCHANGED spender
           \/ s = p /\ Unspent(o) /\ spender' = [spender EXCEPT ![o] = p]
  <2>1. view[p].by[o] \in Party \cup {"none", "dead"}
    BY ViewType DEF TypeOK
  <2>. QED  BY <2>1 DEF Claim, Answered
<1> SUFFICES ASSUME NEW q \in Party, NEW r \in Output, view'[q].by[r] \in Party
             PROVE  spender'[r] = view'[q].by[r]
  BY DEF ViewsTrue
<1>2. view[p] \in View /\ view[p].by \in [Output -> Party \cup {"none", "dead"}]
  BY ViewType DEF TypeOK
<1>3. view'[q].by[r] = IF q = p /\ r = o THEN s ELSE view[q].by[r]
  BY <1>1, <1>2 DEF TypeOK, View
<1>4. view[q].by[r] \in Party => spender[r] = view[q].by[r]
  BY DEF ViewsTrue
<1>5. CASE q = p /\ r = o
  BY <1>1, <1>3, <1>4, <1>5 DEF TypeOK
<1>6. CASE ~ (q = p /\ r = o)
  <2>1. spender[r] = view'[q].by[r]
    BY <1>3, <1>4, <1>6
  <2>2. spender'[r] = spender[r] \/ spender[r] = "none"
    BY <1>1 DEF TypeOK, Unspent
  <2>. QED  BY <2>1, <2>2
<1>. QED  BY <1>5, <1>6

(* A step of a loop spends nothing and touches no pass.                    *)
LEMMA LoopFrame ==
  ASSUME LoopStep
  PROVE  UNCHANGED <<now, spender, view>>
BY DEF LoopStep, AliceLoop, BobLoop, AliceFee, BobFee, Receive, Send, Save, Await

LEMMA NextViews == TypeOK /\ ViewsTrue /\ [Next]_vars => ViewsTrue'
<1> SUFFICES ASSUME TypeOK, ViewsTrue, [Next]_vars  PROVE ViewsTrue'
  OBVIOUS
<1>1. ASSUME UNCHANGED <<spender, view>>  PROVE ViewsTrue'
  BY <1>1 DEF ViewsTrue
<1>2. CASE LoopStep
  BY <1>1, <1>2, LoopFrame
<1>3. ASSUME NEW o \in Output, Confirm(o)  PROVE ViewsTrue'
  BY <1>1, <1>3 DEF Confirm
<1>4. ASSUME NEW p \in Party, GiveUp(p) \/ Restart(p)  PROVE ViewsTrue'
  BY <1>1, <1>4 DEF GiveUp, Restart
<1>5. ASSUME NEW p \in Party, EndPass(p) \/ Crash(p)  PROVE ViewsTrue'
  BY <1>5, ViewsKept DEF EndPass, Crash, TypeOK
<1>6. ASSUME NEW p \in Party, Look(p)  PROVE ViewsTrue'
  BY <1>6, LookTrue
<1>7. ASSUME NEW p \in Party, NEW o \in Output, Claim(p, o)  PROVE ViewsTrue'
  BY <1>7, ClaimTrue
<1>8. CASE Tick
  BY <1>1, <1>8 DEF Tick
<1>9. CASE UNCHANGED vars
  BY <1>1, <1>9 DEF vars
<1>. QED  BY <1>2, <1>3, <1>4, <1>5, <1>6, <1>7, <1>8, <1>9 DEF Next

-----------------------------------------------------------------------------
(* The refinement.                                                         *)

Published == {o \in Output : OnChain(o)}

LEMMA InitRefines == Init => Ledger!Init
BY DEF Init, OnChain, Ledger!Init, Ledger!Output

(* The chain grows by the output that is broadcast, or not at all.         *)
LEMMA BroadcastPublishes ==
  ASSUME TypeOK, NEW o \in Output, Broadcast(o), UNCHANGED <<now, spender>>
  PROVE  [Ledger!Next]_(Ledger!ledger)
<1>1. CASE UNCHANGED chain
  BY <1>1 DEF OnChain, Ledger!ledger
<1>2. CASE chain' = [chain EXCEPT ![o] = "pool"] /\ ~ OnChain(o)
  <2>1. Published' = Published \cup {o}
    BY <1>2 DEF TypeOK, OnChain, Published
  <2>. QED  BY <2>1 DEF Published, Ledger!Next, Ledger!Publish, Ledger!Output
<1>. QED  BY <1>1, <1>2 DEF Broadcast

LEMMA LoopRefines ==
  ASSUME TypeOK, LoopStep
  PROVE  [Ledger!Next]_(Ledger!ledger)
<1>1. UNCHANGED <<now, spender>>
  BY LoopFrame
<1>2. UNCHANGED chain \/ \E o \in Output : Broadcast(o)
  BY DEF LoopStep, AliceLoop, BobLoop, AliceFee, BobFee, Receive, Send, Save, Await
<1>3. CASE UNCHANGED chain
  BY <1>1, <1>3 DEF OnChain, Ledger!ledger
<1>. QED  BY <1>1, <1>2, <1>3, BroadcastPublishes

(* The time, and what the pass believes of secrets, satisfy the scripts.   *)
LEMMA ClaimsAreRedeemed ==
  ASSUME TypeOK, ViewsTrue, NEW p \in Party, NEW o \in Output,
         Tries(p, o), Claims(p, o)
  PROVE  Ledger!Redeems(p, o)
<1>1. plocktime \in Nat /\ dlocktime \in Nat /\ now \in Nat
  BY DEF TypeOK, plocktime, dlocktime
<1>2. CASE p = "alice" /\ o = "payment"
  BY <1>2 DEF Ledger!Redeems
<1>3. CASE p = "bob" /\ o = "payment"
  BY <1>1, <1>3 DEF Claims, Ledger!Redeems
<1>4. CASE p = "alice" /\ o = "deposit"
  BY <1>1, <1>4 DEF Tries, Ledger!Redeems
<1>5. CASE p = "bob" /\ o = "deposit"
  BY <1>5 DEF Ledger!Redeems
<1>6. CASE p = "alice" /\ o = "apayment"
  BY <1>6 DEF Claims, Ledger!Redeems, Ledger!BnShown
<1>7. CASE p = "bob" /\ o = "apayment"
  <2>1. view[p].by["payment"] = "alice" \/ view[p].by["deposit"] = "alice"
    BY <1>7 DEF Claims, ExtractsAm
  <2>2. spender["payment"] = "alice" \/ spender["deposit"] = "alice"
    BY <1>7, <2>1 DEF ViewsTrue
  <2>. QED  BY <1>7, <2>2 DEF Ledger!Redeems, Ledger!AmShown
<1>. QED  BY <1>2, <1>3, <1>4, <1>5, <1>6, <1>7

LEMMA ClaimRefines ==
  ASSUME TypeOK, ViewsTrue, NEW p \in Party, NEW o \in Output, Claim(p, o)
  PROVE  [Ledger!Next]_(Ledger!ledger)
<1>1. UNCHANGED <<now, chain>>
  BY DEF Claim
<1>2. CASE UNCHANGED spender
  BY <1>1, <1>2 DEF OnChain, Ledger!ledger
<1>3. CASE /\ Tries(p, o) /\ Unspent(o) /\ Claims(p, o)
           /\ spender' = [spender EXCEPT ![o] = p]
  <2>1. Ledger!Redeems(p, o)
    BY <1>3, ClaimsAreRedeemed
  <2>2. Published' = Published /\ o \in Published /\ spender[o] = "none"
    BY <1>1, <1>3 DEF Published, OnChain, Unspent
  <2>3. Ledger!Spend(p, o)
    BY <1>1, <1>3, <2>1, <2>2 DEF Published, Ledger!Spend
  <2>. QED  BY <2>3 DEF Ledger!Next, Ledger!Party, Ledger!Output
<1>. QED  BY <1>2, <1>3 DEF Claim, Answered

LEMMA NextRefines ==
  TypeOK /\ ViewsTrue /\ [Next]_vars => [Ledger!Next]_(Ledger!ledger)
<1> SUFFICES ASSUME TypeOK, ViewsTrue, [Next]_vars
             PROVE  [Ledger!Next]_(Ledger!ledger)
  OBVIOUS
<1>1. ASSUME UNCHANGED <<now, chain, spender>>
      PROVE  [Ledger!Next]_(Ledger!ledger)
  BY <1>1 DEF OnChain, Ledger!ledger
<1>2. CASE LoopStep
  BY <1>2, LoopRefines
<1>3. ASSUME NEW o \in Output, Confirm(o)
      PROVE  [Ledger!Next]_(Ledger!ledger)
  <2>1. Published' = Published
    BY <1>3 DEF Confirm, TypeOK, Published, OnChain
  <2>. QED  BY <1>3, <2>1 DEF Confirm, Published, Ledger!ledger
<1>4. ASSUME NEW p \in Party, GiveUp(p) \/ Look(p) \/ EndPass(p) \/ Crash(p) \/ Restart(p)
      PROVE  [Ledger!Next]_(Ledger!ledger)
  BY <1>1, <1>4 DEF GiveUp, Look, EndPass, Crash, Restart
<1>5. ASSUME NEW p \in Party, NEW o \in Output, Claim(p, o)
      PROVE  [Ledger!Next]_(Ledger!ledger)
  BY <1>5, ClaimRefines
<1>6. CASE Tick
  <2>1. Ledger!Pass
    BY <1>6 DEF Tick, OnChain, Ledger!Pass
  <2>. QED  BY <2>1 DEF Ledger!Next
<1>7. CASE UNCHANGED vars
  BY <1>1, <1>7 DEF vars
<1>. QED  BY <1>2, <1>3, <1>4, <1>5, <1>6, <1>7 DEF Next

(* What the passes believe of spends is true.                              *)
THEOREM BeliefsHold == Spec => []ViewsTrue
<1>1. Init => TypeOK /\ ViewsTrue
  BY InitTypes, InitViews
<1>2. TypeOK /\ ViewsTrue /\ [Next]_vars => (TypeOK /\ ViewsTrue)'
  BY NextTypes, NextViews
<1>. QED  BY <1>1, <1>2, PTL DEF Spec

(* Every claim a pass makes is one the scripts allow.                      *)
THEOREM Refinement == Spec => Implements
BY TypeCorrect, BeliefsHold, InitRefines, NextRefines, PTL DEF Spec, Implements, Ledger!Spec

-----------------------------------------------------------------------------
(* What the ledger promises.                                               *)

LEMMA LedgerKeeps ==
  TypeOK /\ Ledger!Atomic /\ [Ledger!Next]_(Ledger!ledger) => Ledger!Atomic'
<1> SUFFICES ASSUME TypeOK, Ledger!Atomic, [Ledger!Next]_(Ledger!ledger)
             PROVE  Ledger!Atomic'
  OBVIOUS
<1>1. ASSUME NEW p \in Party, NEW o \in Output, Ledger!Spend(p, o)
      PROVE  Ledger!Atomic'
  BY <1>1 DEF TypeOK, Ledger!Spend, Ledger!Redeems, Ledger!Atomic, Ledger!AmShown, Ledger!BnShown
<1>2. CASE UNCHANGED spender
  BY <1>2 DEF Ledger!Atomic, Ledger!AmShown, Ledger!BnShown
<1>. QED
  BY <1>1, <1>2 DEF Ledger!Next, Ledger!Publish, Ledger!Pass, Ledger!ledger,
                    Ledger!Party, Ledger!Output

(* Bob has Alice's payment only where she has one of his outputs, and she  *)
(* has hers back only where he has his deposit back.                       *)
THEOREM SwapIsAtomic == Spec => []Atomic
<1>1. Init => Ledger!Atomic
  BY DEF Init, Ledger!Atomic
<1>. QED
  BY <1>1, TypeCorrect, Refinement, LedgerKeeps, PTL DEF Spec, Implements, Atomic, Ledger!Spec
=============================================================================
