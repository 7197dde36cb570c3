---------------------------- MODULE SwapLedger ----------------------------
(***************************************************************************)
(* What the two parties of an atomic swap may rely on, whatever the        *)
(* programs do: three outputs, and the scripts that say who may spend them *)
(* when.  Bob's two outputs are on the chain of his coin, Alice's one on   *)
(* the chain of hers.                                                      *)
(*                                                                         *)
(* A secret is known to the other party once a transaction that shows it   *)
(* is on a chain, so who knows what follows from who spent what.           *)
(***************************************************************************)
EXTENDS Integers

CONSTANTS
  PaymentLock,  \* locktime of Bob's payment
  DepositLock   \* locktime of Bob's deposit

Output == {"deposit", "apayment", "payment"}
Party == {"alice", "bob"}

VARIABLES
  now,          \* the time
  onchain,      \* the outputs that were published
  spender       \* spender[o]: who spent output o, or "none"

ledger == <<now, onchain, spender>>

(* Alice shows privAm with the payment or with the claim of the deposit;   *)
(* Bob shows privBn when he takes the deposit back.                        *)
AmShown == spender["payment"] = "alice" \/ spender["deposit"] = "alice"
BnShown == spender["deposit"] = "bob"

(* basilisk_swap_bobredeemscript and basilisk_alicescript.                 *)
Redeems(p, o) ==
  CASE o = "payment"  /\ p = "alice" -> TRUE
    [] o = "payment"  /\ p = "bob"   -> now > PaymentLock
    [] o = "deposit"  /\ p = "alice" -> now > DepositLock
    [] o = "deposit"  /\ p = "bob"   -> TRUE
    [] o = "apayment" /\ p = "alice" -> BnShown
    [] o = "apayment" /\ p = "bob"   -> AmShown

Init ==
  /\ now = 0
  /\ onchain = {}
  /\ spender = [o \in Output |-> "none"]

Publish(o) ==
  /\ onchain' = onchain \cup {o}
  /\ UNCHANGED <<now, spender>>

Spend(p, o) ==
  /\ o \in onchain
  /\ spender[o] = "none"
  /\ Redeems(p, o)
  /\ spender' = [spender EXCEPT ![o] = p]
  /\ UNCHANGED <<now, onchain>>

Pass ==
  /\ now' = now + 1
  /\ UNCHANGED <<onchain, spender>>

Next ==
  \/ \E o \in Output : Publish(o)
  \/ \E p \in Party, o \in Output : Spend(p, o)
  \/ Pass

Spec == Init /\ [][Next]_ledger

-----------------------------------------------------------------------------
(* Bob has Alice's payment only where Alice has his payment or his         *)
(* deposit, and Alice has hers back only where Bob has his deposit back.   *)
Atomic ==
  /\ spender["apayment"] = "bob" => AmShown
  /\ spender["apayment"] = "alice" => BnShown
=============================================================================
