------------------------------ MODULE Purchase ------------------------------
(***************************************************************************)
(* What buying crypto with fiat promises, as the books of the service show *)
(* it: the steps of a purchase that move USDC, each of them at once, and   *)
(* when each is allowed.  There are no handlers here, no transactions on   *)
(* their way, no allowance and no failing calls.                           *)
(*                                                                         *)
(* A purchase on the chain where the service keeps its USDC is paid out    *)
(* there.  For another chain the amount is burned, minted on that chain    *)
(* less a fee, and only then paid out.  Each of these happens at most      *)
(* once, and none before the bank has the payment for it.                  *)
(***************************************************************************)
EXTENDS Integers, Sequences

CONSTANTS
  Requests,       \* purchases that may be asked for
  Orders,         \* what a user may ask for: account, wallet, amount and chain
  NoOrder,        \* the order of a purchase not asked for yet
  Payments,       \* transactions at the bank: payer and amount
  Chains,         \* chains on which the service may hold USDC
  Home,           \* the chain where it keeps it
  Micro,          \* units of USDC per dollar
  MaxFee,         \* what a mint may cost
  InitialBalance  \* USDC of the service on each chain at the start

VARIABLES
  bankTxs,  \* transactions of the account at the bank
  order,    \* what was asked for
  stage,    \* how far each purchase has come
  balance,  \* per chain, USDC of the service
  fees      \* what the mints have cost

vars == <<bankTxs, order, stage, balance, fees>>

Units(r) == order[r].amount * Micro

\* Purchase r was asked for and the bank has the payment for it.
Funded(r) ==
  /\ order[r] # NoOrder
  /\ \E i \in DOMAIN bankTxs :
       /\ bankTxs[i].payer = order[r].bankAccountNumber
       /\ bankTxs[i].amount = order[r].amount

Init ==
  /\ bankTxs = << >>
  /\ order = [r \in Requests |-> NoOrder]
  /\ stage = [r \in Requests |-> "open"]
  /\ balance = InitialBalance
  /\ fees = 0

Pay(p) ==
  /\ bankTxs' = Append(bankTxs, p)
  /\ UNCHANGED <<order, stage, balance, fees>>

Ask(r, o) ==
  /\ order[r] = NoOrder
  /\ order' = [order EXCEPT ![r] = o]
  /\ UNCHANGED <<bankTxs, stage, balance, fees>>

\* USDC moves from one stage of purchase r to the next: the balance of chain c
\* changes by delta.
Move(r, from, to, c, delta) ==
  /\ stage[r] = from
  /\ stage' = [stage EXCEPT ![r] = to]
  /\ balance[c] + delta >= 0
  /\ balance' = [balance EXCEPT ![c] = @ + delta]
  /\ UNCHANGED <<bankTxs, order>>

Burn(r) ==
  /\ Funded(r)
  /\ order[r].chain \in Chains \ {Home}
  /\ Move(r, "open", "burned", Home, -Units(r))
  /\ UNCHANGED fees

Mint(r, fee) ==
  /\ Funded(r)
  /\ Move(r, "burned", "minted", order[r].chain, Units(r) - fee)
  /\ fees' = fees + fee

PayOut(r) ==
  /\ Funded(r)
  /\ order[r].chain \in Chains
  /\ Move(r, IF order[r].chain = Home THEN "open" ELSE "minted", "paid",
          order[r].chain, -Units(r))
  /\ UNCHANGED fees

Next ==
  \/ \E p \in Payments : Pay(p)
  \/ \E r \in Requests, o \in Orders : Ask(r, o)
  \/ \E r \in Requests : Burn(r) \/ PayOut(r) \/ \E fee \in 0 .. MaxFee : Mint(r, fee)

Spec == Init /\ [][Next]_vars
=============================================================================
