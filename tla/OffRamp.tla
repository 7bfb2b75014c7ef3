------------------------------ MODULE OffRamp ------------------------------
(***************************************************************************)
(* Selling crypto for fiat: the MCP tool "sell-crypto-for-fiat", the route *)
(* POST /api/wallet/execute-transaction and the services behind it         *)
(* (WalletService.executeTransaction, BankService.sendMoney).              *)
(*                                                                         *)
(* A handler is a process and an action the code from one await to the     *)
(* next, as in OnRamp.  The handler looks for a USDC transfer of the       *)
(* seller among the latest blocks of sepolia, which go on meanwhile.       *)
(*                                                                         *)
(* An amount of fiat is counted in parts of a unit of USDC (10^-6), Fine   *)
(* of them to a unit, because a request may name more decimals than USDC   *)
(* has.                                                                    *)
(***************************************************************************)
EXTENDS Integers

CONSTANTS
  Requests,      \* HTTP requests that may be in progress
  Wallets,       \* walletAddress values a user may type
  ValidWallets,  \* those that match /^0x[a-fA-F0-9]{40}$/
  Service,       \* WALLET_ADDRESS, which get-crypto-info tells the seller
  Amounts,       \* amounts a request may name, in parts of a unit
  Values,        \* values of transfers, in units
  Fine,          \* parts of a unit
  Window,        \* 100: blocks before the current one that are searched
  RpcFaults,     \* whether calls of the bank and of the chain may fail
  MaxBlock       \* bound: the last block

ASSUME WalletAssumption == ValidWallets \subseteq Wallets /\ Service \in ValidWallets
ASSUME ValueAssumption ==
  /\ Amounts \subseteq Nat \ {0} /\ Values \subseteq Nat
  /\ Fine \in Nat \ {0}
  /\ Window \in Nat /\ MaxBlock \in Nat
  /\ RpcFaults \in BOOLEAN

VARIABLES
  head,    \* number of the newest block
  log,     \* Transfer events of the USDC contract
  pc,      \* the await each request is at
  order,   \* the TransactionRequest of each request
  seen,    \* currentBlock of each request
  fiat,    \* what the bank did for the request
  answer   \* what the handler answered

vars == <<head, log, pc, order, seen, fiat, answer>>

Transfer == [block : 0 .. MaxBlock, from : ValidWallets, to : ValidWallets, value : Values]
TransactionRequest == [walletAddress : Wallets, amount : Amounts]
NoOrder == [amount |-> 0]
Answers == {"completed", "bank transfer failed", "not verified", "invalid", "error"}

Init ==
  /\ head = 0 /\ log = {}
  /\ pc = [r \in Requests |-> "idle"]
  /\ order = [r \in Requests |-> NoOrder]
  /\ seen = [r \in Requests |-> 0]
  /\ fiat = [r \in Requests |-> "none"]
  /\ answer = [r \in Requests |-> "none"]

-----------------------------------------------------------------------------
Goto(r, l) == pc' = [pc EXCEPT ![r] = l] /\ UNCHANGED answer

Answer(r, a) ==
  /\ pc' = [pc EXCEPT ![r] = "done"]
  /\ answer' = [answer EXCEPT ![r] = a]

\* A call of the chain or of the bank throws; the catch clause answers.
Throws(r) == Answer(r, "error")

(***************************************************************************)
(* parseUnits(amount.toString(), decimals): a number below 10^-6 prints in *)
(* exponent form, which parseUnits refuses, and decimals that USDC does    *)
(* not have are rounded, half up.                                          *)
(***************************************************************************)
Parses(amount) == amount >= Fine
\* Mutant: the decimals are cut off.
expectedAmount_Truncated(r) == order[r].amount \div Fine
expectedAmount(r) == (2 * order[r].amount + Fine) \div (2 * Fine)

\* getLogs from fromBlock to currentBlock, filtered
matchingTransfers(r) ==
  {e \in log : /\ e.block \in seen[r] - Window .. seen[r]
               /\ e.from = order[r].walletAddress
               /\ e.value = expectedAmount(r)}

-----------------------------------------------------------------------------
(* The chain: a new block, with or without a transfer of USDC.             *)

NewBlock(transfers) ==
  /\ head < MaxBlock
  /\ head' = head + 1
  /\ log' = log \union {[block |-> head + 1, from |-> t.from, to |-> t.to, value |-> t.value] :
                          t \in transfers}
  /\ UNCHANGED <<pc, order, seen, fiat, answer>>

-----------------------------------------------------------------------------
SellCryptoForFiat(r, o) ==
  /\ pc[r] = "idle"
  /\ order' = [order EXCEPT ![r] = o]
  /\ IF o.walletAddress \in ValidWallets THEN Goto(r, "decimals") ELSE Answer(r, "invalid")
  /\ UNCHANGED <<head, log, seen, fiat>>

decimals(r) ==
  /\ pc[r] = "decimals"
  /\ \/ Parses(order[r].amount) /\ Goto(r, "block")
     \/ (RpcFaults \/ ~Parses(order[r].amount)) /\ Throws(r)
  /\ UNCHANGED <<head, log, order, seen, fiat>>

getBlockNumber(r) ==
  /\ pc[r] = "block"
  /\ \/ Goto(r, "logs") /\ seen' = [seen EXCEPT ![r] = head]
     \/ RpcFaults /\ Throws(r) /\ UNCHANGED seen
  /\ UNCHANGED <<head, log, order, fiat>>

getLogs(r) ==
  /\ pc[r] = "logs"
  /\ \/ matchingTransfers(r) # {} /\ Goto(r, "pay")
     \/ matchingTransfers(r) = {} /\ Answer(r, "not verified")
     \/ RpcFaults /\ Throws(r)
  /\ UNCHANGED <<head, log, order, seen, fiat>>

(***************************************************************************)
(* sendMoney.  The bank takes the payment and says so, or its answer is    *)
(* lost; or it takes no payment, because it refuses or is down (the call   *)
(* throws) or answers without a status.                                    *)
(***************************************************************************)
\* Mutant: the status is not looked at.
sendMoney_AnyStatus(r) ==
  /\ pc[r] = "pay"
  /\ \/ fiat' = [fiat EXCEPT ![r] = "paid"] /\ Answer(r, "completed")
     \/ RpcFaults /\ fiat' = [fiat EXCEPT ![r] = "refused"] /\ Answer(r, "completed")
  /\ UNCHANGED <<head, log, order, seen>>
\* Mutant: when the bank is down the search starts again, and nobody answers.
sendMoney_Retries(r) ==
  /\ pc[r] = "pay"
  /\ \/ fiat' = [fiat EXCEPT ![r] = "paid"] /\ Answer(r, "completed")
     \/ RpcFaults /\ Goto(r, "block") /\ UNCHANGED fiat
  /\ UNCHANGED <<head, log, order, seen>>
sendMoney(r) ==
  /\ pc[r] = "pay"
  /\ \/ /\ fiat' = [fiat EXCEPT ![r] = "paid"]
        /\ Answer(r, "completed") \/ (RpcFaults /\ Throws(r))
     \/ /\ RpcFaults
        /\ fiat' = [fiat EXCEPT ![r] = "refused"]
        /\ Answer(r, "bank transfer failed") \/ Throws(r)
  /\ UNCHANGED <<head, log, order, seen>>

-----------------------------------------------------------------------------
Handler(r) == decimals(r) \/ getBlockNumber(r) \/ getLogs(r) \/ sendMoney(r)

NewTransfer == [from : ValidWallets, to : ValidWallets, value : Values]

Next ==
  \/ NewBlock({}) \/ \E t \in NewTransfer : NewBlock({t})
  \/ \E r \in Requests, o \in TransactionRequest : SellCryptoForFiat(r, o)
  \/ \E r \in Requests : Handler(r)

Spec == Init /\ [][Next]_vars

\* Every await of a handler is answered or throws in the end.
Fairness == \A r \in Requests : WF_vars(Handler(r))

FairSpec == Spec /\ Fairness

-----------------------------------------------------------------------------
(* Properties.                                                             *)

\* Every variable has its type.
TypeOK ==
  /\ head \in 0 .. MaxBlock
  /\ log \subseteq Transfer
  /\ pc \in [Requests -> {"idle", "decimals", "block", "logs", "pay", "done"}]
  /\ order \in [Requests -> TransactionRequest \union {NoOrder}]
  /\ seen \in [Requests -> 0 .. MaxBlock]
  /\ fiat \in [Requests -> {"none", "paid", "refused"}]
  /\ answer \in [Requests -> Answers \union {"none"}]

(***************************************************************************)
(* The bank is asked to pay only for a transfer that was on the chain, in  *)
(* the window that ends with the block the request saw, from the wallet of *)
(* the seller, and worth what the seller is paid up to half a unit of USDC.*)
(***************************************************************************)
FiatBacked ==
  \A r \in Requests : fiat[r] # "none" =>
    \E e \in log :
      /\ e.from = order[r].walletAddress
      /\ e.block \in seen[r] - Window .. seen[r] /\ seen[r] <= head
      /\ 2 * (order[r].amount - e.value * Fine) < Fine
      /\ 2 * (e.value * Fine - order[r].amount) <= Fine

(***************************************************************************)
(* Whatever fails on the way, the answer tells the user where the money    *)
(* is: completed if and only if the bank said that it pays; after an error *)
(* it may have paid; after every other answer it has not.                  *)
(***************************************************************************)
AnswerTells ==
  \A r \in Requests :
    /\ answer[r] = "completed" => fiat[r] = "paid"
    /\ fiat[r] = "paid" => answer[r] \in {"completed", "error"}
    /\ fiat[r] = "refused" => answer[r] \in {"bank transfer failed", "error"}

\* A request is answered in the end, also when the bank or the chain is down.
SaleAnswered == \A r \in Requests : (pc[r] = "decimals") ~> (pc[r] = "done")

=============================================================================
