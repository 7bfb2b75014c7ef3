------------------------------- MODULE OnRamp -------------------------------
(***************************************************************************)
(* Buying crypto with fiat: the MCP tool "buy-crypto-with-fiat", the route *)
(* POST /api/bank/execute-transaction and the services behind it           *)
(* (BankService.executeTransaction, CctpService, WalletService.send).      *)
(*                                                                         *)
(* Express runs the handlers of several requests interleaved at every      *)
(* await, so a handler is a process here and each action is the code from  *)
(* one await to the next.  Between them the service submits transactions   *)
(* to the chains; the code never waits for a receipt, so a transaction     *)
(* sits in the mempool of its chain and is mined by an action of its own,  *)
(* in the order of the nonces of the one account the service uses.         *)
(***************************************************************************)
EXTENDS Integers, Sequences, FiniteSets, Functions

CONSTANTS
  Requests,        \* HTTP requests that may be in progress
  Accounts,        \* bank account numbers of users
  NoPayer,         \* a bank transaction without additionalInfo.payer
  Wallets,         \* wallet addresses a user may type
  ValidWallets,    \* those that match /^0x[a-fA-F0-9]{40}$/
  Amounts,         \* amounts, in USDC and in the currency of the account
  InexactAmounts,  \* those whose product with 10^6 is no integer in floating point
  AskedChains,     \* values users may give for the chain
  Micro,           \* 10^6: units of USDC per dollar
  MaxFee,          \* maxFee of depositForBurn
  Approval,        \* amount that approveUSDC approves
  InitialBalance,  \* USDC of the service on each chain at the start
  RpcFaults,       \* whether calls of the bank and of the chains may fail
  MaxPayments      \* bound: bank transactions in one behaviour

(***************************************************************************)
(* The chains each switch of the services knows.  mintUSDC selects its     *)
(* client in a switch without linea, and getMessageTransmitter has no      *)
(* sepolia: both must know the chain for a mint to be submitted.           *)
(***************************************************************************)
Chains == {"sepolia", "avalanche", "arbitrum", "base", "linea"}
getDomain(c) == c \in Chains
\* Mutant: another case missing from the switch.
mintClient_NoBase(c) == c \in Chains \ {"linea", "base"}
mintClient(c) == c \in Chains \ {"linea"}
getMessageTransmitter(c) == c \in Chains \ {"sepolia"}

ASSUME RequestAssumption == NoPayer \notin Accounts /\ ValidWallets \subseteq Wallets
ASSUME AmountAssumption ==
  /\ Amounts \subseteq Nat \ {0}
  /\ InexactAmounts \subseteq Amounts
ASSUME UnitAssumption ==
  /\ Micro \in Nat \ {0}
  /\ MaxFee \in 0 .. Micro
  /\ Approval \in Nat
  /\ MaxPayments \in Nat
  /\ InitialBalance \in [Chains -> Nat]
  /\ RpcFaults \in BOOLEAN

VARIABLES
  bankTxs,    \* transactions of the account at the bank, oldest first
  pc,         \* the await each request is at
  order,      \* the TransactionRequest of each request
  answer,     \* what the handler answered
  cctp,       \* progress of the burn and mint of each request
  transfer,   \* progress of the payout of each request
  mempool,    \* per chain, transactions of the service in nonce order
  balance,    \* per chain, USDC of the service
  allowance,  \* USDC the token messenger may take on sepolia
  fees        \* USDC the transfer protocol kept

vars == <<bankTxs, pc, order, answer, cctp, transfer, mempool, balance, allowance, fees>>

chainVars == <<mempool, balance, allowance, fees>>

TransactionRequest ==
  [bankAccountNumber : Accounts, walletAddress : Wallets,
   amount : Amounts, chain : AskedChains]
BankTransaction == [payer : Accounts \union {NoPayer}, amount : Amounts]
NoOrder == [bankAccountNumber |-> NoPayer]
Tx == [kind : {"burn", "mint", "transfer"}, r : Requests] \union [kind : {"approve"}]

\* transactionRequest.amount * 10 ** 6, and parseUnits(amount, decimals)
Units(r) == order[r].amount * Micro

Init ==
  /\ bankTxs = << >>
  /\ pc = [r \in Requests |-> "idle"]
  /\ order = [r \in Requests |-> NoOrder]
  /\ answer = [r \in Requests |-> "none"]
  /\ cctp = [r \in Requests |-> "none"]
  /\ transfer = [r \in Requests |-> "none"]
  /\ mempool = [c \in Chains |-> << >>]
  /\ balance = InitialBalance
  /\ allowance = 0
  /\ fees = 0

-----------------------------------------------------------------------------
(* Steps shared by the handlers.                                           *)

Goto(r, l) == pc' = [pc EXCEPT ![r] = l] /\ UNCHANGED answer

Answer(r, a) ==
  /\ pc' = [pc EXCEPT ![r] = "done"]
  /\ answer' = [answer EXCEPT ![r] = a]

Submit(c, tx) == mempool' = [mempool EXCEPT ![c] = Append(@, tx)]

(***************************************************************************)
(* WalletService.send up to its first await: a malformed address and an    *)
(* unknown chain throw, everything else goes on to read the decimals and   *)
(* to submit the transfer.                                                 *)
(***************************************************************************)
EnterSend(r) ==
  IF order[r].walletAddress \in ValidWallets /\ order[r].chain \in Chains
  THEN Goto(r, "transfer")
  ELSE Answer(r, "error")

(***************************************************************************)
(* burnUSDC up to its await: BigInt(amount) throws on a fraction, and      *)
(* encoding the call needs the domain of the chain.                        *)
(***************************************************************************)
EnterBurn(r) ==
  IF order[r].amount \notin InexactAmounts /\ getDomain(order[r].chain)
  THEN Goto(r, "burn")
  ELSE Answer(r, "error")

(***************************************************************************)
(* The loop of executeTransaction over the transactions of the account: it *)
(* stops at the first one of the payer, and the bank lists the newest      *)
(* first.  An entry without a payer throws inside the loop and is skipped. *)
(***************************************************************************)
\* Mutant: the payer is not compared.
Matching_AnyPayer(r) == DOMAIN bankTxs
Matching(r) == {i \in DOMAIN bankTxs : bankTxs[i].payer = order[r].bankAccountNumber}
IsFirstMatch(r, i) == i \in Matching(r) /\ \A j \in Matching(r) : j <= i

-----------------------------------------------------------------------------
(* The user's side: a payment to the account at the bank, and a request.   *)

BankPayment(p, a) ==
  /\ Len(bankTxs) < MaxPayments
  /\ bankTxs' = Append(bankTxs, [payer |-> p, amount |-> a])
  /\ UNCHANGED <<pc, order, answer, cctp, transfer, chainVars>>

BuyCryptoWithFiat(r, o) ==
  /\ pc[r] = "idle"
  /\ order' = [order EXCEPT ![r] = o]
  /\ Goto(r, "fetch")
  /\ UNCHANGED <<bankTxs, cctp, transfer, chainVars>>

(* BankService.executeTransaction, from the answer of getTransactions on.  *)

\* Mutant: burnUSDC is called for every chain.
getTransactions_AlwaysBurns(r) ==
  /\ pc[r] = "fetch"
  /\ \E i \in DOMAIN bankTxs :
       /\ IsFirstMatch(r, i)
       /\ bankTxs[i].amount = order[r].amount
       /\ EnterBurn(r)
  /\ UNCHANGED <<bankTxs, order, cctp, transfer, chainVars>>

getTransactions(r) ==
  /\ pc[r] = "fetch"
  /\ \/ /\ Matching(r) = {}                \* filteredTransactions[0] is undefined
        /\ Answer(r, "error")
     \/ \E i \in DOMAIN bankTxs :
          /\ IsFirstMatch(r, i)
          /\ bankTxs[i].amount # order[r].amount
          /\ Answer(r, "mismatch")
     \/ \E i \in DOMAIN bankTxs :
          /\ IsFirstMatch(r, i)
          /\ bankTxs[i].amount = order[r].amount
          /\ IF order[r].chain = "sepolia" THEN EnterSend(r) ELSE EnterBurn(r)
     \/ /\ RpcFaults
        /\ Answer(r, "error")
  /\ UNCHANGED <<bankTxs, order, cctp, transfer, chainVars>>

(***************************************************************************)
(* The await of sendTransaction in burnUSDC.  The node estimates the gas   *)
(* against the latest block and rejects what would revert now.  A call can *)
(* also fail, before or after the node took the transaction.               *)
(***************************************************************************)
burnUSDC(r) ==
  /\ pc[r] = "burn"
  /\ \/ /\ allowance >= Units(r) /\ balance["sepolia"] >= Units(r)
        /\ Submit("sepolia", [kind |-> "burn", r |-> r])
        /\ cctp' = [cctp EXCEPT ![r] = "submitted"]
        /\ Goto(r, "attest") \/ (RpcFaults /\ Answer(r, "error"))
     \/ /\ RpcFaults \/ allowance < Units(r) \/ balance["sepolia"] < Units(r)
        /\ Answer(r, "error")
        /\ UNCHANGED <<mempool, cctp>>
  /\ UNCHANGED <<bankTxs, order, transfer, balance, allowance, fees>>

(***************************************************************************)
(* One round of the loop of retrieveAttestation, with the start of         *)
(* mintUSDC when the attestation is complete.  The loop has no other exit: *)
(* errors and other answers only wait five seconds.                        *)
(***************************************************************************)
\* Mutant: the status is compared with a value it never has.
retrieveAttestation_NeverComplete(r) == pc[r] = "attest" /\ UNCHANGED vars

retrieveAttestation(r) ==
  /\ pc[r] = "attest"
  /\ \/ /\ cctp[r] = "attested"
        /\ IF mintClient(order[r].chain) /\ getMessageTransmitter(order[r].chain)
           THEN Goto(r, "mint")
           ELSE Answer(r, "error")
     \/ UNCHANGED <<pc, answer>>
  /\ UNCHANGED <<bankTxs, order, cctp, transfer, chainVars>>

mintUSDC(r) ==
  /\ pc[r] = "mint"
  /\ \/ /\ Submit(order[r].chain, [kind |-> "mint", r |-> r])
        /\ cctp' = [cctp EXCEPT ![r] = "minting"]
        /\ EnterSend(r) \/ (RpcFaults /\ Answer(r, "error"))
     \/ /\ RpcFaults
        /\ Answer(r, "error")
        /\ UNCHANGED <<mempool, cctp>>
  /\ UNCHANGED <<bankTxs, order, transfer, balance, allowance, fees>>

\* Mutant: the transfer is sent again with a new nonce before the answer.
send_Resubmits(r) ==
  /\ pc[r] = "transfer"
  /\ balance[order[r].chain] >= Units(r)
  /\ LET tx == [kind |-> "transfer", r |-> r] IN
       mempool' = [mempool EXCEPT ![order[r].chain] = @ \o <<tx, tx>>]
  /\ transfer' = [transfer EXCEPT ![r] = "submitted"]
  /\ Answer(r, "success")
  /\ UNCHANGED <<bankTxs, order, cctp, balance, allowance, fees>>

\* The awaits of WalletService.send: decimals, then the transfer.
send(r) ==
  /\ pc[r] = "transfer"
  /\ \/ /\ balance[order[r].chain] >= Units(r)
        /\ Submit(order[r].chain, [kind |-> "transfer", r |-> r])
        /\ transfer' = [transfer EXCEPT ![r] = "submitted"]
        /\ Answer(r, "success") \/ (RpcFaults /\ Answer(r, "error"))
     \/ /\ RpcFaults \/ balance[order[r].chain] < Units(r)
        /\ Answer(r, "error")
        /\ UNCHANGED <<mempool, transfer>>
  /\ UNCHANGED <<bankTxs, order, cctp, balance, allowance, fees>>

\* The operator's one-off approval; bound: one approval in the mempool at a time.
approveUSDC ==
  /\ allowance < Approval
  /\ \A i \in DOMAIN mempool["sepolia"] : mempool["sepolia"][i].kind # "approve"
  /\ Submit("sepolia", [kind |-> "approve"])
  /\ UNCHANGED <<bankTxs, pc, order, answer, cctp, transfer, balance, allowance, fees>>

-----------------------------------------------------------------------------
(* The chains: the oldest transaction of the service on chain c is mined.  *)

NextTx(c, kind) == mempool[c] # << >> /\ Head(mempool[c]).kind = kind
Mined(c) == mempool' = [mempool EXCEPT ![c] = Tail(@)]

MineApprove ==
  /\ NextTx("sepolia", "approve")
  /\ Mined("sepolia")
  /\ allowance' = Approval
  /\ UNCHANGED <<bankTxs, pc, order, answer, cctp, transfer, balance, fees>>

\* depositForBurn reverts if the balance or the allowance no longer suffices.
MineBurn ==
  /\ NextTx("sepolia", "burn")
  /\ Mined("sepolia")
  /\ LET r == Head(mempool["sepolia"]).r IN
       \/ /\ allowance >= Units(r) /\ balance["sepolia"] >= Units(r)
          /\ cctp' = [cctp EXCEPT ![r] = "burned"]
          /\ balance' = [balance EXCEPT !["sepolia"] = @ - Units(r)]
          /\ allowance' = allowance - Units(r)
       \/ /\ allowance < Units(r) \/ balance["sepolia"] < Units(r)
          /\ cctp' = [cctp EXCEPT ![r] = "reverted"]
          /\ UNCHANGED <<balance, allowance>>
  /\ UNCHANGED <<bankTxs, pc, order, answer, transfer, fees>>

\* receiveMessage mints what was burned less a fee of at most maxFee.
MineMint(c, fee) ==
  /\ NextTx(c, "mint")
  /\ Mined(c)
  /\ LET r == Head(mempool[c]).r IN
       /\ cctp' = [cctp EXCEPT ![r] = "minted"]
       /\ balance' = [balance EXCEPT ![c] = @ + (Units(r) - fee)]
       /\ fees' = fees + fee
  /\ UNCHANGED <<bankTxs, pc, order, answer, transfer, allowance>>

MineTransfer(c) ==
  /\ NextTx(c, "transfer")
  /\ Mined(c)
  /\ LET r == Head(mempool[c]).r IN
       \/ /\ balance[c] >= Units(r)
          /\ transfer' = [transfer EXCEPT ![r] = "paid"]
          /\ balance' = [balance EXCEPT ![c] = @ - Units(r)]
       \/ /\ balance[c] < Units(r)
          /\ transfer' = [transfer EXCEPT ![r] = "reverted"]
          /\ UNCHANGED balance
  /\ UNCHANGED <<bankTxs, pc, order, answer, cctp, allowance, fees>>

\* The attestation service signs the message of a mined burn.
Attest(r) ==
  /\ cctp[r] = "burned"
  /\ cctp' = [cctp EXCEPT ![r] = "attested"]
  /\ UNCHANGED <<bankTxs, pc, order, answer, transfer, chainVars>>

-----------------------------------------------------------------------------
Handler(r) ==
  getTransactions(r) \/ burnUSDC(r) \/ retrieveAttestation(r) \/ mintUSDC(r) \/ send(r)

Mine(c) ==
  \/ c = "sepolia" /\ (MineApprove \/ MineBurn)
  \/ \E fee \in 0 .. MaxFee : MineMint(c, fee)
  \/ MineTransfer(c)

Next ==
  \/ \E p \in Accounts \union {NoPayer}, a \in Amounts : BankPayment(p, a)
  \/ \E r \in Requests, o \in TransactionRequest : BuyCryptoWithFiat(r, o)
  \/ \E r \in Requests : Handler(r) \/ Attest(r)
  \/ approveUSDC
  \/ \E c \in Chains : Mine(c)

Spec == Init /\ [][Next]_vars

(***************************************************************************)
(* Every await of a handler is answered in the end (the event loop resumes *)
(* it), the chains mine what is in the mempool and the attestation service *)
(* signs mined burns.  Nobody is obliged to pay, to ask or to approve.     *)
(***************************************************************************)
Fairness ==
  /\ \A r \in Requests : WF_vars(Handler(r)) /\ WF_vars(Attest(r))
  /\ \A c \in Chains : WF_vars(Mine(c))

FairSpec == Spec /\ Fairness

-----------------------------------------------------------------------------
(* Properties.                                                             *)

\* A transaction of the account that pays for request r.
Backed(r) ==
  \E i \in DOMAIN bankTxs :
    /\ bankTxs[i].payer = order[r].bankAccountNumber
    /\ bankTxs[i].amount = order[r].amount

\* Every variable has its type.
TypeOK ==
  /\ bankTxs \in Seq(BankTransaction)
  /\ pc \in [Requests -> {"idle", "fetch", "burn", "attest", "mint", "transfer", "done"}]
  /\ order \in [Requests -> TransactionRequest \union {NoOrder}]
  /\ answer \in [Requests -> {"none", "success", "mismatch", "error"}]
  /\ cctp \in [Requests -> {"none", "submitted", "reverted", "burned",
                            "attested", "minting", "minted"}]
  /\ transfer \in [Requests -> {"none", "submitted", "reverted", "paid"}]
  /\ mempool \in [Chains -> Seq(Tx)]
  /\ balance \in [Chains -> Nat]
  /\ allowance \in Nat
  /\ fees \in Nat

(***************************************************************************)
(* executeTransaction moves USDC for a request (burn or payout) only if    *)
(* the bank lists a transaction of the payer over exactly that amount.     *)
(***************************************************************************)
PayoutBacked ==
  \A r \in Requests : cctp[r] # "none" \/ transfer[r] # "none" => Backed(r)

(***************************************************************************)
(* A payout on another chain than sepolia is mined only after the USDC     *)
(* burned for it was minted there, although neither mintUSDC nor send      *)
(* waits for a receipt: the nonces of the one account keep the order.      *)
(***************************************************************************)
PaidAfterMint ==
  \A r \in Requests :
    transfer[r] = "paid" /\ order[r].chain # "sepolia" => cctp[r] = "minted"

(***************************************************************************)
(* No USDC appears or is lost, and none is paid out twice: what the        *)
(* service holds on all chains, what is between a mined burn and its mint, *)
(* what was paid out for each request and the fees add up to what the      *)
(* service started with.                                                   *)
(***************************************************************************)
Value(S) == SumFunction([r \in S |-> Units(r)])
InFlight == {r \in Requests : cctp[r] \in {"burned", "attested", "minting"}}
Paid == {r \in Requests : transfer[r] = "paid"}
Conservation ==
  SumFunction(balance) + Value(InFlight) + Value(Paid) + fees = SumFunction(InitialBalance)

(***************************************************************************)
(* What the chains mine, in whatever order the handlers have submitted it, *)
(* is what the books of the service allow: executeTransaction implements   *)
(* Purchase.  A purchase advances when a transaction of it is mined.       *)
(***************************************************************************)
Stage(r) ==
  CASE transfer[r] = "paid" -> "paid"
    [] transfer[r] # "paid" /\ cctp[r] = "minted" -> "minted"
    [] transfer[r] # "paid" /\ r \in InFlight -> "burned"
    [] OTHER -> "open"
Books == INSTANCE Purchase WITH
       Orders <- TransactionRequest, Payments <- BankTransaction, Home <- "sepolia",
       stage <- [r \in Requests |-> Stage(r)]
ImplementsPurchase == Books!Spec

(***************************************************************************)
(* A request that reached the handler is answered in the end, unless its   *)
(* burn was reverted when it was mined: then retrieveAttestation polls for *)
(* ever.                                                                   *)
(***************************************************************************)
RequestAnswered ==
  \A r \in Requests : pc[r] = "fetch" ~> pc[r] = "done" \/ cctp[r] = "reverted"

(***************************************************************************)
(* When no call fails, USDC burned by burnUSDC for a request is minted on  *)
(* the chain of the request in the end.                                    *)
(***************************************************************************)
BurnedIsMinted ==
  \A r \in Requests : cctp[r] = "burned" ~> cctp[r] = "minted"

=============================================================================
