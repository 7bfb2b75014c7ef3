---------------------------- MODULE OnRampProofs ----------------------------
(***************************************************************************)
(* Proofs about OnRamp, for every number of requests, accounts and chains  *)
(* asked for, every balance and every bound.                               *)
(***************************************************************************)
EXTENDS OnRamp, FiniteSetTheorems, WellFoundedInduction, TLAPS

\* A request that has moved past the bank's answer is backed by a payment;
\* so is every transaction the service has in a mempool.
BackedHandlers ==
  \A r \in Requests : pc[r] \in {"burn", "attest", "mint", "transfer"} => Backed(r)
BackedMempool ==
  \A c \in Chains : \A i \in DOMAIN mempool[c] :
    mempool[c][i].kind # "approve" => mempool[c][i].r \in Requests /\ Backed(mempool[c][i].r)
\* Handlers that have left "idle" have a request of the user.
Ordered == \A r \in Requests : pc[r] # "idle" => order[r] \in TransactionRequest
OrderedMempool ==
  \A c \in Chains : \A i \in DOMAIN mempool[c] :
    mempool[c][i].kind # "approve" => order[mempool[c][i].r] \in TransactionRequest
\* burnUSDC is reached only on a chain that has a domain.
OnChain ==
  \A r \in Requests : pc[r] \in {"burn", "attest", "mint", "transfer"} => order[r].chain \in Chains

\* A new request has no transaction yet: nothing in flight names it.
Fresh ==
  /\ \A r \in Requests : pc[r] = "idle" => cctp[r] = "none" /\ transfer[r] = "none"
  /\ \A c \in Chains : \A i \in DOMAIN mempool[c] :
       mempool[c][i].kind # "approve" => pc[mempool[c][i].r] # "idle"

IInv ==
  /\ TypeOK
  /\ Fresh
  /\ Ordered
  /\ OrderedMempool
  /\ OnChain
  /\ BackedHandlers
  /\ BackedMempool
  /\ PayoutBacked

-----------------------------------------------------------------------------
(* Facts about the operators of the model.                                 *)

\* A request is worth at least one dollar, so a fee never exceeds it.
LEMMA UnitsAtLeastFee ==
  ASSUME NEW r \in Requests, order[r] \in TransactionRequest
  PROVE  Units(r) \in Nat /\ Units(r) >= MaxFee
<1>1. order[r].amount \in Nat \ {0}
  BY AmountAssumption DEF TransactionRequest
<1>2. \A a \in Nat \ {0}, k \in Nat \ {0} : a * k \in Nat /\ a * k >= k
  OBVIOUS
<1>3. QED
  BY <1>1, <1>2, UnitAssumption DEF Units

\* Submit keeps what is in the mempools and adds its transaction.
LEMMA SubmitAdds ==
  ASSUME mempool \in [Chains -> Seq(Tx)], NEW c \in Chains, NEW tx \in Tx, Submit(c, tx)
  PROVE  /\ mempool' \in [Chains -> Seq(Tx)]
         /\ \A d \in Chains : \A i \in DOMAIN mempool'[d] :
              mempool'[d][i] = tx \/ (i \in DOMAIN mempool[d] /\ mempool'[d][i] = mempool[d][i])
<1>1. mempool' = [mempool EXCEPT ![c] = Append(mempool[c], tx)]
  BY DEF Submit
<1>2. Append(mempool[c], tx) \in Seq(Tx)
  OBVIOUS
<1>3. \A i \in DOMAIN Append(mempool[c], tx) :
        Append(mempool[c], tx)[i] = tx
          \/ (i \in DOMAIN mempool[c] /\ Append(mempool[c], tx)[i] = mempool[c][i])
  OBVIOUS
<1>4. QED
  BY <1>1, <1>2, <1>3

\* Mining removes the oldest transaction and adds none.
LEMMA MinedRemoves ==
  ASSUME mempool \in [Chains -> Seq(Tx)], NEW c \in Chains, mempool[c] # << >>, Mined(c)
  PROVE  /\ mempool' \in [Chains -> Seq(Tx)]
         /\ Head(mempool[c]) \in Tx
         /\ 1 \in DOMAIN mempool[c] /\ Head(mempool[c]) = mempool[c][1]
         /\ \A d \in Chains : \A i \in DOMAIN mempool'[d] :
              \E j \in DOMAIN mempool[d] : mempool'[d][i] = mempool[d][j]
<1>1. mempool' = [mempool EXCEPT ![c] = Tail(mempool[c])]
  BY DEF Mined
<1>2. mempool[c] \in Seq(Tx)
  OBVIOUS
<1>3. /\ Tail(mempool[c]) \in Seq(Tx)
      /\ Head(mempool[c]) \in Tx
      /\ 1 \in DOMAIN mempool[c] /\ Head(mempool[c]) = mempool[c][1]
  BY <1>2
<1>4. \A i \in DOMAIN Tail(mempool[c]) :
        i + 1 \in DOMAIN mempool[c] /\ Tail(mempool[c])[i] = mempool[c][i + 1]
  BY <1>2
<1>5. QED
  BY <1>1, <1>3, <1>4

\* A payment at the bank is never taken back.
LEMMA BackedStable ==
  ASSUME bankTxs \in Seq(BankTransaction), NEW t \in BankTransaction,
         bankTxs' = Append(bankTxs, t), NEW r \in Requests, order'[r] = order[r], Backed(r)
  PROVE  Backed(r)'
<1>1. PICK i \in DOMAIN bankTxs :
        bankTxs[i].payer = order[r].bankAccountNumber /\ bankTxs[i].amount = order[r].amount
  BY DEF Backed
<1>2. i \in DOMAIN bankTxs' /\ bankTxs'[i] = bankTxs[i]
  OBVIOUS
<1>3. QED
  BY <1>1, <1>2 DEF Backed

-----------------------------------------------------------------------------
LEMMA InitIInv == Init => IInv
BY UnitAssumption
DEF Init, IInv, TypeOK, Fresh, Ordered, OrderedMempool, OnChain, BackedHandlers, BackedMempool,
    PayoutBacked

-----------------------------------------------------------------------------
(* Each action preserves IInv.                                             *)

LEMMA PaymentStep ==
  ASSUME IInv, NEW p \in Accounts \union {NoPayer}, NEW a \in Amounts, BankPayment(p, a)
  PROVE  IInv'
<1> DEFINE t == [payer |-> p, amount |-> a]
<1>1. t \in BankTransaction /\ bankTxs' = Append(bankTxs, t)
  BY DEF BankPayment, BankTransaction
<1>2. /\ UNCHANGED <<pc, order, answer, cctp, transfer, mempool, balance, allowance, fees>>
      /\ TypeOK
  BY DEF BankPayment, chainVars, IInv
<1>3. \A r \in Requests : Backed(r) => Backed(r)'
  BY <1>1, <1>2, BackedStable DEF TypeOK
<1>4. TypeOK'
  BY <1>1, <1>2 DEF TypeOK
<1>5. (Fresh /\ Ordered /\ OrderedMempool /\ OnChain)'
  BY <1>2 DEF IInv, Fresh, Ordered, OrderedMempool, OnChain
<1>6. (BackedHandlers /\ BackedMempool /\ PayoutBacked)'
  BY <1>2, <1>3 DEF IInv, BackedHandlers, BackedMempool, PayoutBacked
<1>7. QED
  BY <1>4, <1>5, <1>6 DEF IInv

LEMMA RequestStep ==
  ASSUME IInv, NEW r \in Requests, NEW o \in TransactionRequest, BuyCryptoWithFiat(r, o)
  PROVE  IInv'
<1>1. /\ pc[r] = "idle" /\ pc' = [pc EXCEPT ![r] = "fetch"]
      /\ order' = [order EXCEPT ![r] = o]
      /\ UNCHANGED <<bankTxs, answer, cctp, transfer, mempool, balance, allowance, fees>>
      /\ TypeOK
  BY DEF BuyCryptoWithFiat, Goto, chainVars, IInv
<1>2. TypeOK'
  BY <1>1 DEF TypeOK
<1>3. \A q \in Requests : q # r => order'[q] = order[q] /\ pc'[q] = pc[q] /\ (Backed(q)' <=> Backed(q))
  BY <1>1 DEF TypeOK, Backed
<1>4. order'[r] = o /\ pc'[r] = "fetch"
  BY <1>1 DEF TypeOK
<1>5. \A c \in Chains : \A i \in DOMAIN mempool[c] :
        mempool[c][i].kind # "approve" => mempool[c][i].r \in Requests \ {r}
  BY <1>1 DEF Fresh, IInv, BackedMempool
<1>6. (Fresh /\ Ordered /\ OrderedMempool /\ OnChain)'
  BY <1>1, <1>3, <1>4, <1>5 DEF IInv, Fresh, Ordered, OrderedMempool, OnChain
<1>7. (BackedHandlers /\ BackedMempool /\ PayoutBacked)'
  BY <1>1, <1>3, <1>4, <1>5 DEF IInv, BackedHandlers, BackedMempool, PayoutBacked, Fresh
<1>8. QED
  BY <1>2, <1>6, <1>7 DEF IInv

(***************************************************************************)
(* The steps of handlers and chains leave the bank and the requests alone; *)
(* what they owe IInv is then the type, and that new labels, statuses and  *)
(* transactions belong to requests that were already backed.               *)
(***************************************************************************)
Entitled(r) == pc[r] # "idle" /\ Backed(r) /\ order[r] \in TransactionRequest

LEMMA EntitledStep ==
  ASSUME IInv, TypeOK', UNCHANGED <<bankTxs, order>>,
         \A r \in Requests : pc'[r] # "idle" <=> pc[r] # "idle",
         \A r \in Requests :
           pc'[r] \in {"burn", "attest", "mint", "transfer"} =>
             pc'[r] = pc[r] \/ (Entitled(r) /\ order[r].chain \in Chains),
         \A r \in Requests : cctp'[r] # "none" \/ transfer'[r] # "none" =>
           Entitled(r) \/ cctp[r] # "none" \/ transfer[r] # "none",
         \A c \in Chains : \A i \in DOMAIN mempool'[c] :
           \/ mempool'[c][i].kind = "approve"
           \/ mempool'[c][i].r \in Requests /\ Entitled(mempool'[c][i].r)
           \/ \E j \in DOMAIN mempool[c] : mempool'[c][i] = mempool[c][j]
  PROVE  IInv'
<1>1. \A r \in Requests : Backed(r)' <=> Backed(r)
  BY DEF Backed
<1>2. \A c \in Chains : \A i \in DOMAIN mempool'[c] : mempool'[c][i].kind # "approve" =>
        mempool'[c][i].r \in Requests /\ Entitled(mempool'[c][i].r)
  BY DEF IInv, Fresh, OrderedMempool, BackedMempool, Entitled
<1>3. (Ordered /\ OrderedMempool /\ OnChain)'
  BY <1>2 DEF IInv, Ordered, OrderedMempool, OnChain, Entitled
<1>4. (Fresh /\ BackedMempool)'
  BY <1>1, <1>2 DEF IInv, Fresh, BackedMempool, Entitled
<1>5. (BackedHandlers /\ PayoutBacked)'
  BY <1>1 DEF IInv, BackedHandlers, PayoutBacked, Entitled
<1>6. QED
  BY <1>3, <1>4, <1>5 DEF IInv

\* What IInv says of a handler past the bank's answer, and of the oldest
\* transaction of a mempool.
LEMMA HandlerEntitled ==
  ASSUME IInv, NEW r \in Requests, pc[r] \in {"burn", "attest", "mint", "transfer"}
  PROVE  Entitled(r) /\ order[r].chain \in Chains /\ Units(r) \in Nat
BY UnitsAtLeastFee DEF IInv, Ordered, OnChain, BackedHandlers, Entitled

LEMMA HeadEntitled ==
  ASSUME IInv, NEW c \in Chains, NEW kind \in {"burn", "mint", "transfer"}, NextTx(c, kind), Mined(c)
  PROVE  LET r == Head(mempool[c]).r IN
           r \in Requests /\ Entitled(r) /\ Units(r) \in Nat /\ Units(r) >= MaxFee
<1> DEFINE r == Head(mempool[c]).r
<1>1. 1 \in DOMAIN mempool[c] /\ Head(mempool[c]) = mempool[c][1] /\ mempool[c][1].kind # "approve"
  BY MinedRemoves DEF IInv, TypeOK, NextTx
<1>2. r \in Requests /\ Entitled(r)
  BY <1>1 DEF IInv, Fresh, OrderedMempool, BackedMempool, Entitled
<1>3. QED
  BY <1>2, UnitsAtLeastFee DEF Entitled

\* The handler of one request moves on, with or without an answer.
LEMMA HandlerMoves ==
  ASSUME TypeOK, NEW r \in Requests,
         NEW l \in {"fetch", "burn", "attest", "mint", "transfer", "done"},
         NEW a \in {"none", "success", "mismatch", "error"},
         Goto(r, l) \/ (l = "done" /\ Answer(r, a))
  PROVE  /\ pc' = [pc EXCEPT ![r] = l]
         /\ pc' \in [Requests -> {"idle", "fetch", "burn", "attest", "mint", "transfer", "done"}]
         /\ answer' \in [Requests -> {"none", "success", "mismatch", "error"}]
<1>1. pc' = [pc EXCEPT ![r] = l]
  BY DEF Goto, Answer
<1>2. answer' = answer \/ answer' = [answer EXCEPT ![r] = a]
  BY DEF Goto, Answer
<1>3. QED
  BY <1>1, <1>2 DEF TypeOK

\* Submitting a transaction of an entitled request is as EntitledStep wants it.
LEMMA SubmitEntitled ==
  ASSUME TypeOK, NEW q \in Requests, Entitled(q), NEW d \in Chains,
         NEW kind \in {"burn", "mint", "transfer"},
         Submit(d, [kind |-> kind, r |-> q]) \/ UNCHANGED mempool
  PROVE  /\ mempool' \in [Chains -> Seq(Tx)]
         /\ \A c \in Chains : \A i \in DOMAIN mempool'[c] :
              \/ mempool'[c][i].kind = "approve"
              \/ mempool'[c][i].r \in Requests /\ Entitled(mempool'[c][i].r)
              \/ \E j \in DOMAIN mempool[c] : mempool'[c][i] = mempool[c][j]
<1> DEFINE tx == [kind |-> kind, r |-> q]
<1>1. tx \in Tx /\ tx.r = q
  BY DEF Tx
<1>2. CASE UNCHANGED mempool
  BY <1>2 DEF TypeOK
<1>3. CASE Submit(d, tx)
  <2> HIDE DEF tx
  <2>1. /\ mempool' \in [Chains -> Seq(Tx)]
        /\ \A c \in Chains : \A i \in DOMAIN mempool'[c] :
             mempool'[c][i] = tx \/ (i \in DOMAIN mempool[c] /\ mempool'[c][i] = mempool[c][i])
    BY <1>1, <1>3, SubmitAdds DEF TypeOK
  <2>2. QED
    BY <1>1, <2>1
<1>4. QED
  BY <1>2, <1>3

LEMMA BankStep ==
  ASSUME IInv, NEW r \in Requests, getTransactions(r)
  PROVE  IInv'
<1>1. /\ pc[r] = "fetch" /\ TypeOK
      /\ UNCHANGED <<bankTxs, order, cctp, transfer, mempool, balance, allowance, fees>>
  BY DEF getTransactions, chainVars, IInv
<1>2. order[r] \in TransactionRequest
  BY <1>1 DEF IInv, Ordered
<1>3. \E l \in {"burn", "transfer", "done"}, a \in {"error", "mismatch"} :
        /\ Goto(r, l) \/ (l = "done" /\ Answer(r, a))
        /\ l # "done" => Entitled(r) /\ order[r].chain \in Chains
  <2>1. CASE Answer(r, "error") \/ Answer(r, "mismatch")
    BY <2>1
  <2>2. CASE \E i \in DOMAIN bankTxs :
               /\ IsFirstMatch(r, i)
               /\ bankTxs[i].amount = order[r].amount
               /\ IF order[r].chain = "sepolia" THEN EnterSend(r) ELSE EnterBurn(r)
    <3>1. Backed(r)
      BY <2>2 DEF Backed, IsFirstMatch, Matching
    <3>2. Entitled(r)
      BY <1>1, <1>2, <3>1 DEF Entitled
    <3>3. QED
      BY <2>2, <3>2 DEF EnterSend, EnterBurn, getDomain
  <2>3. QED
    BY <2>1, <2>2 DEF getTransactions
<1>4. PICK l \in {"burn", "transfer", "done"}, a \in {"error", "mismatch"} :
        /\ Goto(r, l) \/ (l = "done" /\ Answer(r, a))
        /\ l # "done" => Entitled(r) /\ order[r].chain \in Chains
  BY <1>3
<1>5. /\ pc' = [pc EXCEPT ![r] = l]
      /\ pc' \in [Requests -> {"idle", "fetch", "burn", "attest", "mint", "transfer", "done"}]
      /\ answer' \in [Requests -> {"none", "success", "mismatch", "error"}]
  BY <1>1, <1>4, HandlerMoves
<1>6. TypeOK'
  BY <1>1, <1>5 DEF TypeOK
<1>7. QED
  BY <1>1, <1>4, <1>5, <1>6, EntitledStep DEF TypeOK

LEMMA BurnStep ==
  ASSUME IInv, NEW r \in Requests, burnUSDC(r)
  PROVE  IInv'
<1> DEFINE tx == [kind |-> "burn", r |-> r]
<1>1. /\ pc[r] = "burn" /\ TypeOK
      /\ UNCHANGED <<bankTxs, order, transfer, balance, allowance, fees>>
      /\ Entitled(r) /\ order[r].chain \in Chains
  BY HandlerEntitled DEF burnUSDC, IInv
<1>2. PICK l \in {"attest", "done"} : Goto(r, l) \/ (l = "done" /\ Answer(r, "error"))
  BY DEF burnUSDC
<1>3. /\ pc' = [pc EXCEPT ![r] = l]
      /\ pc' \in [Requests -> {"idle", "fetch", "burn", "attest", "mint", "transfer", "done"}]
      /\ answer' \in [Requests -> {"none", "success", "mismatch", "error"}]
  BY <1>1, <1>2, HandlerMoves
<1>4. \/ Submit("sepolia", tx) /\ cctp' = [cctp EXCEPT ![r] = "submitted"]
      \/ UNCHANGED <<mempool, cctp>>
  BY DEF burnUSDC
<1>5. /\ mempool' \in [Chains -> Seq(Tx)]
      /\ \A c \in Chains : \A i \in DOMAIN mempool'[c] :
           \/ mempool'[c][i].kind = "approve"
           \/ mempool'[c][i].r \in Requests /\ Entitled(mempool'[c][i].r)
           \/ \E j \in DOMAIN mempool[c] : mempool'[c][i] = mempool[c][j]
  BY <1>1, <1>4, SubmitEntitled DEF Chains
<1>6. TypeOK'
  BY <1>1, <1>3, <1>4, <1>5 DEF TypeOK
<1>7. /\ \A q \in Requests : pc'[q] # "idle" <=> pc[q] # "idle"
      /\ \A q \in Requests : pc'[q] \in {"burn", "attest", "mint", "transfer"} =>
           pc'[q] = pc[q] \/ (Entitled(q) /\ order[q].chain \in Chains)
      /\ \A q \in Requests : cctp'[q] # "none" \/ transfer'[q] # "none" =>
           Entitled(q) \/ cctp[q] # "none" \/ transfer[q] # "none"
  BY <1>1, <1>3, <1>4 DEF TypeOK
<1>8. QED
  BY <1>1, <1>5, <1>6, <1>7, EntitledStep

LEMMA AttestationStep ==
  ASSUME IInv, NEW r \in Requests, retrieveAttestation(r)
  PROVE  IInv'
<1>1. /\ pc[r] = "attest" /\ TypeOK
      /\ UNCHANGED <<bankTxs, order, cctp, transfer, mempool, balance, allowance, fees>>
      /\ Entitled(r) /\ order[r].chain \in Chains
  BY HandlerEntitled DEF retrieveAttestation, chainVars, IInv
<1>2. CASE UNCHANGED <<pc, answer>>
  <2>1. TypeOK'
    BY <1>1, <1>2 DEF TypeOK
  <2>2. QED
    BY <1>1, <1>2, <2>1, EntitledStep
<1>3. CASE \E l \in {"mint", "done"} : Goto(r, l) \/ (l = "done" /\ Answer(r, "error"))
  <2>1. PICK l \in {"mint", "done"} : Goto(r, l) \/ (l = "done" /\ Answer(r, "error"))
    BY <1>3
  <2>2. /\ pc' = [pc EXCEPT ![r] = l]
        /\ pc' \in [Requests -> {"idle", "fetch", "burn", "attest", "mint", "transfer", "done"}]
        /\ answer' \in [Requests -> {"none", "success", "mismatch", "error"}]
    BY <1>1, <2>1, HandlerMoves
  <2>3. TypeOK'
    BY <1>1, <2>2 DEF TypeOK
  <2>4. QED
    BY <1>1, <2>2, <2>3, EntitledStep DEF TypeOK
<1>4. QED
  BY <1>2, <1>3 DEF retrieveAttestation

LEMMA MintStep ==
  ASSUME IInv, NEW r \in Requests, mintUSDC(r)
  PROVE  IInv'
<1> DEFINE tx == [kind |-> "mint", r |-> r]
<1>1. /\ pc[r] = "mint" /\ TypeOK
      /\ UNCHANGED <<bankTxs, order, transfer, balance, allowance, fees>>
      /\ Entitled(r) /\ order[r].chain \in Chains
  BY HandlerEntitled DEF mintUSDC, IInv
<1>2. PICK l \in {"transfer", "done"} : Goto(r, l) \/ (l = "done" /\ Answer(r, "error"))
  BY DEF mintUSDC, EnterSend
<1>3. /\ pc' = [pc EXCEPT ![r] = l]
      /\ pc' \in [Requests -> {"idle", "fetch", "burn", "attest", "mint", "transfer", "done"}]
      /\ answer' \in [Requests -> {"none", "success", "mismatch", "error"}]
  BY <1>1, <1>2, HandlerMoves
<1>4. \/ Submit(order[r].chain, tx) /\ cctp' = [cctp EXCEPT ![r] = "minting"]
      \/ UNCHANGED <<mempool, cctp>>
  BY DEF mintUSDC
<1>5. /\ mempool' \in [Chains -> Seq(Tx)]
      /\ \A c \in Chains : \A i \in DOMAIN mempool'[c] :
           \/ mempool'[c][i].kind = "approve"
           \/ mempool'[c][i].r \in Requests /\ Entitled(mempool'[c][i].r)
           \/ \E j \in DOMAIN mempool[c] : mempool'[c][i] = mempool[c][j]
  BY <1>1, <1>4, SubmitEntitled
<1>6. TypeOK'
  BY <1>1, <1>3, <1>4, <1>5 DEF TypeOK
<1>7. /\ \A q \in Requests : pc'[q] # "idle" <=> pc[q] # "idle"
      /\ \A q \in Requests : pc'[q] \in {"burn", "attest", "mint", "transfer"} =>
           pc'[q] = pc[q] \/ (Entitled(q) /\ order[q].chain \in Chains)
      /\ \A q \in Requests : cctp'[q] # "none" \/ transfer'[q] # "none" =>
           Entitled(q) \/ cctp[q] # "none" \/ transfer[q] # "none"
  BY <1>1, <1>3, <1>4 DEF TypeOK
<1>8. QED
  BY <1>1, <1>5, <1>6, <1>7, EntitledStep

LEMMA SendStep ==
  ASSUME IInv, NEW r \in Requests, send(r)
  PROVE  IInv'
<1> DEFINE tx == [kind |-> "transfer", r |-> r]
<1>1. /\ pc[r] = "transfer" /\ TypeOK
      /\ UNCHANGED <<bankTxs, order, cctp, balance, allowance, fees>>
      /\ Entitled(r) /\ order[r].chain \in Chains
  BY HandlerEntitled DEF send, IInv
<1>2. PICK a \in {"success", "error"} : Answer(r, a)
  BY DEF send
<1>3. /\ pc' = [pc EXCEPT ![r] = "done"]
      /\ pc' \in [Requests -> {"idle", "fetch", "burn", "attest", "mint", "transfer", "done"}]
      /\ answer' \in [Requests -> {"none", "success", "mismatch", "error"}]
  BY <1>1, <1>2, HandlerMoves
<1>4. \/ Submit(order[r].chain, tx) /\ transfer' = [transfer EXCEPT ![r] = "submitted"]
      \/ UNCHANGED <<mempool, transfer>>
  BY DEF send
<1>5. /\ mempool' \in [Chains -> Seq(Tx)]
      /\ \A c \in Chains : \A i \in DOMAIN mempool'[c] :
           \/ mempool'[c][i].kind = "approve"
           \/ mempool'[c][i].r \in Requests /\ Entitled(mempool'[c][i].r)
           \/ \E j \in DOMAIN mempool[c] : mempool'[c][i] = mempool[c][j]
  BY <1>1, <1>4, SubmitEntitled
<1>6. TypeOK'
  BY <1>1, <1>3, <1>4, <1>5 DEF TypeOK
<1>7. /\ \A q \in Requests : pc'[q] # "idle" <=> pc[q] # "idle"
      /\ \A q \in Requests : pc'[q] \in {"burn", "attest", "mint", "transfer"} =>
           pc'[q] = pc[q] \/ (Entitled(q) /\ order[q].chain \in Chains)
      /\ \A q \in Requests : cctp'[q] # "none" \/ transfer'[q] # "none" =>
           Entitled(q) \/ cctp[q] # "none" \/ transfer[q] # "none"
  BY <1>1, <1>3, <1>4 DEF TypeOK
<1>8. QED
  BY <1>1, <1>5, <1>6, <1>7, EntitledStep

LEMMA ApproveStep ==
  ASSUME IInv, approveUSDC
  PROVE  IInv'
<1>1. [kind |-> "approve"] \in Tx /\ TypeOK /\ "sepolia" \in Chains
  BY DEF Tx, IInv, Chains
<1>2. /\ mempool' \in [Chains -> Seq(Tx)]
      /\ \A d \in Chains : \A i \in DOMAIN mempool'[d] :
           \/ mempool'[d][i].kind = "approve"
           \/ i \in DOMAIN mempool[d] /\ mempool'[d][i] = mempool[d][i]
  <2> DEFINE tx == [kind |-> "approve"]
  <2>1. tx.kind = "approve" /\ Submit("sepolia", tx) /\ tx \in Tx
    BY <1>1 DEF approveUSDC
  <2> HIDE DEF tx
  <2>2. QED
    BY <1>1, <2>1, SubmitAdds DEF TypeOK
<1>3. TypeOK' /\ UNCHANGED <<bankTxs, pc, order, cctp, transfer>>
  BY <1>1, <1>2 DEF TypeOK, approveUSDC
<1>4. QED
  BY <1>2, <1>3, EntitledStep

\* Mining is as EntitledStep wants it: it adds no transaction.
LEMMA MinedEntitled ==
  ASSUME IInv, NEW d \in Chains, mempool[d] # << >>, Mined(d)
  PROVE  /\ mempool' \in [Chains -> Seq(Tx)]
         /\ \A c \in Chains : \A i \in DOMAIN mempool'[c] :
              \/ mempool'[c][i].kind = "approve"
              \/ mempool'[c][i].r \in Requests /\ Entitled(mempool'[c][i].r)
              \/ \E j \in DOMAIN mempool[c] : mempool'[c][i] = mempool[c][j]
BY MinedRemoves DEF IInv, TypeOK

LEMMA MineApproveStep ==
  ASSUME IInv, MineApprove
  PROVE  IInv'
<1>1. /\ TypeOK /\ "sepolia" \in Chains /\ mempool["sepolia"] # << >> /\ Mined("sepolia")
      /\ UNCHANGED <<bankTxs, pc, order, answer, cctp, transfer, balance, fees>>
      /\ allowance' \in Nat
  BY UnitAssumption DEF MineApprove, NextTx, IInv, Chains
<1>2. TypeOK'
  BY <1>1, MinedEntitled DEF TypeOK
<1>3. QED
  BY <1>1, <1>2, MinedEntitled, EntitledStep

LEMMA MineBurnStep ==
  ASSUME IInv, MineBurn
  PROVE  IInv'
<1> DEFINE r == Head(mempool["sepolia"]).r
<1>1. /\ TypeOK /\ "sepolia" \in Chains /\ mempool["sepolia"] # << >> /\ Mined("sepolia")
      /\ UNCHANGED <<bankTxs, pc, order, answer, transfer, fees>>
      /\ NextTx("sepolia", "burn")
  BY DEF MineBurn, NextTx, IInv, Chains
<1>2. r \in Requests /\ Entitled(r) /\ Units(r) \in Nat
  BY <1>1, HeadEntitled
<1>3. PICK v \in {"burned", "reverted"} : cctp' = [cctp EXCEPT ![r] = v]
  BY DEF MineBurn
<1>4. balance' \in [Chains -> Nat] /\ allowance' \in Nat
  <2> HIDE DEF r
  <2>1. CASE UNCHANGED <<balance, allowance>>
    BY <1>1, <2>1 DEF TypeOK
  <2>2. CASE /\ allowance >= Units(r) /\ balance["sepolia"] >= Units(r)
             /\ balance' = [balance EXCEPT !["sepolia"] = @ - Units(r)]
             /\ allowance' = allowance - Units(r)
    BY <1>1, <1>2, <2>2 DEF TypeOK
  <2>3. QED
    BY <2>1, <2>2 DEF MineBurn, r
<1>5. TypeOK'
  BY <1>1, <1>2, <1>3, <1>4, MinedEntitled DEF TypeOK
<1>6. \A q \in Requests : cctp'[q] # "none" \/ transfer'[q] # "none" =>
        Entitled(q) \/ cctp[q] # "none" \/ transfer[q] # "none"
  BY <1>1, <1>2, <1>3 DEF TypeOK
<1>7. QED
  BY <1>1, <1>5, <1>6, MinedEntitled, EntitledStep

LEMMA MineMintStep ==
  ASSUME IInv, NEW c \in Chains, NEW fee \in 0 .. MaxFee, MineMint(c, fee)
  PROVE  IInv'
<1> DEFINE r == Head(mempool[c]).r
<1>1. /\ TypeOK /\ mempool[c] # << >> /\ Mined(c) /\ NextTx(c, "mint")
      /\ UNCHANGED <<bankTxs, pc, order, answer, transfer, allowance>>
      /\ cctp' = [cctp EXCEPT ![r] = "minted"]
      /\ balance' = [balance EXCEPT ![c] = @ + (Units(r) - fee)]
      /\ fees' = fees + fee
  BY DEF MineMint, NextTx, IInv
<1>2. r \in Requests /\ Entitled(r) /\ Units(r) \in Nat /\ Units(r) >= MaxFee
  BY <1>1, HeadEntitled
<1>3. balance' \in [Chains -> Nat] /\ fees' \in Nat
  <2> HIDE DEF r
  <2>1. Units(r) - fee \in Nat /\ fee \in Nat
    BY <1>2, UnitAssumption
  <2>2. QED
    BY <1>1, <2>1 DEF TypeOK
<1>4. TypeOK'
  BY <1>1, <1>2, <1>3, MinedEntitled DEF TypeOK
<1>5. \A q \in Requests : cctp'[q] # "none" \/ transfer'[q] # "none" =>
        Entitled(q) \/ cctp[q] # "none" \/ transfer[q] # "none"
  BY <1>1, <1>2 DEF TypeOK
<1>6. QED
  BY <1>1, <1>4, <1>5, MinedEntitled, EntitledStep

LEMMA MineTransferStep ==
  ASSUME IInv, NEW c \in Chains, MineTransfer(c)
  PROVE  IInv'
<1> DEFINE r == Head(mempool[c]).r
<1>1. /\ TypeOK /\ mempool[c] # << >> /\ Mined(c) /\ NextTx(c, "transfer")
      /\ UNCHANGED <<bankTxs, pc, order, answer, cctp, allowance, fees>>
  BY DEF MineTransfer, NextTx, IInv
<1>2. r \in Requests /\ Entitled(r) /\ Units(r) \in Nat
  BY <1>1, HeadEntitled
<1>3. PICK v \in {"paid", "reverted"} : transfer' = [transfer EXCEPT ![r] = v]
  BY DEF MineTransfer
<1>4. balance' \in [Chains -> Nat]
  <2> HIDE DEF r
  <2>1. CASE UNCHANGED balance
    BY <1>1, <2>1 DEF TypeOK
  <2>2. CASE balance[c] >= Units(r) /\ balance' = [balance EXCEPT ![c] = @ - Units(r)]
    BY <1>1, <1>2, <2>2 DEF TypeOK
  <2>3. QED
    BY <2>1, <2>2 DEF MineTransfer, r
<1>5. TypeOK'
  BY <1>1, <1>2, <1>3, <1>4, MinedEntitled DEF TypeOK
<1>6. \A q \in Requests : cctp'[q] # "none" \/ transfer'[q] # "none" =>
        Entitled(q) \/ cctp[q] # "none" \/ transfer[q] # "none"
  BY <1>1, <1>2, <1>3 DEF TypeOK
<1>7. QED
  BY <1>1, <1>5, <1>6, MinedEntitled, EntitledStep

LEMMA AttestStep ==
  ASSUME IInv, NEW r \in Requests, Attest(r)
  PROVE  IInv'
<1>1. /\ TypeOK /\ cctp[r] = "burned" /\ cctp' = [cctp EXCEPT ![r] = "attested"]
      /\ UNCHANGED <<bankTxs, pc, order, answer, transfer, mempool, balance, allowance, fees>>
  BY DEF Attest, chainVars, IInv
<1>2. TypeOK'
  BY <1>1 DEF TypeOK
<1>3. \A q \in Requests : cctp'[q] # "none" \/ transfer'[q] # "none" =>
        Entitled(q) \/ cctp[q] # "none" \/ transfer[q] # "none"
  BY <1>1 DEF TypeOK
<1>4. QED
  BY <1>1, <1>2, <1>3, EntitledStep

-----------------------------------------------------------------------------
LEMMA NextIInv == IInv /\ [Next]_vars => IInv'
<1> SUFFICES ASSUME IInv, [Next]_vars PROVE IInv'
  OBVIOUS
<1>1. CASE UNCHANGED vars
  BY <1>1 DEF vars, IInv, TypeOK, Fresh, Ordered, OrderedMempool, OnChain, BackedHandlers,
              BackedMempool, PayoutBacked, Backed
<1>2. CASE \E p \in Accounts \union {NoPayer}, a \in Amounts : BankPayment(p, a)
  BY <1>2, PaymentStep
<1>3. CASE \E r \in Requests, o \in TransactionRequest : BuyCryptoWithFiat(r, o)
  BY <1>3, RequestStep
<1>4. CASE \E r \in Requests : Handler(r)
  BY <1>4, BankStep, BurnStep, AttestationStep, MintStep, SendStep DEF Handler
<1>5. CASE \E r \in Requests : Attest(r)
  BY <1>5, AttestStep
<1>6. CASE approveUSDC
  BY <1>6, ApproveStep
<1>7. CASE \E c \in Chains : Mine(c)
  BY <1>7, MineApproveStep, MineBurnStep, MineMintStep, MineTransferStep DEF Mine
<1>8. QED
  BY <1>1, <1>2, <1>3, <1>4, <1>5, <1>6, <1>7 DEF Next

\* IInv holds in every reachable state.
THEOREM Invariance == Spec => []IInv
BY InitIInv, NextIInv, PTL DEF Spec

(***************************************************************************)
(* Whatever requests are interleaved and whatever calls fail, the handlers *)
(* and the chains keep every variable in its type: no balance of the       *)
(* service and no allowance goes below zero.                               *)
(***************************************************************************)
THEOREM TypeCorrect == Spec => []TypeOK
<1>1. IInv => TypeOK
  BY DEF IInv
<1>2. QED
  BY <1>1, Invariance, PTL

(***************************************************************************)
(* executeTransaction burns and pays out only for requests with a listed   *)
(* bank transaction of the payer over the amount of the request.           *)
(***************************************************************************)
THEOREM PaymentBeforePayout == Spec => []PayoutBacked
<1>1. IInv => PayoutBacked
  BY DEF IInv
<1>2. QED
  BY <1>1, Invariance, PTL
-----------------------------------------------------------------------------
(***************************************************************************)
(* The order of mint and payout.  No handler waits for a receipt, so what  *)
(* orders them is the mempool: a payout on another chain than sepolia is   *)
(* submitted behind the mint of its request, on the same chain.            *)
(***************************************************************************)
Burn(r) == [kind |-> "burn", r |-> r]
Mint(r) == [kind |-> "mint", r |-> r]
Payout(r) == [kind |-> "transfer", r |-> r]

\* Nothing was burned for a request before burnUSDC ran.
Unburned == \A r \in Requests : pc[r] \in {"idle", "fetch", "burn"} => cctp[r] = "none"
\* A request is at mintUSDC with its attestation in hand.
Attested == \A r \in Requests : pc[r] = "mint" => cctp[r] = "attested"
\* A burn in the mempool has not been mined before, nor has a mint.
BurnsPending ==
  \A c \in Chains : \A i \in DOMAIN mempool[c] : \A r \in Requests :
    mempool[c][i] = Burn(r) => c = "sepolia" /\ cctp[r] = "submitted"
MintsPending ==
  \A c \in Chains : \A i \in DOMAIN mempool[c] : \A r \in Requests :
    mempool[c][i] = Mint(r) => c = order[r].chain /\ cctp[r] = "minting"
\* Burns and mints are in a mempool once.
Once ==
  \A c \in Chains : \A i, j \in DOMAIN mempool[c] : \A r \in Requests :
    mempool[c][i] = mempool[c][j] /\ mempool[c][i] \in {Burn(r), Mint(r)} => i = j
\* The handler is about to pay, or a payout is in the mempool: the mint was
\* mined, or it is in front.
MintSubmitted(r) ==
  \E j \in DOMAIN mempool[order[r].chain] : mempool[order[r].chain][j] = Mint(r)
MintInFront(r, n) ==
  \E j \in DOMAIN mempool[order[r].chain] : j < n /\ mempool[order[r].chain][j] = Mint(r)
PayoutReady ==
  \A r \in Requests : pc[r] = "transfer" /\ order[r].chain # "sepolia" =>
    cctp[r] = "minted" \/ MintSubmitted(r)
PayoutsPending ==
  \A c \in Chains : \A i \in DOMAIN mempool[c] : \A r \in Requests :
    mempool[c][i] = Payout(r) =>
      /\ c = order[r].chain
      /\ c # "sepolia" => cctp[r] = "minted" \/ MintInFront(r, i)

MintInv ==
  /\ Unburned /\ Attested
  /\ BurnsPending /\ MintsPending /\ Once
  /\ PayoutReady /\ PayoutsPending
  /\ PaidAfterMint

\* Transactions of different requests or kinds differ; the oldest one of a
\* mempool is the burn, the mint or the payout its kind says.
LEMMA TxKinds ==
  ASSUME NEW r \in Requests, NEW q \in Requests
  PROVE  /\ Burn(r) \in Tx /\ Mint(r) \in Tx /\ Payout(r) \in Tx
         /\ Burn(r) # Mint(q) /\ Burn(r) # Payout(q) /\ Mint(r) # Payout(q)
         /\ Burn(r) # [kind |-> "approve"] /\ Mint(r) # [kind |-> "approve"]
         /\ Payout(r) # [kind |-> "approve"]
         /\ (Burn(r) = Burn(q) => r = q)
         /\ (Mint(r) = Mint(q) => r = q)
         /\ (Payout(r) = Payout(q) => r = q)
<1>1. /\ Burn(r).kind = "burn" /\ Mint(r).kind = "mint" /\ Payout(r).kind = "transfer"
      /\ Burn(q).kind = "burn" /\ Mint(q).kind = "mint" /\ Payout(q).kind = "transfer"
      /\ Burn(r).r = r /\ Mint(r).r = r /\ Payout(r).r = r
      /\ Burn(q).r = q /\ Mint(q).r = q /\ Payout(q).r = q
      /\ [kind |-> "approve"].kind = "approve"
  BY DEF Burn, Mint, Payout
<1>2. Burn(r) \in Tx /\ Mint(r) \in Tx /\ Payout(r) \in Tx
  BY DEF Burn, Mint, Payout, Tx
<1>3. QED
  BY <1>1, <1>2

LEMMA HeadKinds ==
  ASSUME TypeOK, NEW c \in Chains, mempool[c] # << >>
  PROVE  /\ NextTx(c, "burn") => mempool[c][1] = Burn(Head(mempool[c]).r)
         /\ NextTx(c, "mint") => mempool[c][1] = Mint(Head(mempool[c]).r)
         /\ NextTx(c, "transfer") => mempool[c][1] = Payout(Head(mempool[c]).r)
         /\ 1 \in DOMAIN mempool[c]
<1>1. mempool[c] \in Seq(Tx)
  BY DEF TypeOK
<1>2. Head(mempool[c]) = mempool[c][1] /\ mempool[c][1] \in Tx /\ 1 \in DOMAIN mempool[c]
  BY <1>1
<1> DEFINE tx == mempool[c][1]
<1>3. /\ tx.kind \in {"burn", "mint", "transfer"} => tx = [kind |-> tx.kind, r |-> tx.r]
  BY <1>2 DEF Tx
<1>4. QED
  BY <1>2, <1>3 DEF NextTx, Burn, Mint, Payout

\* Where Submit puts its transaction, and what Mined moves.
LEMMA SubmitAt ==
  ASSUME mempool \in [Chains -> Seq(Tx)], NEW c \in Chains, NEW tx \in Tx, Submit(c, tx)
  PROVE  /\ \A d \in Chains : d # c => mempool'[d] = mempool[d]
         /\ Len(mempool'[c]) = Len(mempool[c]) + 1 /\ Len(mempool[c]) \in Nat
         /\ DOMAIN mempool[c] = 1 .. Len(mempool[c])
         /\ DOMAIN mempool'[c] = 1 .. Len(mempool[c]) + 1
         /\ mempool'[c][Len(mempool[c]) + 1] = tx
         /\ \A i \in DOMAIN mempool[c] : mempool'[c][i] = mempool[c][i]
<1>1. mempool' = [mempool EXCEPT ![c] = Append(mempool[c], tx)] /\ mempool[c] \in Seq(Tx)
  BY DEF Submit
<1>2. mempool'[c] = Append(mempool[c], tx)
  BY <1>1
<1>3. QED
  BY <1>1, <1>2

LEMMA MinedAt ==
  ASSUME mempool \in [Chains -> Seq(Tx)], NEW c \in Chains, mempool[c] # << >>, Mined(c)
  PROVE  /\ \A d \in Chains : d # c => mempool'[d] = mempool[d]
         /\ Len(mempool[c]) \in Nat \ {0} /\ Len(mempool'[c]) = Len(mempool[c]) - 1
         /\ DOMAIN mempool[c] = 1 .. Len(mempool[c])
         /\ DOMAIN mempool'[c] = 1 .. Len(mempool[c]) - 1
         /\ \A i \in DOMAIN mempool'[c] : mempool'[c][i] = mempool[c][i + 1]
<1>1. mempool' = [mempool EXCEPT ![c] = Tail(mempool[c])] /\ mempool[c] \in Seq(Tx)
  BY DEF Mined
<1>2. mempool'[c] = Tail(mempool[c])
  BY <1>1
<1>3. QED
  BY <1>1, <1>2

LEMMA InitMintInv == Init => MintInv
BY DEF Init, MintInv, Unburned, Attested, BurnsPending, MintsPending, Once, PayoutReady,
       PayoutsPending, PaidAfterMint

\* A step that leaves the chains, the orders and the transfers alone.
LEMMA QuietMint ==
  ASSUME MintInv, UNCHANGED <<order, cctp, transfer, mempool>>,
         \A r \in Requests :
           \/ pc'[r] = pc[r]
           \/ pc[r] = "fetch" /\ pc'[r] = "burn"
           \/ pc'[r] = "done"
           \/ pc'[r] = "mint" /\ cctp[r] = "attested"
           \/ pc'[r] = "transfer" /\ order[r].chain = "sepolia"
  PROVE  MintInv'
<1>1. (Unburned /\ Attested)'
  BY DEF MintInv, Unburned, Attested
<1>2. (BurnsPending /\ MintsPending /\ Once /\ PaidAfterMint)'
  BY DEF MintInv, BurnsPending, MintsPending, Once, PaidAfterMint
<1>3. (PayoutReady /\ PayoutsPending)'
  BY DEF MintInv, PayoutReady, PayoutsPending, MintInFront, MintSubmitted
<1>4. QED
  BY <1>1, <1>2, <1>3 DEF MintInv

\* A request of the user has nothing in any mempool when it arrives.
LEMMA RequestMint ==
  ASSUME IInv, MintInv, NEW q \in Requests, NEW o \in TransactionRequest, BuyCryptoWithFiat(q, o)
  PROVE  MintInv'
<1>1. /\ pc[q] = "idle" /\ pc' = [pc EXCEPT ![q] = "fetch"]
      /\ order' = [order EXCEPT ![q] = o]
      /\ UNCHANGED <<cctp, transfer, mempool>>
      /\ pc \in [Requests -> {"idle", "fetch", "burn", "attest", "mint", "transfer", "done"}]
      /\ order \in [Requests -> TransactionRequest \union {NoOrder}]
  BY DEF BuyCryptoWithFiat, Goto, chainVars, IInv, TypeOK
<1>2. cctp[q] = "none" /\ transfer[q] = "none"
  BY <1>1 DEF IInv, Fresh
<1>3. \A c \in Chains : \A i \in DOMAIN mempool[c] :
        mempool[c][i] # Burn(q) /\ mempool[c][i] # Mint(q) /\ mempool[c][i] # Payout(q)
  BY <1>1 DEF IInv, Fresh, Burn, Mint, Payout
<1>4. \A r \in Requests : r # q => order'[r] = order[r] /\ pc'[r] = pc[r]
  BY <1>1
<1>5. pc'[q] = "fetch"
  BY <1>1
<1>6. (Unburned /\ Attested /\ PaidAfterMint)'
  BY <1>1, <1>2, <1>4, <1>5 DEF MintInv, Unburned, Attested, PaidAfterMint
<1>7. (BurnsPending /\ MintsPending /\ Once)'
  BY <1>1, <1>3, <1>4 DEF MintInv, BurnsPending, MintsPending, Once
<1>8. (PayoutReady /\ PayoutsPending)'
  BY <1>1, <1>3, <1>4, <1>5 DEF MintInv, PayoutReady, PayoutsPending, MintInFront, MintSubmitted
<1>9. QED
  BY <1>6, <1>7, <1>8 DEF MintInv

\* A transaction joins the end of a mempool.
LEMMA SubmitMint ==
  ASSUME IInv, MintInv, NEW c \in Chains, NEW tx \in Tx, Submit(c, tx), UNCHANGED order,
         NEW q \in Requests,
         \A r \in Requests : r # q => cctp'[r] = cctp[r] /\ pc'[r] = pc[r] /\ transfer'[r] = transfer[r],
         transfer'[q] # "paid" \/ transfer'[q] = transfer[q],
         pc'[q] \notin {"idle", "fetch", "burn", "mint"} \/ (pc'[q] = pc[q] /\ cctp'[q] = cctp[q]),
         \/ tx = [kind |-> "approve"] /\ cctp'[q] = cctp[q] /\ pc'[q] = pc[q]
         \/ /\ tx = Burn(q) /\ c = "sepolia" /\ pc'[q] # "transfer" /\ pc[q] = "burn"
            /\ cctp'[q] = "submitted"
         \/ tx = Mint(q) /\ c = order[q].chain /\ pc[q] = "mint" /\ cctp'[q] = "minting"
         \/ /\ tx = Payout(q) /\ c = order[q].chain /\ pc[q] = "transfer" /\ cctp'[q] = cctp[q]
            /\ pc'[q] = "done"
  PROVE  MintInv'
<1> DEFINE n == Len(mempool[c]) + 1
<1>1. /\ \A d \in Chains : d # c => mempool'[d] = mempool[d]
      /\ Len(mempool'[c]) = n /\ n \in Nat \ {0}
      /\ DOMAIN mempool[c] = 1 .. n - 1
      /\ DOMAIN mempool'[c] = 1 .. n
      /\ mempool'[c][n] = tx
      /\ \A i \in DOMAIN mempool[c] : mempool'[c][i] = mempool[c][i]
  BY SubmitAt DEF IInv, TypeOK
<1> HIDE DEF n
<1>2. \A d \in Chains : \A i \in DOMAIN mempool'[d] :
        \/ i \in DOMAIN mempool[d] /\ mempool'[d][i] = mempool[d][i]
        \/ d = c /\ i = n /\ mempool'[d][i] = tx
  BY <1>1
<1>3. \A d \in Chains : \A i \in DOMAIN mempool[d] :
        i \in DOMAIN mempool'[d] /\ mempool'[d][i] = mempool[d][i] /\ (d = c => i < n)
  BY <1>1
<1>4. tx \in {Burn(q), Mint(q)} =>
        /\ \A d \in Chains : \A i \in DOMAIN mempool[d] :
             mempool[d][i] # Burn(q) /\ mempool[d][i] # Mint(q)
        /\ cctp[q] # "minted"
  <2>1. CASE tx = Burn(q)
    BY <2>1, TxKinds DEF MintInv, Unburned, BurnsPending, MintsPending
  <2>2. CASE tx = Mint(q)
    BY <2>2, TxKinds DEF MintInv, Attested, BurnsPending, MintsPending
  <2>3. QED
    BY <2>1, <2>2
<1>5. tx \notin {Burn(q), Mint(q)} => \A r \in Requests : cctp'[r] = cctp[r]
  BY TxKinds
<1>6. (Unburned /\ Attested)'
  BY DEF MintInv, Unburned, Attested
<1>7. BurnsPending'
  BY <1>2, <1>4, TxKinds DEF MintInv, BurnsPending
<1>8. MintsPending'
  BY <1>2, <1>4, TxKinds DEF MintInv, MintsPending
<1>9. Once'
  BY <1>2, <1>4, TxKinds DEF MintInv, Once
<1>10. \A r \in Requests : order[r].chain \in Chains =>
         /\ MintSubmitted(r) => MintSubmitted(r)'
         /\ \A k \in Nat : MintInFront(r, k) => MintInFront(r, k)'
  BY <1>3 DEF MintInFront, MintSubmitted
<1>11. \A r \in Requests : cctp[r] = "minted" => cctp'[r] = "minted"
  BY <1>4, <1>5
<1>12. \A r \in Requests : pc[r] = "transfer" => order[r].chain \in Chains
  BY DEF IInv, OnChain
<1>13. PayoutReady'
  <2> SUFFICES ASSUME NEW r \in Requests, pc'[r] = "transfer", order[r].chain # "sepolia"
               PROVE  cctp'[r] = "minted" \/ MintSubmitted(r)'
    BY DEF PayoutReady
  <2>1. CASE pc[r] = "transfer"
    BY <2>1, <1>10, <1>11, <1>12 DEF MintInv, PayoutReady
  <2>2. CASE pc[r] # "transfer"
    <3>1. r = q /\ tx = Mint(q) /\ c = order[q].chain
      BY <2>2
    <3>2. QED
      BY <3>1, <1>1 DEF MintSubmitted
  <2>3. QED
    BY <2>1, <2>2
<1>14. PayoutsPending'
  <2> SUFFICES ASSUME NEW d \in Chains, NEW i \in DOMAIN mempool'[d], NEW r \in Requests,
                      mempool'[d][i] = Payout(r)
               PROVE  /\ d = order[r].chain
                      /\ d # "sepolia" => cctp'[r] = "minted" \/ MintInFront(r, i)'
    BY DEF PayoutsPending
  <2>1. CASE i \in DOMAIN mempool[d] /\ mempool'[d][i] = mempool[d][i]
    <3>1. /\ d = order[r].chain
          /\ d # "sepolia" => cctp[r] = "minted" \/ MintInFront(r, i)
      BY <2>1 DEF MintInv, PayoutsPending
    <3>2. i \in Nat
      BY <2>1, <1>1 DEF IInv, TypeOK
    <3>3. QED
      BY <3>1, <3>2, <1>10, <1>11
  <2>2. CASE d = c /\ i = n /\ mempool'[d][i] = tx
    <3>1. r = q /\ c = order[q].chain /\ pc[q] = "transfer"
      BY <2>2, TxKinds
    <3>2. c # "sepolia" => cctp[q] = "minted" \/ MintSubmitted(q)
      BY <3>1 DEF MintInv, PayoutReady
    <3>3. MintSubmitted(q) => MintInFront(q, i)'
      BY <2>2, <3>1, <1>3 DEF MintSubmitted, MintInFront
    <3>4. QED
      BY <2>2, <3>1, <3>2, <3>3, <1>11
  <2>3. QED
    BY <1>2, <2>1, <2>2
<1>15. PaidAfterMint'
  BY <1>11 DEF MintInv, PaidAfterMint
<1>16. QED
  BY <1>6, <1>7, <1>8, <1>9, <1>13, <1>14, <1>15 DEF MintInv

\* The oldest transaction of a mempool is mined.
LEMMA MineMintOrder ==
  ASSUME IInv, MintInv, NEW c \in Chains, mempool[c] # << >>, Mined(c), UNCHANGED <<order, pc>>,
         NEW q \in Requests,
         \A r \in Requests : r # q => cctp'[r] = cctp[r] /\ transfer'[r] = transfer[r],
         \/ UNCHANGED <<cctp, transfer>> /\ \A r \in Requests : mempool[c][1] # Mint(r)
         \/ /\ mempool[c][1] = Burn(q) /\ transfer' = transfer
            /\ cctp'[q] \in {"burned", "reverted"}
         \/ mempool[c][1] = Mint(q) /\ cctp'[q] = "minted" /\ transfer' = transfer
         \/ mempool[c][1] = Payout(q) /\ cctp' = cctp
  PROVE  MintInv'
<1> DEFINE n == Len(mempool[c])
<1>1. /\ \A d \in Chains : d # c => mempool'[d] = mempool[d]
      /\ n \in Nat \ {0} /\ Len(mempool'[c]) = n - 1
      /\ DOMAIN mempool[c] = 1 .. n
      /\ DOMAIN mempool'[c] = 1 .. n - 1
      /\ \A i \in DOMAIN mempool'[c] : mempool'[c][i] = mempool[c][i + 1]
  BY MinedAt DEF IInv, TypeOK
<1> HIDE DEF n
<1>2. \A d \in Chains : \A i \in DOMAIN mempool'[d] :
        \E j \in DOMAIN mempool[d] :
          /\ mempool'[d][i] = mempool[d][j]
          /\ d # c => j = i
          /\ d = c => j = i + 1 /\ i \in Nat \ {0}
  <2>1. ASSUME NEW i \in DOMAIN mempool'[c]
        PROVE  i \in Nat \ {0} /\ i + 1 \in DOMAIN mempool[c] /\ mempool'[c][i] = mempool[c][i + 1]
    BY <1>1
  <2>2. QED
    BY <1>1, <2>1
<1>3. mempool[c][1] = Burn(q) =>
        \A d \in Chains : \A i \in DOMAIN mempool'[d] :
          mempool'[d][i] # Burn(q) /\ mempool'[d][i] # Mint(q)
  <2> SUFFICES ASSUME mempool[c][1] = Burn(q), NEW d \in Chains, NEW i \in DOMAIN mempool'[d]
               PROVE  mempool'[d][i] # Burn(q) /\ mempool'[d][i] # Mint(q)
    OBVIOUS
  <2>1. 1 \in DOMAIN mempool[c] /\ cctp[q] = "submitted" /\ c = "sepolia"
    BY <1>1 DEF MintInv, BurnsPending
  <2>2. mempool'[d][i] # Mint(q)
    <3>1. PICK j \in DOMAIN mempool[d] : mempool'[d][i] = mempool[d][j]
      BY <1>2
    <3>2. MintsPending
      BY DEF MintInv
    <3>3. mempool[d][j] # Mint(q)
      BY <2>1, <3>2 DEF MintsPending
    <3>4. QED
      BY <3>1, <3>3
  <2>3. mempool'[d][i] # Burn(q)
    <3> SUFFICES ASSUME mempool'[d][i] = Burn(q) PROVE FALSE
      OBVIOUS
    <3>1. PICK j \in DOMAIN mempool[d] :
            mempool'[d][i] = mempool[d][j] /\ (d = c => j = i + 1 /\ i \in Nat \ {0})
      BY <1>2
    <3>2. mempool[d][j] = Burn(q)
      BY <3>1
    <3>3. BurnsPending /\ Once
      BY DEF MintInv
    <3>4. d = c
      BY <2>1, <3>2, <3>3 DEF BurnsPending
    <3>5. j = 1
      BY <2>1, <3>2, <3>3, <3>4 DEF Once
    <3>6. QED
      BY <3>1, <3>4, <3>5
  <2>4. QED
    BY <2>2, <2>3
<1>4. mempool[c][1] = Mint(q) =>
        \A d \in Chains : \A i \in DOMAIN mempool'[d] :
          mempool'[d][i] # Burn(q) /\ mempool'[d][i] # Mint(q)
  <2> SUFFICES ASSUME mempool[c][1] = Mint(q), NEW d \in Chains, NEW i \in DOMAIN mempool'[d]
               PROVE  mempool'[d][i] # Burn(q) /\ mempool'[d][i] # Mint(q)
    OBVIOUS
  <2>1. 1 \in DOMAIN mempool[c] /\ cctp[q] = "minting" /\ c = order[q].chain
    BY <1>1 DEF MintInv, MintsPending
  <2>2. mempool'[d][i] # Burn(q)
    BY <2>1, <1>2 DEF MintInv, BurnsPending
  <2>3. mempool'[d][i] # Mint(q)
    BY <2>1, <1>2 DEF MintInv, MintsPending, Once
  <2>4. QED
    BY <2>2, <2>3
<1>5. mempool[c][1] = Burn(q) => cctp[q] = "submitted"
  BY <1>1 DEF MintInv, BurnsPending
<1>6. mempool[c][1] = Mint(q) => cctp[q] = "minting"
  BY <1>1 DEF MintInv, MintsPending
<1>7. (Unburned /\ Attested)'
  BY <1>5, <1>6 DEF MintInv, Unburned, Attested
<1>8. BurnsPending'
  BY <1>2, <1>3, <1>4 DEF MintInv, BurnsPending
<1>9. MintsPending'
  BY <1>2, <1>3, <1>4 DEF MintInv, MintsPending
<1>10. Once'
  <2> SUFFICES ASSUME NEW d \in Chains, NEW i \in DOMAIN mempool'[d], NEW j \in DOMAIN mempool'[d],
                      NEW r \in Requests, mempool'[d][i] = mempool'[d][j],
                      mempool'[d][i] \in {Burn(r), Mint(r)}
               PROVE  i = j
    BY DEF Once
  <2>1. CASE d # c
    BY <2>1, <1>2 DEF MintInv, Once
  <2>2. CASE d = c
    <3>1. i + 1 = j + 1
      BY <2>2, <1>2 DEF MintInv, Once
    <3>2. QED
      BY <2>2, <3>1, <1>2
  <2>3. QED
    BY <2>1, <2>2
<1>11. \A r \in Requests : cctp[r] = "minted" => cctp'[r] = "minted"
  BY <1>5, <1>6
\* A mint of r leaves the mempool only by being mined.
<1>12. ASSUME NEW r \in Requests, order[r].chain \in Chains,
              NEW j \in DOMAIN mempool[order[r].chain], mempool[order[r].chain][j] = Mint(r)
       PROVE  \/ cctp'[r] = "minted"
              \/ order[r].chain # c
              \/ order[r].chain = c /\ j - 1 \in DOMAIN mempool'[c] /\ mempool'[c][j - 1] = Mint(r)
  <2>1. CASE order[r].chain = c /\ j = 1
    BY <2>1, <1>12, TxKinds
  <2>2. CASE order[r].chain = c /\ j # 1
    BY <2>2, <1>12, <1>1
  <2>3. QED
    BY <2>1, <2>2
<1>13. \A r \in Requests : pc[r] = "transfer" => order[r].chain \in Chains
  BY DEF IInv, OnChain
<1>14. PayoutReady'
  <2> SUFFICES ASSUME NEW r \in Requests, pc[r] = "transfer", order[r].chain # "sepolia"
               PROVE  cctp'[r] = "minted" \/ MintSubmitted(r)'
    BY DEF PayoutReady
  <2>1. order[r].chain \in Chains /\ (cctp[r] = "minted" \/ MintSubmitted(r))
    BY <1>13 DEF MintInv, PayoutReady
  <2>2. MintSubmitted(r) => cctp'[r] = "minted" \/ MintSubmitted(r)'
    <3> SUFFICES ASSUME NEW j \in DOMAIN mempool[order[r].chain],
                        mempool[order[r].chain][j] = Mint(r)
                 PROVE  cctp'[r] = "minted" \/ MintSubmitted(r)'
      BY DEF MintSubmitted
    <3>1. CASE order[r].chain # c
      BY <2>1, <3>1, <1>1 DEF MintSubmitted
    <3>2. CASE order[r].chain = c
      BY <2>1, <3>2, <1>12 DEF MintSubmitted
    <3>3. QED
      BY <3>1, <3>2
  <2>3. QED
    BY <2>1, <2>2, <1>11
<1>15. PayoutsPending'
  <2> SUFFICES ASSUME NEW d \in Chains, NEW i \in DOMAIN mempool'[d], NEW r \in Requests,
                      mempool'[d][i] = Payout(r)
               PROVE  /\ d = order[r].chain
                      /\ d # "sepolia" => cctp'[r] = "minted" \/ MintInFront(r, i)'
    BY DEF PayoutsPending
  <2>1. CASE d # c
    <3>1. i \in DOMAIN mempool[d] /\ mempool[d][i] = Payout(r) /\ mempool'[d] = mempool[d]
      BY <2>1, <1>1
    <3>2. /\ d = order[r].chain
          /\ d # "sepolia" => cctp[r] = "minted" \/ MintInFront(r, i)
      BY <3>1 DEF MintInv, PayoutsPending
    <3>3. MintInFront(r, i) => MintInFront(r, i)'
      BY <3>1, <3>2 DEF MintInFront
    <3>4. QED
      BY <3>2, <3>3, <1>11
  <2>2. CASE d = c
    <3>1. /\ i + 1 \in DOMAIN mempool[c] /\ mempool[c][i + 1] = Payout(r) /\ i \in Nat
          /\ c = order[r].chain
          /\ c # "sepolia" => cctp[r] = "minted" \/ MintInFront(r, i + 1)
      BY <2>2, <1>2 DEF MintInv, PayoutsPending
    <3>2. ASSUME MintInFront(r, i + 1) PROVE cctp'[r] = "minted" \/ MintInFront(r, i)'
      <4>1. PICK j \in DOMAIN mempool[c] : j < i + 1 /\ mempool[c][j] = Mint(r)
        BY <3>1, <3>2 DEF MintInFront
      <4>2. \/ cctp'[r] = "minted"
            \/ j - 1 \in DOMAIN mempool'[c] /\ mempool'[c][j - 1] = Mint(r)
        BY <4>1, <3>1, <1>12
      <4>3. j - 1 < i
        BY <4>1, <3>1, <1>1
      <4>4. QED
        BY <4>2, <4>3, <3>1 DEF MintInFront
    <3>3. QED
      BY <2>2, <3>1, <3>2, <1>11
  <2>3. QED
    BY <2>1, <2>2
\* A payout at the head of its mempool has no mint in front.
<1>16. PaidAfterMint'
  <2> SUFFICES ASSUME NEW r \in Requests, transfer'[r] = "paid", order[r].chain # "sepolia"
               PROVE  cctp'[r] = "minted"
    BY DEF PaidAfterMint
  <2>1. CASE transfer[r] = "paid"
    BY <2>1, <1>11 DEF MintInv, PaidAfterMint
  <2>2. CASE transfer[r] # "paid"
    <3>1. r = q /\ mempool[c][1] = Payout(q) /\ 1 \in DOMAIN mempool[c]
      BY <2>2, <1>1
    <3>2. order[q].chain = c /\ (cctp[q] = "minted" \/ MintInFront(q, 1))
      BY <3>1 DEF MintInv, PayoutsPending
    <3>3. ~ MintInFront(q, 1)
      BY <3>2, <1>1 DEF MintInFront
    <3>4. QED
      BY <3>1, <3>2, <3>3, <1>11
  <2>3. QED
    BY <2>1, <2>2
<1>17. QED
  BY <1>7, <1>8, <1>9, <1>10, <1>14, <1>15, <1>16 DEF MintInv

LEMMA HandlerMint ==
  ASSUME IInv, MintInv, NEW q \in Requests, Handler(q)
  PROVE  MintInv'
<1>1. /\ pc \in [Requests -> {"idle", "fetch", "burn", "attest", "mint", "transfer", "done"}]
      /\ cctp \in [Requests -> {"none", "submitted", "reverted", "burned",
                                "attested", "minting", "minted"}]
      /\ transfer \in [Requests -> {"none", "submitted", "reverted", "paid"}]
      /\ mempool \in [Chains -> Seq(Tx)]
  BY DEF IInv, TypeOK
<1>2. ASSUME NEW l, pc' = [pc EXCEPT ![q] = l]
      PROVE  pc'[q] = l /\ \A r \in Requests : r # q => pc'[r] = pc[r]
  BY <1>1, <1>2
<1>3. CASE getTransactions(q)
  <2>1. pc[q] = "fetch" /\ UNCHANGED <<order, cctp, transfer, mempool>>
    BY <1>3 DEF getTransactions, chainVars
  <2>2. PICK l : /\ pc' = [pc EXCEPT ![q] = l]
                 /\ l \in {"burn", "done"} \/ (l = "transfer" /\ order[q].chain = "sepolia")
    BY <1>3 DEF getTransactions, EnterSend, EnterBurn, Goto, Answer
  <2>3. QED
    BY <1>2, <2>1, <2>2, QuietMint
<1>4. CASE retrieveAttestation(q)
  <2>1. UNCHANGED <<order, cctp, transfer, mempool>>
    BY <1>4 DEF retrieveAttestation, chainVars
  <2>2. \/ pc' = pc
        \/ pc' = [pc EXCEPT ![q] = "done"]
        \/ pc' = [pc EXCEPT ![q] = "mint"] /\ cctp[q] = "attested"
    BY <1>4 DEF retrieveAttestation, Goto, Answer
  <2>3. QED
    BY <1>2, <2>1, <2>2, QuietMint
<1>5. CASE burnUSDC(q)
  <2>1. /\ pc[q] = "burn" /\ UNCHANGED <<order, transfer>>
        /\ pc' = [pc EXCEPT ![q] = "attest"] \/ pc' = [pc EXCEPT ![q] = "done"]
    BY <1>5 DEF burnUSDC, Goto, Answer
  <2>2. CASE UNCHANGED <<mempool, cctp>> /\ pc' = [pc EXCEPT ![q] = "done"]
    BY <1>2, <2>1, <2>2, QuietMint
  <2>3. CASE Submit("sepolia", Burn(q)) /\ cctp' = [cctp EXCEPT ![q] = "submitted"]
    <3>1. "sepolia" \in Chains
      BY DEF Chains
    <3>2. QED
      BY <1>1, <1>2, <2>1, <2>3, <3>1, TxKinds, SubmitMint
  <2>4. QED
    BY <1>5, <2>2, <2>3 DEF burnUSDC, Answer, Burn
<1>6. CASE mintUSDC(q)
  <2>1. /\ pc[q] = "mint" /\ UNCHANGED <<order, transfer>>
        /\ pc' = [pc EXCEPT ![q] = "transfer"] \/ pc' = [pc EXCEPT ![q] = "done"]
    BY <1>6 DEF mintUSDC, EnterSend, Goto, Answer
  <2>2. order[q].chain \in Chains
    BY <2>1 DEF IInv, OnChain
  <2>3. CASE UNCHANGED <<mempool, cctp>> /\ pc' = [pc EXCEPT ![q] = "done"]
    BY <1>2, <2>1, <2>3, QuietMint
  <2>4. CASE Submit(order[q].chain, Mint(q)) /\ cctp' = [cctp EXCEPT ![q] = "minting"]
    BY <1>1, <1>2, <2>1, <2>2, <2>4, TxKinds, SubmitMint
  <2>5. QED
    BY <1>6, <2>3, <2>4 DEF mintUSDC, Answer, Mint
<1>7. CASE send(q)
  <2>1. /\ pc[q] = "transfer" /\ UNCHANGED <<order, cctp>>
        /\ pc' = [pc EXCEPT ![q] = "done"]
    BY <1>7 DEF send, Answer
  <2>2. order[q].chain \in Chains
    BY <2>1 DEF IInv, OnChain
  <2>3. CASE UNCHANGED <<mempool, transfer>>
    BY <1>2, <2>1, <2>3, QuietMint
  <2>4. CASE Submit(order[q].chain, Payout(q)) /\ transfer' = [transfer EXCEPT ![q] = "submitted"]
    BY <1>1, <1>2, <2>1, <2>2, <2>4, TxKinds, SubmitMint
  <2>5. QED
    BY <1>7, <2>3, <2>4 DEF send, Payout
<1>8. QED
  BY <1>3, <1>4, <1>5, <1>6, <1>7 DEF Handler

\* The operator's approval and its mining concern no request; if there is
\* none at all, MintInv says nothing.
LEMMA ApprovalMint ==
  ASSUME IInv, MintInv, approveUSDC \/ MineApprove
  PROVE  MintInv'
<1>1. CASE Requests = {}
  BY <1>1 DEF MintInv, Unburned, Attested, BurnsPending, MintsPending, Once, PayoutReady,
              PayoutsPending, PaidAfterMint
<1>2. CASE Requests # {}
  <2>1. PICK q \in Requests : TRUE
    BY <1>2
  <2>2. "sepolia" \in Chains /\ mempool \in [Chains -> Seq(Tx)]
    BY DEF Chains, IInv, TypeOK
  <2>3. CASE approveUSDC
    <3> DEFINE tx == [kind |-> "approve"]
    <3>1. tx \in Tx /\ Submit("sepolia", tx) /\ UNCHANGED <<order, pc, cctp, transfer>>
      BY <2>3 DEF Tx, approveUSDC
    <3>2. QED
      BY <2>1, <2>2, <3>1, SubmitMint
  <2>4. CASE MineApprove
    <3>1. /\ mempool["sepolia"] # << >> /\ Mined("sepolia")
          /\ Head(mempool["sepolia"]).kind = "approve"
          /\ UNCHANGED <<order, pc, cctp, transfer>>
      BY <2>4 DEF MineApprove, NextTx
    <3>2. Head(mempool["sepolia"]) = mempool["sepolia"][1]
      BY <2>2, <3>1, MinedRemoves
    <3>3. \A r \in Requests : mempool["sepolia"][1] # Mint(r)
      BY <3>1, <3>2 DEF Mint
    <3>4. QED
      BY <2>1, <2>2, <3>1, <3>3, MineMintOrder
  <2>5. QED
    BY <2>3, <2>4
<1>3. QED
  BY <1>1, <1>2

LEMMA MiningMint ==
  ASSUME IInv, MintInv, NEW c \in Chains,
         \/ c = "sepolia" /\ MineBurn
         \/ \E fee \in 0 .. MaxFee : MineMint(c, fee)
         \/ MineTransfer(c)
  PROVE  MintInv'
<1> DEFINE q == Head(mempool[c]).r
<1>1. /\ TypeOK /\ mempool[c] # << >> /\ Mined(c) /\ UNCHANGED <<order, pc>>
      /\ \E kind \in {"burn", "mint", "transfer"} : NextTx(c, kind)
  BY DEF IInv, MineBurn, MineMint, MineTransfer, NextTx
<1>2. q \in Requests
  BY <1>1, HeadEntitled
<1>3. \/ /\ NextTx(c, "burn") /\ UNCHANGED transfer
         /\ \E v \in {"burned", "reverted"} : cctp' = [cctp EXCEPT ![q] = v]
      \/ NextTx(c, "mint") /\ cctp' = [cctp EXCEPT ![q] = "minted"] /\ UNCHANGED transfer
      \/ /\ NextTx(c, "transfer") /\ UNCHANGED cctp
         /\ \E v \in {"paid", "reverted"} : transfer' = [transfer EXCEPT ![q] = v]
  BY DEF MineBurn, MineMint, MineTransfer
<1>4. \/ /\ mempool[c][1] = Burn(q) /\ UNCHANGED transfer
         /\ \E v \in {"burned", "reverted"} : cctp' = [cctp EXCEPT ![q] = v]
      \/ mempool[c][1] = Mint(q) /\ cctp' = [cctp EXCEPT ![q] = "minted"] /\ UNCHANGED transfer
      \/ /\ mempool[c][1] = Payout(q) /\ UNCHANGED cctp
         /\ \E v \in {"paid", "reverted"} : transfer' = [transfer EXCEPT ![q] = v]
  BY <1>1, <1>3, HeadKinds
<1> HIDE DEF q
<1>5. /\ \A r \in Requests : r # q => cctp'[r] = cctp[r] /\ transfer'[r] = transfer[r]
      /\ \/ /\ mempool[c][1] = Burn(q) /\ transfer' = transfer
            /\ cctp'[q] \in {"burned", "reverted"}
         \/ mempool[c][1] = Mint(q) /\ cctp'[q] = "minted" /\ transfer' = transfer
         \/ mempool[c][1] = Payout(q) /\ cctp' = cctp
  BY <1>1, <1>2, <1>4 DEF TypeOK
<1>6. QED
  BY <1>1, <1>2, <1>5, MineMintOrder

\* The attestation service signs a burn that was mined.
LEMMA AttestMint ==
  ASSUME IInv, MintInv, NEW q \in Requests, Attest(q)
  PROVE  MintInv'
<1>1. /\ cctp[q] = "burned" /\ cctp' = [cctp EXCEPT ![q] = "attested"]
      /\ UNCHANGED <<pc, order, transfer, mempool>>
      /\ cctp'[q] = "attested" /\ \A r \in Requests : r # q => cctp'[r] = cctp[r]
  BY DEF Attest, chainVars, IInv, TypeOK
<1>2. (Unburned /\ Attested)'
  BY <1>1 DEF MintInv, Unburned, Attested
<1>3. (BurnsPending /\ MintsPending /\ Once /\ PaidAfterMint)'
  BY <1>1 DEF MintInv, BurnsPending, MintsPending, Once, PaidAfterMint
<1>4. (PayoutReady /\ PayoutsPending)'
  BY <1>1 DEF MintInv, PayoutReady, PayoutsPending, MintInFront, MintSubmitted
<1>5. QED
  BY <1>2, <1>3, <1>4 DEF MintInv

LEMMA NextMintInv == IInv /\ MintInv /\ [Next]_vars => MintInv'
<1> SUFFICES ASSUME IInv, MintInv, [Next]_vars PROVE MintInv'
  OBVIOUS
<1>1. CASE UNCHANGED vars
  BY <1>1, QuietMint DEF vars
<1>2. CASE \E p \in Accounts \union {NoPayer}, a \in Amounts : BankPayment(p, a)
  BY <1>2, QuietMint DEF BankPayment, chainVars
<1>3. CASE \E r \in Requests, o \in TransactionRequest : BuyCryptoWithFiat(r, o)
  BY <1>3, RequestMint
<1>4. CASE \E r \in Requests : Handler(r)
  BY <1>4, HandlerMint
<1>5. CASE \E r \in Requests : Attest(r)
  BY <1>5, AttestMint
<1>6. CASE approveUSDC
  BY <1>6, ApprovalMint
<1>7. CASE \E c \in Chains : Mine(c)
  BY <1>7, ApprovalMint, MiningMint DEF Mine
<1>8. QED
  BY <1>1, <1>2, <1>3, <1>4, <1>5, <1>6, <1>7 DEF Next

(***************************************************************************)
(* However requests interleave, whatever calls fail and whichever mempools *)
(* lag behind, a payout on another chain than sepolia is mined only after  *)
(* the USDC burned for its request was minted there: mintUSDC and send     *)
(* wait for no receipt, the nonces of the one account keep them in order.  *)
(***************************************************************************)
THEOREM MintBeforePayout == Spec => []PaidAfterMint
<1>1. Spec => [](IInv /\ MintInv)
  BY InitIInv, NextIInv, InitMintInv, NextMintInv, PTL DEF Spec
<1>2. MintInv => PaidAfterMint
  BY DEF MintInv
<1>3. QED
  BY <1>1, <1>2, PTL
-----------------------------------------------------------------------------
(***************************************************************************)
(* Sums of functions on finite sets, by counting: f is laid out as f[i]    *)
(* tokens for each argument i, and the sum of f is their number.           *)
(***************************************************************************)
\* The tokens of the arguments in T, and how many there are.
Tokens(f, T) == UNION {{i} \X (1 .. f[i]) : i \in T}
Weight(f, T) == Cardinality(Tokens(f, T))

\* A finite number of arguments has a finite number of tokens.
LEMMA TokensFinite ==
  ASSUME NEW S, IsFiniteSet(S), NEW f \in [S -> Nat]
  PROVE  IsFiniteSet(Tokens(f, S))
  <1> DEFINE part == [i \in S |-> {i} \X (1 .. f[i])]
             parts == {{i} \X (1 .. f[i]) : i \in S}
  <1>1. part \in Surjection(S, parts)
    BY DEF Surjection
  <1>2. IsFiniteSet(parts)
    <2> HIDE DEF part, parts
    <2> QED BY <1>1, FS_Surjection
  <1>3. \A P \in parts : IsFiniteSet(P)
    <2>1. ASSUME NEW i \in S PROVE IsFiniteSet({i} \X (1 .. f[i]))
      <3>1. IsFiniteSet({i})
        BY FS_Singleton
      <3>2. IsFiniteSet(1 .. f[i])
        BY FS_Interval
      <3> QED BY <3>1, <3>2, FS_Product
    <2> QED BY <2>1
  <1>4. IsFiniteSet(UNION parts)
    <2> HIDE DEF parts
    <2> QED BY <1>2, <1>3, FS_UNION
  <1> QED BY <1>4 DEF Tokens

\* The tokens of one argument counted apart.
LEMMA WeightAdds ==
  ASSUME NEW S, IsFiniteSet(S), NEW f \in [S -> Nat], NEW x \in S
  PROVE  /\ Weight(f, S) \in Nat
         /\ Weight(f, S) = f[x] + Weight(f, S \ {x})
  <1> DEFINE T == S \ {x}
             g == [i \in T |-> f[i]]
             A == {x} \X (1 .. f[x])
             B == Tokens(f, T)
  <1>1. IsFiniteSet(T)
    BY FS_RemoveElement
  <1>2. B = Tokens(g, T) /\ g \in [T -> Nat]
    BY DEF Tokens
  <1>3. IsFiniteSet(B)
    <2> HIDE DEF g, T, B
    <2> QED BY <1>1, <1>2, TokensFinite
  <1>4. f[x] \in Nat
    OBVIOUS
  <1>5. IsFiniteSet(A) /\ Cardinality(A) = f[x]
    <2>1. IsFiniteSet({x}) /\ Cardinality({x}) = 1
      BY FS_Singleton
    <2>2. IsFiniteSet(1 .. f[x]) /\ Cardinality(1 .. f[x]) = f[x]
      BY <1>4, FS_Interval
    <2> DEFINE a == {x}
               b == 1 .. f[x]
    <2>3. IsFiniteSet(a \X b) /\ Cardinality(a \X b) = Cardinality(a) * Cardinality(b)
      <3> HIDE DEF a, b
      <3> QED BY <2>1, <2>2, FS_Product DEF a, b
    <2>4. Cardinality(a) * Cardinality(b) = f[x]
      BY <1>4, <2>1, <2>2
    <2> QED BY <2>3, <2>4
  <1>6. A \cap B = {}
    BY DEF Tokens
  <1>7. Tokens(f, S) = A \cup B
    BY DEF Tokens
  <1>8. Cardinality(A \cup B) = Cardinality(A) + Cardinality(B) - Cardinality(A \cap B)
    <2> HIDE DEF A, B
    <2> QED BY <1>3, <1>5, FS_Union
  <1>9. Cardinality(A \cap B) = 0
    BY <1>6, FS_EmptySet
  <1>10. Cardinality(B) \in Nat
    BY <1>3, FS_CardinalityType
  <1> HIDE DEF A, B
  <1> QED BY <1>4, <1>5, <1>7, <1>8, <1>9, <1>10 DEF Weight, B

\* No argument, no token.
LEMMA WeightEmpty == \A f : Weight(f, {}) = 0
  BY FS_EmptySet DEF Weight, Tokens

\* A non-empty set of numbers has a least one.
LEMMA LeastNumber ==
  ASSUME NEW T, T \subseteq Nat, T # {}
  PROVE  \E m \in T : \A y \in T : m <= y
<1>1. \A x, y \in Nat : x < y => <<x, y>> \in OpToRel(<, Nat)
  BY Zenon DEF OpToRel
<1>2. ASSUME NEW R, \A x, y \in Nat : x < y => <<x, y>> \in R, IsWellFoundedOn(R, Nat)
      PROVE  \E m \in T : \A y \in T : m <= y
  <2>0. IsWellFoundedOn(R, Nat) /\ T \subseteq Nat /\ T # {}
    BY <1>2
  <2>1. PICK m \in T : \A y \in T : ~(<<y, m>> \in R)
    <3> HIDE <1>2
    <3> QED BY <2>0, WFMin, Zenon
  <2>2. ASSUME NEW y \in T PROVE m <= y
    <3>1. m \in Nat /\ y \in Nat
      OBVIOUS
    <3>2. ~(<<y, m>> \in R)
      BY <2>1
    <3>3. ~(y < m)
      BY <1>2, <3>1, <3>2
    <3> QED BY <3>1, <3>3
  <2> QED BY <2>2
<1> QED BY <1>1, <1>2, NatLessThanWellFounded, Zenon

\* The fold that SumFunction is counts the tokens.  It is a function the fold
\* chooses among those that solve its equation; counting solves it, and two
\* solutions agree: they would differ first on some smallest set.
LEMMA SumIsWeight ==
  ASSUME NEW S, IsFiniteSet(S), NEW f \in [S -> Nat]
  PROVE  SumFunction(f) = Weight(f, S)
  <1> DEFINE pick(s) == CHOOSE x \in s : TRUE
             Step(h) == [s \in SUBSET S |-> IF s = {} THEN 0 ELSE f[pick(s)] + h[s \ {pick(s)}]]
             w == [s \in SUBSET S |-> Weight(f, s)]
             iter == CHOOSE h : h = Step(h)
  <1>1. SumFunction(f) = iter[S]
    BY DEF SumFunction, SumFunctionOnSet, FoldFunctionOnSet, MapThenFoldSet
  <1>2. ASSUME NEW s \in SUBSET S, s # {}
        PROVE  /\ pick(s) \in s /\ s \ {pick(s)} \in SUBSET S
               /\ IsFiniteSet(s) /\ Cardinality(s) \in Nat
               /\ Cardinality(s \ {pick(s)}) \in Nat /\ Cardinality(s \ {pick(s)}) < Cardinality(s)
               /\ Weight(f, s) = f[pick(s)] + Weight(f, s \ {pick(s)})
    <2>1. pick(s) \in s
      BY <1>2
    <2> HIDE DEF pick
    <2>2. IsFiniteSet(s)
      BY FS_Subset
    <2>3. Cardinality(s) \in Nat /\ Cardinality(s \ {pick(s)}) = Cardinality(s) - 1 /\ IsFiniteSet(s \ {pick(s)})
      BY <2>1, <2>2, FS_RemoveElement, FS_CardinalityType
    <2>4. Cardinality(s \ {pick(s)}) \in Nat
      BY <2>3, FS_CardinalityType
    <2> DEFINE g == [i \in s |-> f[i]]
    <2>5. g \in [s -> Nat]
      OBVIOUS
    <2>6. Weight(g, s) = g[pick(s)] + Weight(g, s \ {pick(s)})
      <3> HIDE DEF g
      <3> QED BY <2>1, <2>2, <2>5, WeightAdds
    <2>7. Weight(g, s) = Weight(f, s) /\ Weight(g, s \ {pick(s)}) = Weight(f, s \ {pick(s)})
      BY DEF Weight, Tokens
    <2> QED BY <2>1, <2>2, <2>3, <2>4, <2>6, <2>7
  <1> HIDE DEF pick
  <1>3. w = Step(w)
    <2>1. ASSUME NEW s \in SUBSET S
          PROVE  w[s] = IF s = {} THEN 0 ELSE f[pick(s)] + w[s \ {pick(s)}]
      BY <1>2, WeightEmpty
    <2> HIDE DEF w
    <2>2. w = [s \in SUBSET S |-> w[s]]
      BY DEF w
    <2> QED BY <2>1, <2>2
  <1>4. iter = Step(iter)
    <2> HIDE DEF Step, w
    <2> QED BY <1>3
  <1> HIDE DEF iter
  <1> DEFINE bad == {n \in Nat : \E s \in SUBSET S : Cardinality(s) = n /\ iter[s] # w[s]}
  <1>5. bad = {}
    <2> SUFFICES ASSUME bad # {} PROVE FALSE
      OBVIOUS
    <2>1. PICK n \in bad : \A m \in bad : n <= m
      <3>1. bad \subseteq Nat
        OBVIOUS
      <3> HIDE DEF bad
      <3> QED BY <3>1, LeastNumber
    <2>2. PICK s \in SUBSET S : Cardinality(s) = n /\ iter[s] # w[s]
      OBVIOUS
    <2>3. s # {}
      BY <1>3, <1>4, <2>2
    <2> DEFINE t == s \ {pick(s)}
    <2>4. t \in SUBSET S /\ Cardinality(t) \in Nat /\ Cardinality(t) < n
      BY <1>2, <2>2, <2>3
    <2>5. Cardinality(t) \notin bad
      <3>1. n \in Nat
        OBVIOUS
      <3> DEFINE k == Cardinality(t)
      <3>2. k \in Nat /\ k < n
        BY <2>4
      <3>3. \A m \in bad : n <= m
        BY <2>1
      <3> HIDE DEF bad, k
      <3>4. k \notin bad
        BY <3>1, <3>2, <3>3
      <3> QED BY <3>4 DEF k
    <2>6. iter[t] = w[t]
      BY <2>4, <2>5
    <2>7. iter[s] = f[pick(s)] + iter[t] /\ w[s] = f[pick(s)] + w[t]
      BY <1>3, <1>4, <2>3
    <2> QED BY <2>2, <2>6, <2>7
  <1>6. iter[S] = w[S]
    BY <1>5, FS_CardinalityType
  <1> QED BY <1>1, <1>6

\* The value of one argument counted apart.
LEMMA SumSplit ==
  ASSUME NEW S, IsFiniteSet(S), NEW f \in [S -> Nat], NEW x \in S
  PROVE  /\ SumFunction(f) \in Nat
         /\ SumFunction([y \in S \ {x} |-> f[y]]) \in Nat
         /\ SumFunction(f) = f[x] + SumFunction([y \in S \ {x} |-> f[y]])
<1> DEFINE T == S \ {x}
           g == [y \in T |-> f[y]]
<1>1. IsFiniteSet(T)
  BY FS_RemoveElement
<1>2. g \in [T -> Nat] /\ Weight(g, T) = Weight(f, T)
  BY DEF Weight, Tokens
<1>3. Weight(f, S) \in Nat /\ Weight(f, S) = f[x] + Weight(f, T)
  BY WeightAdds
<1>4. SumFunction(f) = Weight(f, S)
  BY SumIsWeight
<1>5. SumFunction(g) = Weight(g, T) /\ Weight(g, T) \in Nat
  <2>1. IsFiniteSet(Tokens(g, T))
    <3> HIDE DEF g, T
    <3>1. QED
      BY <1>1, <1>2, TokensFinite
  <2>2. Weight(g, T) \in Nat
    BY <2>1, FS_CardinalityType DEF Weight
  <2> HIDE DEF g, T
  <2>3. QED
    BY <1>1, <1>2, <2>2, SumIsWeight
<1>6. QED
  BY <1>2, <1>3, <1>4, <1>5

\* A function that changes at one argument.
LEMMA SumChange ==
  ASSUME NEW S, IsFiniteSet(S), NEW f \in [S -> Nat], NEW g \in [S -> Nat], NEW x \in S,
         \A y \in S : y # x => g[y] = f[y]
  PROVE  /\ SumFunction(f) \in Nat /\ SumFunction(g) \in Nat
         /\ SumFunction(g) + f[x] = SumFunction(f) + g[x]
<1>1. [y \in S \ {x} |-> f[y]] = [y \in S \ {x} |-> g[y]]
  OBVIOUS
<1> DEFINE rest == SumFunction([y \in S \ {x} |-> f[y]])
<1>2. SumFunction(f) \in Nat /\ rest \in Nat /\ SumFunction(f) = f[x] + rest
  BY SumSplit
<1>3. SumFunction(g) \in Nat /\ SumFunction(g) = g[x] + rest
  BY <1>1, SumSplit
<1>4. f[x] \in Nat /\ g[x] \in Nat
  OBVIOUS
<1> HIDE DEF rest
<1>5. QED
  BY <1>2, <1>3, <1>4
-----------------------------------------------------------------------------
(***************************************************************************)
(* Conservation.  What keeps the sums right is that a payout is sent once  *)
(* and mined once, and that only finitely many requests have begun: sums   *)
(* over infinitely many would say nothing.                                 *)
(***************************************************************************)
Begun == {r \in Requests : pc[r] # "idle"}
\* Only a handler that is done has sent its payout.
Unpaid == \A r \in Requests : pc[r] # "done" => transfer[r] = "none"
\* A payout in a mempool is there once and has not been mined before.
PayoutsOnce ==
  \A c \in Chains : \A i \in DOMAIN mempool[c] : \A r \in Requests :
    mempool[c][i] = Payout(r) =>
      /\ transfer[r] = "submitted"
      /\ \A j \in DOMAIN mempool[c] : mempool[c][j] = Payout(r) => j = i

PayInv == IsFiniteSet(Begun) /\ Unpaid /\ PayoutsOnce

\* All that holds before the sums are looked at.
Ready == IInv /\ MintInv /\ PayInv

LEMMA InitPayInv == Init => PayInv
<1> SUFFICES ASSUME Init PROVE PayInv
  OBVIOUS
<1>1. Begun = {} /\ Unpaid /\ PayoutsOnce
  BY DEF Init, Begun, Unpaid, PayoutsOnce
<1>2. QED
  BY <1>1, FS_EmptySet DEF PayInv

\* A step that adds no request, sends no payout and mines none.
LEMMA QuietPay ==
  ASSUME Ready, UNCHANGED transfer,
         \A r \in Requests : pc'[r] # "idle" <=> pc[r] # "idle",
         \A r \in Requests : pc[r] = "done" => pc'[r] = "done",
         \A c \in Chains : \A i \in DOMAIN mempool'[c] : \A r \in Requests :
           mempool'[c][i] = Payout(r) => i \in DOMAIN mempool[c] /\ mempool[c][i] = Payout(r)
  PROVE  PayInv'
<1>1. Begun' = Begun
  BY DEF Begun
<1>2. Unpaid'
  BY DEF Ready, PayInv, Unpaid
<1>3. PayoutsOnce'
  BY DEF Ready, PayInv, PayoutsOnce
<1>4. QED
  BY <1>1, <1>2, <1>3 DEF Ready, PayInv

LEMMA RequestPay ==
  ASSUME Ready, NEW q \in Requests, NEW o \in TransactionRequest, BuyCryptoWithFiat(q, o)
  PROVE  PayInv'
<1>1. /\ pc[q] = "idle" /\ pc' = [pc EXCEPT ![q] = "fetch"]
      /\ UNCHANGED <<transfer, mempool>>
      /\ pc \in [Requests -> {"idle", "fetch", "burn", "attest", "mint", "transfer", "done"}]
      /\ transfer[q] = "none"
  BY DEF BuyCryptoWithFiat, Goto, chainVars, Ready, IInv, TypeOK, Fresh
<1>2. Begun' = Begun \union {q}
  BY <1>1 DEF Begun
<1>3. IsFiniteSet(Begun')
  BY <1>2, FS_AddElement DEF Ready, PayInv
<1>4. Unpaid'
  BY <1>1 DEF Ready, PayInv, Unpaid
<1>5. PayoutsOnce'
  BY <1>1 DEF Ready, PayInv, PayoutsOnce
<1>6. QED
  BY <1>3, <1>4, <1>5 DEF PayInv

\* send submits the payout, the first one of its request.
LEMMA SendPay ==
  ASSUME Ready, NEW q \in Requests, Submit(order[q].chain, Payout(q)), pc[q] = "transfer",
         pc' = [pc EXCEPT ![q] = "done"],
         transfer' = [transfer EXCEPT ![q] = "submitted"]
  PROVE  PayInv'
<1> DEFINE c == order[q].chain
           n == Len(mempool[c]) + 1
<1>1. c \in Chains /\ Payout(q) \in Tx /\ mempool \in [Chains -> Seq(Tx)]
  BY TxKinds DEF Ready, IInv, OnChain, TypeOK
<1> HIDE DEF c
<1>2. /\ \A d \in Chains : d # c => mempool'[d] = mempool[d]
      /\ n \in Nat \ {0}
      /\ DOMAIN mempool[c] = 1 .. n - 1
      /\ DOMAIN mempool'[c] = 1 .. n
      /\ mempool'[c][n] = Payout(q)
      /\ \A i \in DOMAIN mempool[c] : mempool'[c][i] = mempool[c][i]
  BY <1>1, SubmitAt DEF c
<1> HIDE DEF n
<1>3. /\ pc'[q] = "done" /\ transfer'[q] = "submitted" /\ transfer[q] = "none"
      /\ \A r \in Requests : r # q => transfer'[r] = transfer[r] /\ pc'[r] = pc[r]
  BY DEF Ready, IInv, TypeOK, PayInv, Unpaid
<1>4. Begun' = Begun
  BY <1>3 DEF Begun
<1>5. Unpaid'
  BY <1>3 DEF Ready, PayInv, Unpaid
<1>6. \A d \in Chains : \A i \in DOMAIN mempool[d] : mempool[d][i] # Payout(q)
  BY <1>3 DEF Ready, PayInv, PayoutsOnce
<1>7. \A d \in Chains : \A i \in DOMAIN mempool'[d] : \A r \in Requests :
        mempool'[d][i] = Payout(r) =>
          \/ i \in DOMAIN mempool[d] /\ mempool[d][i] = Payout(r) /\ r # q
          \/ d = c /\ i = n /\ r = q
  BY <1>2, <1>6, TxKinds
<1>8. PayoutsOnce'
  BY <1>2, <1>3, <1>7 DEF Ready, PayInv, PayoutsOnce
<1>9. QED
  BY <1>4, <1>5, <1>8 DEF Ready, PayInv

\* The oldest transaction of a mempool is mined; if it is a payout, it was the
\* only one of its request.
LEMMA MinedPay ==
  ASSUME Ready, NEW c \in Chains, mempool[c] # << >>, Mined(c), UNCHANGED <<pc, order>>,
         \/ UNCHANGED transfer /\ \A r \in Requests : mempool[c][1] # Payout(r)
         \/ \E q \in Requests, v \in {"paid", "reverted"} :
              mempool[c][1] = Payout(q) /\ transfer' = [transfer EXCEPT ![q] = v]
  PROVE  PayInv'
<1> DEFINE n == Len(mempool[c])
<1>1. /\ \A d \in Chains : d # c => mempool'[d] = mempool[d]
      /\ n \in Nat \ {0} /\ DOMAIN mempool[c] = 1 .. n /\ DOMAIN mempool'[c] = 1 .. n - 1
      /\ \A i \in DOMAIN mempool'[c] : mempool'[c][i] = mempool[c][i + 1]
  BY MinedAt DEF Ready, IInv, TypeOK
<1> HIDE DEF n
<1>2. \A r \in Requests : mempool[c][1] = Payout(r) \/ transfer'[r] = transfer[r]
  BY DEF Ready, IInv, TypeOK
<1>3. \A r \in Requests : mempool[c][1] = Payout(r) => transfer[r] = "submitted"
  BY <1>1 DEF Ready, PayInv, PayoutsOnce
<1>4. Begun' = Begun
  BY DEF Begun
<1>5. Unpaid'
  BY <1>2, <1>3 DEF Ready, PayInv, Unpaid
<1>6. ASSUME NEW d \in Chains, NEW i \in DOMAIN mempool'[d], NEW r \in Requests,
             mempool'[d][i] = Payout(r)
      PROVE  /\ transfer'[r] = "submitted"
             /\ \A j \in DOMAIN mempool'[d] : mempool'[d][j] = Payout(r) => j = i
  <2>1. MintInv /\ PayInv
    BY DEF Ready
  <2>2. CASE d # c
    <3>1. i \in DOMAIN mempool[d] /\ mempool[d][i] = Payout(r) /\ mempool'[d] = mempool[d]
      BY <1>1, <1>6, <2>2
    <3>2. /\ transfer[r] = "submitted"
          /\ \A j \in DOMAIN mempool[d] : mempool[d][j] = Payout(r) => j = i
      BY <2>1, <3>1 DEF PayInv, PayoutsOnce
    <3>3. d = order[r].chain
      BY <2>1, <3>1 DEF MintInv, PayoutsPending
    <3>4. mempool[c][1] # Payout(r)
      BY <1>1, <2>1, <2>2, <3>3 DEF MintInv, PayoutsPending
    <3>5. QED
      BY <1>2, <3>1, <3>2, <3>4
  <2>3. CASE d = c
    <3>1. /\ i \in Nat \ {0} /\ i + 1 \in DOMAIN mempool[c] /\ mempool[c][i + 1] = Payout(r)
          /\ 1 \in DOMAIN mempool[c]
      BY <1>1, <1>6, <2>3
    <3>2. /\ transfer[r] = "submitted"
          /\ \A j \in DOMAIN mempool[c] : mempool[c][j] = Payout(r) => j = i + 1
      BY <2>1, <3>1 DEF PayInv, PayoutsOnce
    <3>3. mempool[c][1] # Payout(r)
      BY <3>1, <3>2
    <3>4. ASSUME NEW j \in DOMAIN mempool'[c], mempool'[c][j] = Payout(r) PROVE j = i
      <4>1. j \in Nat /\ j + 1 \in DOMAIN mempool[c] /\ mempool[c][j + 1] = Payout(r)
        BY <1>1, <3>4
      <4>2. QED
        BY <3>1, <3>2, <4>1
    <3>5. QED
      BY <1>2, <2>3, <3>2, <3>3, <3>4
  <2>4. QED
    BY <2>2, <2>3
<1>7. PayoutsOnce'
  BY <1>6 DEF PayoutsOnce
<1>8. QED
  BY <1>4, <1>5, <1>7 DEF Ready, PayInv

\* The handlers, the operator and the chains keep PayInv.
LEMMA NextPayInv ==
  ASSUME Ready, [Next]_vars
  PROVE  PayInv'
<1>1. /\ pc \in [Requests -> {"idle", "fetch", "burn", "attest", "mint", "transfer", "done"}]
      /\ mempool \in [Chains -> Seq(Tx)] /\ TypeOK /\ IInv
  BY DEF Ready, IInv, TypeOK
<1>2. CASE UNCHANGED vars
  BY <1>2, QuietPay DEF vars
<1>3. CASE \E p \in Accounts \union {NoPayer}, a \in Amounts : BankPayment(p, a)
  BY <1>3, QuietPay DEF BankPayment, chainVars
<1>4. CASE \E r \in Requests, o \in TransactionRequest : BuyCryptoWithFiat(r, o)
  BY <1>4, RequestPay
<1>5. ASSUME NEW q \in Requests, Handler(q) PROVE PayInv'
  <2>1. ASSUME NEW l, l # "idle", pc[q] \notin {"idle", "done"}, pc' = [pc EXCEPT ![q] = l]
        PROVE  /\ \A r \in Requests : pc'[r] # "idle" <=> pc[r] # "idle"
               /\ \A r \in Requests : pc[r] = "done" => pc'[r] = "done"
    BY <1>1, <2>1
  <2>2. CASE getTransactions(q)
    <3>1. UNCHANGED <<transfer, mempool>> /\ pc[q] = "fetch"
      BY <2>2 DEF getTransactions, chainVars
    <3>2. PICK l : pc' = [pc EXCEPT ![q] = l] /\ l # "idle"
      BY <2>2 DEF getTransactions, EnterSend, EnterBurn, Goto, Answer
    <3>3. QED
      BY <2>1, <3>1, <3>2, QuietPay
  <2>3. CASE retrieveAttestation(q)
    <3>1. UNCHANGED <<transfer, mempool>> /\ pc[q] = "attest"
      BY <2>3 DEF retrieveAttestation, chainVars
    <3>2. pc' = pc \/ \E l : pc' = [pc EXCEPT ![q] = l] /\ l # "idle"
      BY <2>3 DEF retrieveAttestation, Goto, Answer
    <3>3. QED
      BY <2>1, <3>1, <3>2, QuietPay
  <2>4. CASE burnUSDC(q) \/ mintUSDC(q)
    <3>1. /\ UNCHANGED <<transfer, order>> /\ pc[q] \in {"burn", "mint"}
          /\ order[q].chain \in Chains /\ "sepolia" \in Chains
      BY <2>4, HandlerEntitled DEF burnUSDC, mintUSDC, Ready, Chains
    <3>2. PICK l : pc' = [pc EXCEPT ![q] = l] /\ l # "idle"
      BY <2>4 DEF burnUSDC, mintUSDC, EnterSend, Goto, Answer
    <3>3. \/ UNCHANGED mempool
          \/ Submit("sepolia", Burn(q)) \/ Submit(order[q].chain, Mint(q))
      BY <2>4 DEF burnUSDC, mintUSDC, Burn, Mint
    <3>4. \A c \in Chains : \A i \in DOMAIN mempool'[c] : \A r \in Requests :
            mempool'[c][i] = Payout(r) => i \in DOMAIN mempool[c] /\ mempool[c][i] = Payout(r)
      <4>1. ASSUME NEW c \in Chains, NEW tx \in Tx, Submit(c, tx), \A r \in Requests : tx # Payout(r)
            PROVE  \A d \in Chains : \A i \in DOMAIN mempool'[d] : \A r \in Requests :
                     mempool'[d][i] = Payout(r) =>
                       i \in DOMAIN mempool[d] /\ mempool[d][i] = Payout(r)
        BY <1>1, <4>1, SubmitAdds
      <4>2. CASE UNCHANGED mempool
        BY <4>2
      <4>3. CASE Submit("sepolia", Burn(q))
        BY <3>1, <4>1, <4>3, TxKinds
      <4>4. CASE Submit(order[q].chain, Mint(q))
        BY <3>1, <4>1, <4>4, TxKinds
      <4>5. QED
        BY <3>3, <4>2, <4>3, <4>4
    <3>5. QED
      BY <2>1, <3>1, <3>2, <3>4, QuietPay
  <2>5. CASE send(q)
    <3>1. pc[q] = "transfer" /\ pc' = [pc EXCEPT ![q] = "done"]
      BY <2>5 DEF send, Answer
    <3>2. CASE UNCHANGED <<mempool, transfer>>
      BY <2>1, <3>1, <3>2, QuietPay
    <3>3. CASE Submit(order[q].chain, Payout(q)) /\ transfer' = [transfer EXCEPT ![q] = "submitted"]
      BY <3>1, <3>3, SendPay
    <3>4. QED
      BY <2>5, <3>2, <3>3 DEF send, Payout
  <2>6. QED
    BY <1>5, <2>2, <2>3, <2>4, <2>5 DEF Handler
<1>6. CASE \E r \in Requests : Attest(r)
  BY <1>6, QuietPay DEF Attest, chainVars
<1>7. CASE approveUSDC
  <2> DEFINE tx == [kind |-> "approve"]
  <2>1. /\ tx \in Tx /\ Submit("sepolia", tx) /\ UNCHANGED <<order, pc, cctp, transfer>>
        /\ "sepolia" \in Chains
    BY <1>7 DEF Tx, approveUSDC, Chains
  <2>2. \A r \in Requests : tx # Payout(r)
    BY TxKinds
  <2> HIDE DEF tx
  <2>3. \A d \in Chains : \A i \in DOMAIN mempool'[d] : \A r \in Requests :
          mempool'[d][i] = Payout(r) => i \in DOMAIN mempool[d] /\ mempool[d][i] = Payout(r)
    BY <1>1, <2>1, <2>2, SubmitAdds
  <2>4. QED
    BY <2>1, <2>3, QuietPay
<1>8. ASSUME NEW c \in Chains, Mine(c) PROVE PayInv'
  <2>1. /\ mempool[c] # << >> /\ Mined(c) /\ UNCHANGED <<order, pc>>
        /\ \E kind \in {"approve", "burn", "mint", "transfer"} : NextTx(c, kind)
    BY <1>8 DEF Mine, MineApprove, MineBurn, MineMint, MineTransfer, NextTx
  <2>2. 1 \in DOMAIN mempool[c] /\ Head(mempool[c]) = mempool[c][1]
    BY <1>1, <2>1, MinedRemoves
  <2>3. CASE NextTx(c, "transfer")
    <3>1. Head(mempool[c]).r \in Requests /\ mempool[c][1] = Payout(Head(mempool[c]).r)
      BY <1>1, <2>1, <2>3, HeadEntitled, HeadKinds
    <3>2. MineTransfer(c)
      BY <1>8, <2>3 DEF Mine, MineApprove, MineBurn, MineMint, NextTx
    <3>3. \E v \in {"paid", "reverted"} : transfer' = [transfer EXCEPT ![Head(mempool[c]).r] = v]
      BY <3>2 DEF MineTransfer
    <3>4. QED
      BY <2>1, <3>1, <3>3, MinedPay
  <2>4. CASE ~ NextTx(c, "transfer")
    <3>1. UNCHANGED transfer
      BY <1>8, <2>4 DEF Mine, MineApprove, MineBurn, MineMint, MineTransfer
    <3>2. \A r \in Requests : mempool[c][1] # Payout(r)
      BY <2>1, <2>2, <2>4 DEF NextTx, Payout
    <3>3. QED
      BY <2>1, <3>1, <3>2, MinedPay
  <2>5. QED
    BY <2>3, <2>4
<1>9. QED
  BY <1>2, <1>3, <1>4, <1>5, <1>6, <1>7, <1>8 DEF Next

\* A sum of natural numbers is one.
LEMMA SumNat ==
  ASSUME NEW S, IsFiniteSet(S), NEW f \in [S -> Nat]
  PROVE  SumFunction(f) \in Nat
<1>1. IsFiniteSet(Tokens(f, S))
  BY TokensFinite
<1>2. Weight(f, S) \in Nat
  BY <1>1, FS_CardinalityType DEF Weight
<1>3. QED
  BY <1>2, SumIsWeight

\* One more request adds its amount.
LEMMA ValueJoin ==
  ASSUME NEW S \in SUBSET Requests, IsFiniteSet(S), NEW r \in Requests, r \notin S,
         \A s \in S \union {r} : Units(s) \in Nat
  PROVE  /\ Value(S) \in Nat /\ Value(S \union {r}) \in Nat
         /\ Value(S \union {r}) = Value(S) + Units(r)
<1> DEFINE T == S \union {r}
           f == [s \in T |-> Units(s)]
<1>1. IsFiniteSet(T) /\ r \in T /\ T \ {r} = S
  BY FS_AddElement
<1>2. f \in [T -> Nat] /\ f[r] = Units(r) /\ [s \in S |-> f[s]] = [s \in S |-> Units(s)]
  OBVIOUS
<1> HIDE DEF f, T
<1>3. /\ SumFunction(f) \in Nat /\ SumFunction([s \in T \ {r} |-> f[s]]) \in Nat
      /\ SumFunction(f) = f[r] + SumFunction([s \in T \ {r} |-> f[s]])
  BY <1>1, <1>2, SumSplit
<1>4. Value(S) = SumFunction([s \in T \ {r} |-> f[s]]) /\ Value(T) = SumFunction(f)
  BY <1>1, <1>2 DEF Value, f
<1>5. Units(r) \in Nat
  OBVIOUS
<1>6. QED
  BY <1>2, <1>3, <1>4, <1>5 DEF T

LEMMA ChainsFinite == IsFiniteSet(Chains)
<1>1. IsFiniteSet({}) /\ IsFiniteSet({"sepolia"})
  BY FS_EmptySet, FS_Singleton
<1>2. IsFiniteSet({"sepolia"} \union {"avalanche"})
  BY <1>1, FS_AddElement
<1>3. IsFiniteSet(({"sepolia"} \union {"avalanche"}) \union {"arbitrum"})
  BY <1>2, FS_AddElement
<1>4. IsFiniteSet((({"sepolia"} \union {"avalanche"}) \union {"arbitrum"}) \union {"base"})
  BY <1>3, FS_AddElement
<1>5. IsFiniteSet(((({"sepolia"} \union {"avalanche"}) \union {"arbitrum"}) \union {"base"})
                    \union {"linea"})
  BY <1>4, FS_AddElement
<1>6. Chains = ((({"sepolia"} \union {"avalanche"}) \union {"arbitrum"}) \union {"base"})
                  \union {"linea"}
  BY DEF Chains
<1>7. QED
  BY <1>5, <1>6

\* The requests the sums range over are finite in number and have an amount.
LEMMA SumsMeanIt ==
  ASSUME Ready
  PROVE  /\ IsFiniteSet(InFlight) /\ IsFiniteSet(Paid)
         /\ InFlight \in SUBSET Requests /\ Paid \in SUBSET Requests
         /\ \A r \in InFlight \union Paid : pc[r] # "idle" /\ Units(r) \in Nat
         /\ SumFunction(balance) \in Nat /\ Value(InFlight) \in Nat /\ Value(Paid) \in Nat
         /\ fees \in Nat
<1>1. \A r \in InFlight \union Paid : pc[r] # "idle" /\ r \in Requests
  BY DEF InFlight, Paid, Ready, IInv, Fresh
<1>2. \A r \in InFlight \union Paid : Units(r) \in Nat
  BY <1>1, UnitsAtLeastFee DEF Ready, IInv, Ordered
<1>3. IsFiniteSet(InFlight) /\ IsFiniteSet(Paid)
  <2>1. InFlight \subseteq Begun /\ Paid \subseteq Begun /\ IsFiniteSet(Begun)
    BY <1>1 DEF Begun, Ready, PayInv
  <2>2. QED
    BY <2>1, FS_Subset
<1>4. Value(InFlight) \in Nat /\ Value(Paid) \in Nat
  BY <1>2, <1>3, SumNat DEF Value
<1>5. SumFunction(balance) \in Nat /\ fees \in Nat
  BY ChainsFinite, SumNat DEF Ready, IInv, TypeOK
<1>6. QED
  BY <1>1, <1>2, <1>3, <1>4, <1>5

\* A chain's balance changes.
LEMMA BalanceChange ==
  ASSUME Ready, NEW c \in Chains, NEW v \in Nat, balance' = [balance EXCEPT ![c] = v]
  PROVE  /\ SumFunction(balance) \in Nat /\ SumFunction(balance') \in Nat
         /\ SumFunction(balance') + balance[c] = SumFunction(balance) + v
<1>1. balance \in [Chains -> Nat] /\ balance' \in [Chains -> Nat] /\ balance'[c] = v
      /\ \A d \in Chains : d # c => balance'[d] = balance[d]
  BY DEF Ready, IInv, TypeOK
<1>2. ASSUME NEW f \in [Chains -> Nat], NEW g \in [Chains -> Nat], \A d \in Chains : d # c => g[d] = f[d]
      PROVE  /\ SumFunction(f) \in Nat /\ SumFunction(g) \in Nat
             /\ SumFunction(g) + f[c] = SumFunction(f) + g[c]
  BY <1>2, ChainsFinite, SumChange
<1>3. QED
  BY <1>1, <1>2

\* A step that moves no USDC.
LEMMA QuietBooks ==
  ASSUME Ready, Conservation, UNCHANGED <<balance, fees>>,
         \A r \in Requests : pc[r] # "idle" => order'[r] = order[r],
         InFlight' = InFlight, Paid' = Paid
  PROVE  Conservation'
<1>1. \A r \in InFlight \union Paid : order'[r] = order[r]
  BY SumsMeanIt
<1>2. Value(InFlight)' = Value(InFlight) /\ Value(Paid)' = Value(Paid)
  BY <1>1 DEF Value, Units
<1>3. QED
  BY <1>2 DEF Conservation

\* A burn is mined: what the balance loses is in flight.
LEMMA BurnBooks ==
  ASSUME Ready, Conservation, MineBurn
  PROVE  Conservation'
<1> DEFINE r == Head(mempool["sepolia"]).r
           c == "sepolia"
<1>1. /\ c \in Chains /\ mempool[c] # << >> /\ Mined(c) /\ NextTx(c, "burn") /\ IInv /\ TypeOK
      /\ UNCHANGED <<order, transfer, fees>>
  BY DEF MineBurn, NextTx, Chains, Ready, IInv
<1>2. r \in Requests /\ Entitled(r) /\ Units(r) \in Nat
  BY <1>1, HeadEntitled
<1>3. cctp[r] = "submitted"
  BY <1>1, <1>2, HeadKinds DEF Ready, MintInv, BurnsPending
<1>4. Paid' = Paid
  BY <1>1 DEF Paid
<1> HIDE DEF r
<1>5. CASE cctp' = [cctp EXCEPT ![r] = "reverted"] /\ UNCHANGED <<balance, allowance>>
  <2>1. InFlight' = InFlight
    BY <1>2, <1>3, <1>5, <1>1 DEF InFlight, TypeOK
  <2>2. QED
    BY <1>1, <1>4, <1>5, <2>1, QuietBooks
<1>6. CASE /\ balance[c] >= Units(r)
           /\ cctp' = [cctp EXCEPT ![r] = "burned"]
           /\ balance' = [balance EXCEPT ![c] = @ - Units(r)]
  <2>1. InFlight' = InFlight \union {r} /\ r \notin InFlight
    BY <1>2, <1>3, <1>6, <1>1 DEF InFlight, TypeOK
  <2>2. balance[c] \in Nat /\ balance[c] - Units(r) \in Nat
    BY <1>1, <1>2, <1>6 DEF TypeOK
  <2>3. /\ SumFunction(balance) \in Nat /\ SumFunction(balance') \in Nat
        /\ SumFunction(balance') + balance[c] = SumFunction(balance) + (balance[c] - Units(r))
    BY <1>1, <1>6, <2>2, BalanceChange
  <2>4. Value(InFlight') = Value(InFlight) + Units(r)
    BY <1>2, <2>1, SumsMeanIt, ValueJoin
  <2>5. Value(InFlight)' = Value(InFlight') /\ Value(Paid)' = Value(Paid)
    BY <1>1, <1>4 DEF Value, Units
  <2>6. Value(InFlight) \in Nat /\ Value(Paid) \in Nat /\ fees \in Nat
    BY SumsMeanIt
  <2>7. /\ SumFunction(balance') = SumFunction(balance) - Units(r)
        /\ SumFunction(balance) + Value(InFlight) + Value(Paid) + fees = SumFunction(InitialBalance)
    BY <1>2, <2>2, <2>3 DEF Conservation
  <2>8. SumFunction(balance') + Value(InFlight)' + Value(Paid)' + fees' = SumFunction(InitialBalance)
    BY <1>1, <1>2, <2>3, <2>4, <2>5, <2>6, <2>7
  <2>9. QED
    BY <2>8 DEF Conservation
<1>7. QED
  BY <1>5, <1>6 DEF MineBurn, r

\* A mint is mined: what was in flight is balance or fee.
LEMMA MintBooks ==
  ASSUME Ready, Conservation, NEW c \in Chains, NEW fee \in 0 .. MaxFee, MineMint(c, fee)
  PROVE  Conservation'
<1> DEFINE r == Head(mempool[c]).r
<1>1. /\ mempool[c] # << >> /\ Mined(c) /\ NextTx(c, "mint") /\ IInv /\ TypeOK
      /\ UNCHANGED <<order, transfer>>
      /\ cctp' = [cctp EXCEPT ![r] = "minted"]
      /\ balance' = [balance EXCEPT ![c] = @ + (Units(r) - fee)]
      /\ fees' = fees + fee
  BY DEF MineMint, NextTx, Ready, IInv
<1>2. r \in Requests /\ Entitled(r) /\ Units(r) \in Nat /\ Units(r) >= MaxFee
  BY <1>1, HeadEntitled
<1>3. cctp[r] = "minting"
  BY <1>1, <1>2, HeadKinds DEF Ready, MintInv, MintsPending
<1> HIDE DEF r
<1> DEFINE S == InFlight'
<1>4. Paid' = Paid
  BY <1>1 DEF Paid
<1>5. InFlight = S \union {r} /\ r \notin S /\ S \in SUBSET Requests /\ S \subseteq InFlight
  BY <1>1, <1>2, <1>3 DEF InFlight, TypeOK
<1>6. IsFiniteSet(S)
  BY <1>5, SumsMeanIt, FS_Subset
<1>7. \A s \in S \union {r} : Units(s) \in Nat
  BY <1>5, SumsMeanIt
<1> HIDE DEF S
<1>8. Value(S) \in Nat /\ Value(InFlight) = Value(S) + Units(r)
  BY <1>2, <1>5, <1>6, <1>7, ValueJoin
<1>9. balance[c] \in Nat /\ balance[c] + (Units(r) - fee) \in Nat /\ fee \in Nat
  BY <1>1, <1>2, UnitAssumption DEF TypeOK
<1>10. /\ SumFunction(balance) \in Nat /\ SumFunction(balance') \in Nat
       /\ SumFunction(balance') + balance[c] = SumFunction(balance) + (balance[c] + (Units(r) - fee))
  BY <1>1, <1>9, BalanceChange
<1>11. Value(InFlight)' = Value(S) /\ Value(Paid)' = Value(Paid)
  BY <1>1, <1>4 DEF Value, Units, S
<1>12. Value(Paid) \in Nat /\ fees \in Nat
  BY SumsMeanIt
<1>13. SumFunction(balance) + Value(InFlight) + Value(Paid) + fees = SumFunction(InitialBalance)
  BY DEF Conservation
<1>14. SumFunction(balance') = SumFunction(balance) + Units(r) - fee
  BY <1>2, <1>9, <1>10
<1>15. fees' = fees + fee
  BY <1>1
<1>16. Units(r) \in Nat /\ fee \in Nat /\ SumFunction(balance) \in Nat
  BY <1>2, <1>9, <1>10
<1>17. SumFunction(balance') + Value(InFlight)' + Value(Paid)' + fees' = SumFunction(InitialBalance)
  BY <1>8, <1>11, <1>12, <1>13, <1>14, <1>15, <1>16
<1>18. QED
  BY <1>17 DEF Conservation

\* A payout is mined: what the balance loses is paid.
LEMMA PayoutBooks ==
  ASSUME Ready, Conservation, NEW c \in Chains, MineTransfer(c)
  PROVE  Conservation'
<1> DEFINE r == Head(mempool[c]).r
<1>1. /\ mempool[c] # << >> /\ Mined(c) /\ NextTx(c, "transfer") /\ IInv /\ TypeOK
      /\ UNCHANGED <<order, cctp, fees>>
  BY DEF MineTransfer, NextTx, Ready, IInv
<1>2. r \in Requests /\ Entitled(r) /\ Units(r) \in Nat
  BY <1>1, HeadEntitled
<1>3. transfer[r] = "submitted"
  BY <1>1, <1>2, HeadKinds DEF Ready, PayInv, PayoutsOnce
<1>4. InFlight' = InFlight
  BY <1>1 DEF InFlight
<1> HIDE DEF r
<1>5. CASE transfer' = [transfer EXCEPT ![r] = "reverted"] /\ UNCHANGED balance
  <2>1. Paid' = Paid
    BY <1>2, <1>3, <1>5, <1>1 DEF Paid, TypeOK
  <2>2. QED
    BY <1>1, <1>4, <1>5, <2>1, QuietBooks
<1>6. CASE /\ balance[c] >= Units(r)
           /\ transfer' = [transfer EXCEPT ![r] = "paid"]
           /\ balance' = [balance EXCEPT ![c] = @ - Units(r)]
  <2>1. Paid' = Paid \union {r} /\ r \notin Paid
    BY <1>2, <1>3, <1>6, <1>1 DEF Paid, TypeOK
  <2>2. balance[c] \in Nat /\ balance[c] - Units(r) \in Nat
    BY <1>1, <1>2, <1>6 DEF TypeOK
  <2>3. /\ SumFunction(balance) \in Nat /\ SumFunction(balance') \in Nat
        /\ SumFunction(balance') + balance[c] = SumFunction(balance) + (balance[c] - Units(r))
    BY <1>1, <1>6, <2>2, BalanceChange
  <2>4. Value(Paid') = Value(Paid) + Units(r)
    BY <1>2, <2>1, SumsMeanIt, ValueJoin
  <2>5. Value(InFlight)' = Value(InFlight) /\ Value(Paid)' = Value(Paid')
    BY <1>1, <1>4 DEF Value, Units
  <2>6. Value(InFlight) \in Nat /\ Value(Paid) \in Nat /\ fees \in Nat
    BY SumsMeanIt
  <2>7. /\ SumFunction(balance') = SumFunction(balance) - Units(r)
        /\ SumFunction(balance) + Value(InFlight) + Value(Paid) + fees = SumFunction(InitialBalance)
    BY <1>2, <2>2, <2>3 DEF Conservation
  <2>8. SumFunction(balance') + Value(InFlight)' + Value(Paid)' + fees' = SumFunction(InitialBalance)
    BY <1>1, <1>2, <2>3, <2>4, <2>5, <2>6, <2>7
  <2>9. QED
    BY <2>8 DEF Conservation
<1>7. QED
  BY <1>5, <1>6 DEF MineTransfer, r

LEMMA InitConservation == Init => Conservation
<1> SUFFICES ASSUME Init PROVE Conservation
  OBVIOUS
<1>1. InFlight = {} /\ Paid = {} /\ balance = InitialBalance /\ fees = 0
  BY DEF Init, InFlight, Paid
<1>2. Value({}) = 0
  <2> DEFINE f == [r \in {} |-> Units(r)]
  <2>1. f \in [{} -> Nat] /\ IsFiniteSet({})
    BY FS_EmptySet
  <2> HIDE DEF f
  <2>2. SumFunction(f) = 0
    BY <2>1, SumIsWeight, WeightEmpty
  <2>3. QED
    BY <2>2 DEF Value, f
<1>3. SumFunction(InitialBalance) \in Nat
  BY UnitAssumption, ChainsFinite, SumNat
<1>4. QED
  BY <1>1, <1>2, <1>3 DEF Conservation

LEMMA NextConservation ==
  ASSUME Ready, Conservation, [Next]_vars
  PROVE  Conservation'
<1>1. TypeOK /\ IInv /\ MintInv
  BY DEF Ready, IInv
<1>2. CASE UNCHANGED vars
  BY <1>2, QuietBooks DEF vars, InFlight, Paid
<1>3. CASE \E p \in Accounts \union {NoPayer}, a \in Amounts : BankPayment(p, a)
  BY <1>3, QuietBooks DEF BankPayment, chainVars, InFlight, Paid
<1>4. ASSUME NEW q \in Requests, NEW o \in TransactionRequest, BuyCryptoWithFiat(q, o)
      PROVE  Conservation'
  <2>1. /\ pc[q] = "idle" /\ order' = [order EXCEPT ![q] = o]
        /\ UNCHANGED <<cctp, transfer, balance, fees>>
    BY <1>4 DEF BuyCryptoWithFiat, chainVars
  <2>2. \A r \in Requests : pc[r] # "idle" => order'[r] = order[r]
    BY <1>1, <2>1 DEF TypeOK
  <2>3. QED
    BY <2>1, <2>2, QuietBooks DEF InFlight, Paid
<1>5. ASSUME NEW q \in Requests, Handler(q) PROVE Conservation'
  <2>1. UNCHANGED <<order, balance, fees>>
    BY <1>5 DEF Handler, getTransactions, burnUSDC, retrieveAttestation, mintUSDC, send, chainVars
  <2>2. \/ cctp' = cctp
        \/ cctp[q] = "none" /\ cctp' = [cctp EXCEPT ![q] = "submitted"]
        \/ cctp[q] = "attested" /\ cctp' = [cctp EXCEPT ![q] = "minting"]
    BY <1>1, <1>5 DEF Handler, getTransactions, burnUSDC, retrieveAttestation, mintUSDC, send,
                      MintInv, Unburned, Attested
  <2>3. \/ transfer' = transfer
        \/ transfer[q] = "none" /\ transfer' = [transfer EXCEPT ![q] = "submitted"]
    BY <1>5 DEF Handler, getTransactions, burnUSDC, retrieveAttestation, mintUSDC, send,
                Ready, PayInv, Unpaid
  <2>4. InFlight' = InFlight /\ Paid' = Paid
    BY <1>1, <2>2, <2>3 DEF InFlight, Paid, TypeOK
  <2>5. QED
    BY <2>1, <2>4, QuietBooks
<1>6. ASSUME NEW q \in Requests, Attest(q) PROVE Conservation'
  <2>1. UNCHANGED <<order, balance, fees, transfer>>
    BY <1>6 DEF Attest, chainVars
  <2>2. InFlight' = InFlight /\ Paid' = Paid
    BY <1>1, <1>6, <2>1 DEF Attest, InFlight, Paid, TypeOK
  <2>3. QED
    BY <2>1, <2>2, QuietBooks
<1>7. CASE approveUSDC \/ MineApprove
  BY <1>7, QuietBooks DEF approveUSDC, MineApprove, InFlight, Paid
<1>8. CASE \E c \in Chains : Mine(c)
  BY <1>7, <1>8, BurnBooks, MintBooks, PayoutBooks DEF Mine
<1>9. QED
  BY <1>2, <1>3, <1>4, <1>5, <1>6, <1>7, <1>8 DEF Next

(***************************************************************************)
(* However purchases interleave, whatever calls fail and whichever burns,  *)
(* mints and payouts revert, no USDC of the service appears, is lost or is *)
(* paid out twice: burnUSDC, mintUSDC and send together move it from one   *)
(* account to the other.                                                   *)
(***************************************************************************)
THEOREM MoneyConserved == Spec => []Conservation
<1>1. Init => Ready /\ Conservation
  BY InitIInv, InitMintInv, InitPayInv, InitConservation DEF Ready
<1>2. Ready /\ Conservation /\ [Next]_vars => Ready' /\ Conservation'
  BY NextIInv, NextMintInv, NextPayInv, NextConservation DEF Ready
<1>3. QED
  BY <1>1, <1>2, PTL DEF Spec

-----------------------------------------------------------------------------
(***************************************************************************)
(* The service implements Purchase.  Only a transaction that is mined is a *)
(* step of the books; what such a step needs to be allowed is Ready and    *)
(* which way a request goes: only one for another chain is burned.         *)
(***************************************************************************)
Unasked == \A r \in Requests : pc[r] = "idle" => order[r] = NoOrder
Route ==
  \A r \in Requests : pc[r] \in {"burn", "attest", "mint"} \/ cctp[r] # "none" =>
    order[r].chain \in Chains \ {"sepolia"}
RouteInv == Unasked /\ Route

LEMMA InitRoute == Init => RouteInv
BY DEF Init, RouteInv, Unasked, Route

\* A step that asks for nothing new and starts no burn.
LEMMA QuietRoute ==
  ASSUME RouteInv, UNCHANGED order,
         \A r \in Requests : pc'[r] # "idle" <=> pc[r] # "idle",
         \A r \in Requests :
           \/ pc'[r] \notin {"burn", "attest", "mint"}
           \/ pc[r] \in {"burn", "attest", "mint"}
           \/ order[r].chain \in Chains \ {"sepolia"},
         \A r \in Requests :
           cctp'[r] = "none" \/ cctp[r] # "none" \/ pc[r] = "burn"
  PROVE  RouteInv'
BY DEF RouteInv, Unasked, Route

LEMMA NextRoute ==
  ASSUME Ready, RouteInv, [Next]_vars
  PROVE  RouteInv'
<1>1. IInv /\ TypeOK /\ MintInv
  BY DEF Ready, IInv
<1>2. CASE UNCHANGED vars
  BY <1>2, QuietRoute DEF vars
<1>3. CASE \E p \in Accounts \union {NoPayer}, a \in Amounts : BankPayment(p, a)
  BY <1>3, QuietRoute DEF BankPayment, chainVars
<1>4. ASSUME NEW q \in Requests, NEW o \in TransactionRequest, BuyCryptoWithFiat(q, o)
      PROVE  RouteInv'
  <2>1. /\ pc[q] = "idle" /\ pc' = [pc EXCEPT ![q] = "fetch"]
        /\ order' = [order EXCEPT ![q] = o] /\ UNCHANGED cctp
        /\ cctp[q] = "none"
    BY <1>1, <1>4 DEF BuyCryptoWithFiat, Goto, IInv, Fresh
  <2>2. /\ pc'[q] = "fetch"
        /\ \A r \in Requests : r # q => pc'[r] = pc[r] /\ order'[r] = order[r]
    BY <1>1, <2>1 DEF TypeOK
  <2>3. QED
    BY <2>1, <2>2 DEF RouteInv, Unasked, Route
<1>5. ASSUME NEW q \in Requests, Handler(q) PROVE RouteInv'
  <2>1. UNCHANGED order
    BY <1>5 DEF Handler, getTransactions, burnUSDC, retrieveAttestation, mintUSDC, send
  <2>2. \/ cctp' = cctp
        \/ pc[q] = "burn" /\ cctp' = [cctp EXCEPT ![q] = "submitted"]
        \/ cctp[q] = "attested" /\ cctp' = [cctp EXCEPT ![q] = "minting"]
    BY <1>1, <1>5 DEF Handler, getTransactions, burnUSDC, retrieveAttestation, mintUSDC, send,
                      MintInv, Attested
  <2>3. \A r \in Requests : cctp'[r] = "none" \/ cctp[r] # "none" \/ pc[r] = "burn"
    BY <1>1, <2>2 DEF TypeOK
  <2>4. pc[q] # "idle" /\ pc \in [Requests -> {"idle", "fetch", "burn", "attest", "mint", "transfer", "done"}]
    BY <1>1, <1>5 DEF Handler, getTransactions, burnUSDC, retrieveAttestation, mintUSDC, send, TypeOK
  <2>5. CASE getTransactions(q)
    <3>1. \/ pc' = [pc EXCEPT ![q] = "done"] \/ pc' = [pc EXCEPT ![q] = "transfer"]
          \/ /\ order[q].chain \in Chains \ {"sepolia"}
             /\ pc' = [pc EXCEPT ![q] = "burn"]
      BY <2>5 DEF getTransactions, EnterSend, EnterBurn, getDomain, Goto, Answer
    <3>2. QED
      BY <2>1, <2>3, <2>4, <3>1, QuietRoute
  <2>6. CASE burnUSDC(q) \/ retrieveAttestation(q) \/ mintUSDC(q) \/ send(q)
    <3>1. \/ pc' = pc
          \/ pc' = [pc EXCEPT ![q] = "done"] \/ pc' = [pc EXCEPT ![q] = "transfer"]
          \/ /\ pc[q] \in {"burn", "attest"}
             /\ \E l \in {"attest", "mint"} : pc' = [pc EXCEPT ![q] = l]
      BY <2>6 DEF burnUSDC, retrieveAttestation, mintUSDC, send, EnterSend, Goto, Answer
    <3>2. QED
      BY <2>1, <2>3, <2>4, <3>1, QuietRoute
  <2>7. QED
    BY <1>5, <2>5, <2>6 DEF Handler
<1>6. ASSUME NEW q \in Requests, Attest(q) PROVE RouteInv'
  <2>1. UNCHANGED <<order, pc>> /\ \A r \in Requests : cctp'[r] = "none" \/ cctp[r] # "none"
    BY <1>1, <1>6 DEF Attest, TypeOK
  <2>2. QED
    BY <2>1, QuietRoute
<1>7. CASE approveUSDC \/ MineApprove
  BY <1>7, QuietRoute DEF approveUSDC, MineApprove
<1>8. ASSUME NEW c \in Chains,
             (c = "sepolia" /\ MineBurn) \/ (\E fee \in 0 .. MaxFee : MineMint(c, fee)) \/ MineTransfer(c)
      PROVE  RouteInv'
  <2> DEFINE r == Head(mempool[c]).r
  <2>1. /\ mempool[c] # << >> /\ Mined(c) /\ UNCHANGED <<order, pc>>
        /\ \E kind \in {"burn", "mint", "transfer"} : NextTx(c, kind)
    BY <1>8 DEF MineBurn, MineMint, MineTransfer, NextTx
  <2>2. r \in Requests
    BY <1>1, <2>1, HeadEntitled
  <2>3. \/ UNCHANGED cctp
        \/ NextTx(c, "burn") /\ \E v \in {"burned", "reverted"} : cctp' = [cctp EXCEPT ![r] = v]
        \/ NextTx(c, "mint") /\ cctp' = [cctp EXCEPT ![r] = "minted"]
    BY <1>8 DEF MineBurn, MineMint, MineTransfer
  <2>4. \/ UNCHANGED cctp
        \/ mempool[c][1] = Burn(r) /\ \E v \in {"burned", "reverted"} : cctp' = [cctp EXCEPT ![r] = v]
        \/ mempool[c][1] = Mint(r) /\ cctp' = [cctp EXCEPT ![r] = "minted"]
    BY <1>1, <2>1, <2>3, HeadKinds
  <2>5. 1 \in DOMAIN mempool[c]
    BY <1>1, <2>1, MinedRemoves DEF TypeOK
  <2> HIDE DEF r
  <2>6. \A q \in Requests : cctp'[q] = "none" \/ cctp[q] # "none"
    BY <1>1, <2>2, <2>4, <2>5 DEF TypeOK, MintInv, BurnsPending, MintsPending
  <2>7. QED
    BY <2>1, <2>6, QuietRoute
<1>9. QED
  BY <1>2, <1>3, <1>4, <1>5, <1>6, <1>7, <1>8 DEF Next, Mine

-----------------------------------------------------------------------------
(* Each step of the service is a step of the books or none.                *)

\* The stage of the requests a step does not touch stays.
LEMMA StageStays ==
  ASSUME Ready,
         \A r \in Requests :
           \/ cctp'[r] = cctp[r]
           \/ {cctp[r], cctp'[r]} \subseteq {"none", "submitted", "reverted"}
           \/ {cctp[r], cctp'[r]} \subseteq {"burned", "attested", "minting"},
         \A r \in Requests :
           transfer'[r] = transfer[r] \/ (transfer[r] # "paid" /\ transfer'[r] # "paid")
  PROVE  [r \in Requests |-> Stage(r)]' = [r \in Requests |-> Stage(r)]
<1>1. \A r \in Requests : (r \in InFlight') <=> (r \in InFlight)
  BY DEF InFlight
<1>2. \A r \in Requests : (cctp'[r] = "minted") <=> (cctp[r] = "minted")
  OBVIOUS
<1>3. \A r \in Requests : (transfer'[r] = "paid") <=> (transfer[r] = "paid")
  OBVIOUS
<1>4. \A r \in Requests : Stage(r)' = Stage(r)
  BY <1>1, <1>2, <1>3 DEF Stage
<1>5. QED
  BY <1>4

\* A step that moves no USDC is none of the books.
LEMMA StepStutters ==
  ASSUME UNCHANGED <<bankTxs, order, balance, fees>>,
         [r \in Requests |-> Stage(r)]' = [r \in Requests |-> Stage(r)]
  PROVE  UNCHANGED Books!vars
BY DEF Books!vars

\* A step of one request moves its stage.
LEMMA StageMoves ==
  ASSUME NEW q \in Requests, NEW to, Stage(q)' = to,
         \A r \in Requests : r # q => cctp'[r] = cctp[r] /\ transfer'[r] = transfer[r]
  PROVE  [r \in Requests |-> Stage(r)]' = [[r \in Requests |-> Stage(r)] EXCEPT ![q] = to]
<1>1. \A r \in Requests : r # q => Stage(r)' = Stage(r)
  BY DEF Stage, InFlight
<1>2. QED
  BY <1>1

\* A request the user has made is not NoOrder; what IInv calls entitled is
\* funded in the books.
LEMMA EntitledFunded ==
  ASSUME NEW r \in Requests, Entitled(r)
  PROVE  Books!Funded(r)
<1>1. order[r].bankAccountNumber \in Accounts
  BY DEF Entitled, TransactionRequest
<1>2. order[r] # NoOrder
  BY <1>1, RequestAssumption DEF NoOrder
<1>3. QED
  BY <1>2 DEF Entitled, Backed, Books!Funded

\* The mined burn of a request is Burn in the books, or none if it reverts.
LEMMA BurnRefined ==
  ASSUME Ready, RouteInv, MineBurn
  PROVE  [Books!Next]_Books!vars
<1> DEFINE c == "sepolia"
<1>1. /\ c \in Chains /\ mempool[c] # << >> /\ Mined(c) /\ NextTx(c, "burn") /\ IInv /\ TypeOK
      /\ UNCHANGED <<bankTxs, order, transfer, fees>>
  BY DEF MineBurn, NextTx, Chains, Ready, IInv
<1>2. PICK r \in Requests : r = Head(mempool[c]).r /\ Entitled(r) /\ Units(r) \in Nat
  BY <1>1, HeadEntitled
<1>3. cctp[r] = "submitted"
  BY <1>1, <1>2, HeadKinds DEF Ready, MintInv, BurnsPending
<1>4. order[r].chain \in Chains \ {"sepolia"} /\ transfer[r] # "paid"
  BY <1>2, <1>3 DEF RouteInv, Route, Ready, MintInv, PaidAfterMint
<1>5. CASE cctp' = [cctp EXCEPT ![r] = "reverted"] /\ UNCHANGED <<balance, allowance>>
  <2>1. \A q \in Requests : cctp'[q] = cctp[q] \/ (cctp[q] = "submitted" /\ cctp'[q] = "reverted")
    BY <1>1, <1>2, <1>3, <1>5 DEF TypeOK
  <2>2. [q \in Requests |-> Stage(q)]' = [q \in Requests |-> Stage(q)]
    BY <1>1, <2>1, StageStays
  <2>3. QED
    BY <1>1, <1>5, <2>2, StepStutters
<1>6. CASE /\ balance[c] >= Units(r)
           /\ cctp' = [cctp EXCEPT ![r] = "burned"]
           /\ balance' = [balance EXCEPT ![c] = @ - Units(r)]
  <2>1. Stage(r) = "open"
    BY <1>3, <1>4 DEF Stage, InFlight
  <2>2. /\ cctp'[r] = "burned" /\ transfer'[r] # "paid"
        /\ \A q \in Requests : q # r => cctp'[q] = cctp[q] /\ transfer'[q] = transfer[q]
    BY <1>1, <1>2, <1>4, <1>6 DEF TypeOK
  <2>3. Stage(r)' = "burned"
    BY <1>2, <2>2 DEF Stage, InFlight
  <2>4. [q \in Requests |-> Stage(q)]' = [[q \in Requests |-> Stage(q)] EXCEPT ![r] = "burned"]
    BY <1>2, <2>2, <2>3, StageMoves
  <2>5. /\ balance[c] + (-Units(r)) >= 0
        /\ balance' = [balance EXCEPT ![c] = @ + (-Units(r))]
    <3>1. balance[c] \in Nat
      BY <1>1 DEF TypeOK
    <3>2. balance[c] - Units(r) = balance[c] + (-Units(r)) /\ balance[c] + (-Units(r)) >= 0
      BY <1>2, <1>6, <3>1
    <3>3. QED
      BY <1>6, <3>2
  <2>6. Books!Funded(r)
    BY <1>2, EntitledFunded
  <2>7. Books!Burn(r)
    BY <1>1, <1>2, <1>4, <2>1, <2>4, <2>5, <2>6 DEF Books!Burn, Books!Move, Books!Units, Units
  <2>8. QED
    BY <1>2, <2>7 DEF Books!Next
<1>7. QED
  BY <1>2, <1>5, <1>6 DEF MineBurn

LEMMA MintRefined ==
  ASSUME Ready, RouteInv, NEW c \in Chains, NEW fee \in 0 .. MaxFee, MineMint(c, fee)
  PROVE  [Books!Next]_Books!vars
<1>0. PICK r : r = Head(mempool[c]).r
  OBVIOUS
<1>1. /\ mempool[c] # << >> /\ Mined(c) /\ NextTx(c, "mint") /\ IInv /\ TypeOK
      /\ UNCHANGED <<bankTxs, order, transfer>>
      /\ cctp' = [cctp EXCEPT ![r] = "minted"]
      /\ balance' = [balance EXCEPT ![c] = @ + (Units(r) - fee)]
      /\ fees' = fees + fee
  BY <1>0 DEF MineMint, NextTx, Ready, IInv
<1>2. r \in Requests /\ Entitled(r) /\ Units(r) \in Nat /\ Units(r) >= MaxFee
  BY <1>0, <1>1, HeadEntitled
<1>3. cctp[r] = "minting" /\ c = order[r].chain
  BY <1>0, <1>1, <1>2, HeadKinds DEF Ready, MintInv, MintsPending
<1>4. order[r].chain # "sepolia" /\ transfer[r] # "paid"
  BY <1>2, <1>3 DEF RouteInv, Route, Ready, MintInv, PaidAfterMint
<1>5. Stage(r) = "burned"
  BY <1>2, <1>3, <1>4 DEF Stage, InFlight
<1>6. /\ cctp'[r] = "minted" /\ transfer'[r] # "paid"
      /\ \A q \in Requests : q # r => cctp'[q] = cctp[q] /\ transfer'[q] = transfer[q]
  BY <1>1, <1>2, <1>4 DEF TypeOK
<1>7. Stage(r)' = "minted"
  BY <1>6 DEF Stage, InFlight
<1>8. [q \in Requests |-> Stage(q)]' = [[q \in Requests |-> Stage(q)] EXCEPT ![r] = "minted"]
  BY <1>2, <1>6, <1>7, StageMoves
<1>9. balance[c] + (Units(r) - fee) >= 0
  BY <1>1, <1>2, UnitAssumption DEF TypeOK
<1>10. Books!Funded(r)
  BY <1>2, EntitledFunded
<1>11. Books!Mint(r, fee)
  BY <1>1, <1>2, <1>3, <1>5, <1>8, <1>9, <1>10 DEF Books!Mint, Books!Move, Books!Units, Units
<1>12. QED
  BY <1>2, <1>11 DEF Books!Next

LEMMA PayoutRefined ==
  ASSUME Ready, RouteInv, NEW c \in Chains, MineTransfer(c)
  PROVE  [Books!Next]_Books!vars
<1>1. /\ mempool[c] # << >> /\ Mined(c) /\ NextTx(c, "transfer") /\ IInv /\ TypeOK
      /\ UNCHANGED <<bankTxs, order, cctp, fees>>
  BY DEF MineTransfer, NextTx, Ready, IInv
<1>2. PICK r \in Requests : r = Head(mempool[c]).r /\ Entitled(r) /\ Units(r) \in Nat
  BY <1>1, HeadEntitled
<1>3. 1 \in DOMAIN mempool[c] /\ mempool[c][1] = Payout(r)
  BY <1>1, <1>2, HeadKinds
<1>4. transfer[r] = "submitted" /\ c = order[r].chain
  BY <1>2, <1>3 DEF Ready, PayInv, PayoutsOnce, MintInv, PayoutsPending
<1>5. CASE transfer' = [transfer EXCEPT ![r] = "reverted"] /\ UNCHANGED balance
  <2>1. \A q \in Requests : transfer'[q] = transfer[q]
                              \/ (transfer[q] = "submitted" /\ transfer'[q] = "reverted")
    BY <1>1, <1>2, <1>4, <1>5 DEF TypeOK
  <2>2. [q \in Requests |-> Stage(q)]' = [q \in Requests |-> Stage(q)]
    BY <1>1, <2>1, StageStays
  <2>3. QED
    BY <1>1, <1>5, <2>2, StepStutters
<1>6. CASE /\ balance[c] >= Units(r)
           /\ transfer' = [transfer EXCEPT ![r] = "paid"]
           /\ balance' = [balance EXCEPT ![c] = @ - Units(r)]
  <2>1. /\ transfer'[r] = "paid"
        /\ \A q \in Requests : q # r => cctp'[q] = cctp[q] /\ transfer'[q] = transfer[q]
    BY <1>1, <1>2, <1>6 DEF TypeOK
  <2>2. Stage(r) = IF order[r].chain = "sepolia" THEN "open" ELSE "minted"
    <3>1. CASE order[r].chain = "sepolia"
      <4>1. cctp[r] = "none"
        BY <1>2, <3>1 DEF RouteInv, Route
      <4>2. QED
        BY <1>4, <3>1, <4>1 DEF Stage, InFlight
    <3>2. CASE order[r].chain # "sepolia"
      <4>1. cctp[r] = "minted"
        <5>1. cctp[r] = "minted" \/ MintInFront(r, 1)
          BY <1>2, <1>3, <1>4, <3>2 DEF Ready, MintInv, PayoutsPending
        <5>2. ~ MintInFront(r, 1)
          <6>1. mempool[c] \in Seq(Tx)
            BY <1>1 DEF TypeOK
          <6>2. \A j \in DOMAIN mempool[c] : ~(j < 1)
            BY <6>1
          <6>3. QED
            BY <1>4, <6>2 DEF MintInFront
        <5>3. QED
          BY <5>1, <5>2
      <4>2. QED
        BY <1>4, <3>2, <4>1 DEF Stage, InFlight
    <3>3. QED
      BY <3>1, <3>2
  <2>3. Stage(r)' = "paid"
    BY <2>1 DEF Stage
  <2>4. [q \in Requests |-> Stage(q)]' = [[q \in Requests |-> Stage(q)] EXCEPT ![r] = "paid"]
    BY <1>2, <2>1, <2>3, StageMoves
  <2>5. /\ balance[c] + (-Units(r)) >= 0
        /\ balance' = [balance EXCEPT ![c] = @ + (-Units(r))]
    <3>1. balance[c] \in Nat
      BY <1>1 DEF TypeOK
    <3>2. balance[c] - Units(r) = balance[c] + (-Units(r)) /\ balance[c] + (-Units(r)) >= 0
      BY <1>2, <1>6, <3>1
    <3>3. QED
      BY <1>6, <3>2
  <2>6. Books!Funded(r)
    BY <1>2, EntitledFunded
  <2>7. Books!PayOut(r)
    BY <1>1, <1>2, <1>4, <2>2, <2>4, <2>5, <2>6 DEF Books!PayOut, Books!Move, Books!Units, Units
  <2>8. QED
    BY <1>2, <2>7 DEF Books!Next
<1>7. QED
  BY <1>2, <1>5, <1>6 DEF MineTransfer

LEMMA NextRefined ==
  ASSUME Ready, RouteInv, [Next]_vars
  PROVE  [Books!Next]_Books!vars
<1>1. IInv /\ TypeOK /\ MintInv
  BY DEF Ready, IInv
<1>2. CASE UNCHANGED vars
  BY <1>2, StageStays, StepStutters DEF vars
<1>3. ASSUME NEW p \in Accounts \union {NoPayer}, NEW a \in Amounts, BankPayment(p, a)
      PROVE  [Books!Next]_Books!vars
  <2>1. /\ UNCHANGED <<order, cctp, transfer, balance, fees>>
        /\ bankTxs' = Append(bankTxs, [payer |-> p, amount |-> a])
        /\ [payer |-> p, amount |-> a] \in BankTransaction
    BY <1>3 DEF BankPayment, chainVars, BankTransaction
  <2>2. [q \in Requests |-> Stage(q)]' = [q \in Requests |-> Stage(q)]
    BY <2>1, StageStays
  <2>3. Books!Pay([payer |-> p, amount |-> a])
    BY <2>1, <2>2 DEF Books!Pay
  <2>4. QED
    BY <2>1, <2>3 DEF Books!Next
<1>4. ASSUME NEW q \in Requests, NEW o \in TransactionRequest, BuyCryptoWithFiat(q, o)
      PROVE  [Books!Next]_Books!vars
  <2>1. /\ pc[q] = "idle" /\ order' = [order EXCEPT ![q] = o]
        /\ UNCHANGED <<bankTxs, cctp, transfer, balance, fees>>
    BY <1>4 DEF BuyCryptoWithFiat, chainVars
  <2>2. [r \in Requests |-> Stage(r)]' = [r \in Requests |-> Stage(r)]
    BY <2>1, StageStays
  <2>3. order[q] = NoOrder
    BY <2>1 DEF RouteInv, Unasked
  <2>4. Books!Ask(q, o)
    BY <2>1, <2>2, <2>3 DEF Books!Ask
  <2>5. QED
    BY <2>4 DEF Books!Next
<1>5. ASSUME NEW q \in Requests, Handler(q) PROVE [Books!Next]_Books!vars
  <2>1. UNCHANGED <<bankTxs, order, balance, fees>>
    BY <1>5 DEF Handler, getTransactions, burnUSDC, retrieveAttestation, mintUSDC, send, chainVars
  <2>2. \/ cctp' = cctp
        \/ cctp[q] = "none" /\ cctp' = [cctp EXCEPT ![q] = "submitted"]
        \/ cctp[q] = "attested" /\ cctp' = [cctp EXCEPT ![q] = "minting"]
    BY <1>1, <1>5 DEF Handler, getTransactions, burnUSDC, retrieveAttestation, mintUSDC, send,
                      MintInv, Unburned, Attested
  <2>3. \/ transfer' = transfer
        \/ transfer[q] = "none" /\ transfer' = [transfer EXCEPT ![q] = "submitted"]
    BY <1>5 DEF Handler, getTransactions, burnUSDC, retrieveAttestation, mintUSDC, send,
                Ready, PayInv, Unpaid
  <2>4. /\ \A r \in Requests :
             \/ cctp'[r] = cctp[r]
             \/ {cctp[r], cctp'[r]} \subseteq {"none", "submitted", "reverted"}
             \/ {cctp[r], cctp'[r]} \subseteq {"burned", "attested", "minting"}
        /\ \A r \in Requests :
             transfer'[r] = transfer[r] \/ (transfer[r] # "paid" /\ transfer'[r] # "paid")
    BY <1>1, <2>2, <2>3 DEF TypeOK
  <2>5. QED
    BY <2>1, <2>4, StageStays, StepStutters
<1>6. ASSUME NEW q \in Requests, Attest(q) PROVE [Books!Next]_Books!vars
  <2>1. /\ UNCHANGED <<bankTxs, order, balance, fees, transfer>>
        /\ cctp[q] = "burned" /\ cctp' = [cctp EXCEPT ![q] = "attested"]
    BY <1>6 DEF Attest, chainVars
  <2>2. \A r \in Requests :
          cctp'[r] = cctp[r] \/ {cctp[r], cctp'[r]} \subseteq {"burned", "attested", "minting"}
    BY <1>1, <2>1 DEF TypeOK
  <2>3. QED
    BY <2>1, <2>2, StageStays, StepStutters
<1>7. CASE approveUSDC \/ MineApprove
  BY <1>7, StageStays, StepStutters DEF approveUSDC, MineApprove
<1>8. CASE \E c \in Chains : Mine(c)
  BY <1>7, <1>8, BurnRefined, MintRefined, PayoutRefined DEF Mine
<1>9. QED
  BY <1>2, <1>3, <1>4, <1>5, <1>6, <1>7, <1>8 DEF Next

(***************************************************************************)
(* executeTransaction, CctpService and WalletService.send implement        *)
(* Purchase: whatever is interleaved, delayed, reverted or failed between  *)
(* the handlers, the mempools and the chains, the books see only payments, *)
(* orders, burns of funded purchases for other chains, mints of what was   *)
(* burned and payouts of funded purchases, each once and in this order.    *)
(***************************************************************************)
THEOREM PurchaseImplemented == Spec => ImplementsPurchase
<1>1. Init => Ready /\ RouteInv
  BY InitIInv, InitMintInv, InitPayInv, InitRoute DEF Ready
<1>2. Ready /\ RouteInv /\ [Next]_vars => Ready' /\ RouteInv'
  BY NextIInv, NextMintInv, NextPayInv, NextRoute DEF Ready
<1>3. Init => Books!Init
  <2> SUFFICES ASSUME Init PROVE Books!Init
    OBVIOUS
  <2>1. \A r \in Requests : Stage(r) = "open"
    BY DEF Init, Stage, InFlight
  <2>2. [r \in Requests |-> Stage(r)] = [r \in Requests |-> "open"]
    BY <2>1
  <2>3. QED
    BY <2>2 DEF Init, Books!Init
<1>4. Ready /\ RouteInv /\ [Next]_vars => [Books!Next]_Books!vars
  BY NextRefined
<1>5. QED
  BY <1>1, <1>2, <1>3, <1>4, PTL DEF Spec, ImplementsPurchase, Books!Spec
=============================================================================
