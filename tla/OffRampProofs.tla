--------------------------- MODULE OffRampProofs ---------------------------
(***************************************************************************)
(* Proofs about OffRamp, for any number of requests, any amounts and any   *)
(* window.                                                                 *)
(*                                                                         *)
(* FiatBacked is not inductive: that a matching transfer exists is known   *)
(* from the await of getLogs on, across the await of sendMoney, while      *)
(* blocks go on being added.  The strengthening carries it through "pay",  *)
(* and says that nothing a request compares changes once it is read.       *)
(***************************************************************************)
EXTENDS OffRamp, TLAPS

\* The seller's transfer was found: the search and what it compares are fixed.
Found(r) == matchingTransfers(r) # {}

IInv ==
  /\ TypeOK
  /\ \A r \in Requests :
       /\ pc[r] = "idle" => order[r] = NoOrder
       /\ pc[r] # "idle" => order[r] \in TransactionRequest
       /\ seen[r] <= head
       /\ pc[r] = "pay" => Found(r)
       /\ fiat[r] # "none" => pc[r] = "done" /\ Found(r)

(***************************************************************************)
(* What parseUnits computes: v units are the nearest to a parts, and half  *)
(* a unit is rounded up.                                                   *)
(***************************************************************************)
LEMMA Rounding ==
  ASSUME NEW a \in Nat, NEW F \in Nat \ {0}, NEW v, v = (2 * a + F) \div (2 * F)
  PROVE  /\ v \in Int
         /\ 2 * (a - v * F) < F
         /\ 2 * (v * F - a) <= F
<1> DEFINE n == 2 * a + F
           d == 2 * F
<1>1. n \in Int /\ d \in Int /\ d > 0
  OBVIOUS
<1>2. n \div d \in Int /\ n % d \in 0 .. d - 1 /\ n = d * (n \div d) + (n % d)
  <2> HIDE DEF n, d
  <2> QED BY <1>1
<1>3. PICK m \in Int : m = v * F
  BY <1>2
<1>4. d * v = 2 * m
  BY <1>2, <1>3
<1>5. n = 2 * m + (n % d)
  BY <1>2, <1>4
<1> QED BY <1>2, <1>3, <1>5

\* A request keeps what it found when the chain grows and its own data stay.
LEMMA FoundStays ==
  ASSUME NEW r, log \subseteq log',
         order'[r] = order[r], seen'[r] = seen[r], Found(r)
  PROVE  Found(r)'
BY DEF Found, matchingTransfers, expectedAmount

LEMMA Initially == Init => IInv
BY WalletAssumption, ValueAssumption
   DEF Init, IInv, TypeOK, Transfer, Answers, NoOrder, Found, matchingTransfers

\* One step of one request: the others keep their part of IInv by FoundStays.
LEMMA HandlerStep ==
  ASSUME IInv, NEW r \in Requests, Handler(r)
  PROVE  IInv'
<1> USE DEF Goto, Answer, Throws, Answers
<1>0. log' = log /\ head' = head /\ order' = order
  BY DEF Handler, decimals, getBlockNumber, getLogs, sendMoney
<1>1. \A s \in Requests \ {r} :
        pc'[s] = pc[s] /\ seen'[s] = seen[s] /\ fiat'[s] = fiat[s]
  BY DEF IInv, TypeOK, Handler, decimals, getBlockNumber, getLogs, sendMoney
<1>2. ASSUME NEW s \in Requests \ {r}
      PROVE  /\ pc'[s] = "pay" => Found(s)'
             /\ fiat'[s] # "none" => pc'[s] = "done" /\ Found(s)'
  BY <1>0, <1>1, FoundStays DEF IInv
<1>3. CASE decimals(r)
  <2>1. TypeOK'
    BY <1>3 DEF IInv, TypeOK, decimals
  <2>2. pc[r] = "decimals" /\ fiat' = fiat /\ pc'[r] \in {"block", "done"} /\ seen' = seen
    BY <1>3 DEF IInv, TypeOK, decimals
  <2> QED BY <1>0, <1>1, <1>2, <2>1, <2>2 DEF IInv
<1>4. CASE getBlockNumber(r)
  <2>1. TypeOK'
    BY <1>4 DEF IInv, TypeOK, getBlockNumber
  <2>2. /\ pc[r] = "block" /\ fiat' = fiat /\ pc'[r] \in {"logs", "done"}
        /\ seen'[r] \in {head, seen[r]}
    BY <1>4 DEF IInv, TypeOK, getBlockNumber
  <2>3. seen'[r] <= head'
    <3>0. head \in 0 .. MaxBlock
      BY DEF IInv, TypeOK
    <3>1. head \in Int
      BY <3>0, ValueAssumption
    <3>2. seen[r] <= head
      BY DEF IInv
    <3> QED BY <1>0, <2>2, <3>1, <3>2
  <2> QED BY <1>0, <1>1, <1>2, <2>1, <2>2, <2>3 DEF IInv
<1>5. CASE getLogs(r)
  <2>1. TypeOK'
    BY <1>5 DEF IInv, TypeOK, getLogs
  <2>2. /\ pc[r] = "logs" /\ fiat' = fiat /\ seen' = seen
        /\ pc'[r] = "done" \/ (pc'[r] = "pay" /\ Found(r))
    BY <1>5 DEF IInv, TypeOK, getLogs, Found
  <2>3. pc'[r] = "pay" => Found(r)'
    BY <1>0, <2>2, FoundStays
  <2> QED BY <1>0, <1>1, <1>2, <2>1, <2>2, <2>3 DEF IInv
<1>6. CASE sendMoney(r)
  <2>1. TypeOK'
    BY <1>6 DEF IInv, TypeOK, sendMoney
  <2>2. pc[r] = "pay" /\ pc'[r] = "done" /\ seen' = seen
    BY <1>6 DEF IInv, TypeOK, sendMoney
  <2>3. Found(r)'
    BY <1>0, <2>2, FoundStays DEF IInv
  <2> QED BY <1>0, <1>1, <1>2, <2>1, <2>2, <2>3 DEF IInv
<1> QED BY <1>3, <1>4, <1>5, <1>6 DEF Handler

LEMMA Step == IInv /\ [Next]_vars => IInv'
<1> SUFFICES ASSUME IInv, [Next]_vars PROVE IInv'
  OBVIOUS
<1>1. ASSUME NEW T, T = {} \/ \E t \in NewTransfer : T = {t}, NewBlock(T)
      PROVE  IInv'
  <2>1. TypeOK' /\ log \subseteq log' /\ head' = head + 1
    BY <1>1, WalletAssumption, ValueAssumption DEF IInv, TypeOK, NewBlock, Transfer, NewTransfer
  <2>2. \A r \in Requests : Found(r) => Found(r)'
    BY <1>1, <2>1, FoundStays DEF NewBlock
  <2> QED BY <1>1, <2>1, <2>2 DEF IInv, TypeOK, NewBlock
<1>2. ASSUME NEW r \in Requests, NEW o \in TransactionRequest, SellCryptoForFiat(r, o)
      PROVE  IInv'
  <2>1. TypeOK'
    BY <1>2 DEF IInv, TypeOK, SellCryptoForFiat, Goto, Answer, Answers
  <2>2. /\ pc[r] = "idle" /\ fiat' = fiat /\ fiat[r] = "none" /\ seen' = seen /\ head' = head
        /\ log' = log /\ order'[r] \in TransactionRequest /\ pc'[r] \in {"decimals", "done"}
    BY <1>2 DEF IInv, TypeOK, SellCryptoForFiat, Goto, Answer
  <2>3. \A s \in Requests \ {r} : pc'[s] = pc[s] /\ order'[s] = order[s]
    BY <1>2 DEF IInv, TypeOK, SellCryptoForFiat, Goto, Answer
  <2>4. \A s \in Requests \ {r} : Found(s) => Found(s)'
    BY <2>2, <2>3, FoundStays
  <2> QED BY <2>1, <2>2, <2>3, <2>4 DEF IInv
<1>3. CASE UNCHANGED vars
  BY <1>3 DEF IInv, TypeOK, vars, Found, matchingTransfers, expectedAmount
<1> QED BY <1>1, <1>2, <1>3, HandlerStep DEF Next

THEOREM Invariance == Spec => []IInv
BY Initially, Step, PTL DEF Spec

(***************************************************************************)
(* Every variable keeps its type; in particular the block a request saw is *)
(* a block of the chain.                                                   *)
(***************************************************************************)
THEOREM TypeCorrect == Spec => []TypeOK
<1>1. IInv => TypeOK
  BY DEF IInv
<1> QED BY <1>1, Invariance, PTL

(***************************************************************************)
(* WalletService.executeTransaction asks the bank for a payment only after *)
(* it found a transfer of the seller, in its window, over the amount to be *)
(* paid up to half a unit of USDC.                                         *)
(***************************************************************************)
THEOREM TransferBeforeFiat == Spec => []FiatBacked
<1>1. IInv => FiatBacked
  <2> SUFFICES ASSUME IInv, NEW r \in Requests, fiat[r] # "none"
               PROVE  \E e \in log :
                        /\ e.from = order[r].walletAddress
                        /\ e.block \in seen[r] - Window .. seen[r] /\ seen[r] <= head
                        /\ 2 * (order[r].amount - e.value * Fine) < Fine
                        /\ 2 * (e.value * Fine - order[r].amount) <= Fine
    BY DEF FiatBacked
  <2>1. PICK e \in log : /\ e.block \in seen[r] - Window .. seen[r]
                         /\ e.from = order[r].walletAddress
                         /\ e.value = expectedAmount(r)
    BY DEF IInv, Found, matchingTransfers
  <2>2. order[r].amount \in Nat
    BY ValueAssumption DEF IInv, TransactionRequest
  <2>3. /\ 2 * (order[r].amount - e.value * Fine) < Fine
        /\ 2 * (e.value * Fine - order[r].amount) <= Fine
    BY <2>1, <2>2, Rounding, ValueAssumption DEF expectedAmount
  <2>4. seen[r] <= head
    BY DEF IInv
  <2> QED BY <2>1, <2>3, <2>4
<1> QED BY <1>1, Invariance, PTL

-----------------------------------------------------------------------------
(***************************************************************************)
(* AnswerTells relates what the bank did to the answer.  It needs that a   *)
(* request that is still in progress has neither: then the one step that   *)
(* moves money is also the one that answers.                               *)
(***************************************************************************)
Unanswered == \A r \in Requests : pc[r] # "done" => answer[r] = "none" /\ fiat[r] = "none"

AnswerInv == Unanswered /\ AnswerTells

LEMMA AnswerInitially == Init => AnswerInv
BY DEF Init, AnswerInv, Unanswered, AnswerTells

\* The parts of AnswerInv speak of one request each: those a step leaves alone keep theirs.
LEMMA AnswerOthers ==
  ASSUME AnswerInv, NEW r \in Requests,
         \A s \in Requests \ {r} : pc'[s] = pc[s] /\ answer'[s] = answer[s] /\ fiat'[s] = fiat[s],
         pc'[r] # "done" => answer'[r] = "none" /\ fiat'[r] = "none",
         answer'[r] = "completed" => fiat'[r] = "paid",
         fiat'[r] = "paid" => answer'[r] \in {"completed", "error"},
         fiat'[r] = "refused" => answer'[r] \in {"bank transfer failed", "error"}
  PROVE  AnswerInv'
BY DEF AnswerInv, Unanswered, AnswerTells

LEMMA AnswerStep == IInv /\ AnswerInv /\ [Next]_vars => AnswerInv'
<1> SUFFICES ASSUME IInv, AnswerInv, [Next]_vars PROVE AnswerInv'
  OBVIOUS
<1> USE DEF Goto, Answer, Throws
<1>1. TypeOK /\ \A r \in Requests : pc[r] # "done" => answer[r] = "none" /\ fiat[r] = "none"
  BY DEF IInv, AnswerInv, Unanswered
<1>2. CASE UNCHANGED <<pc, answer, fiat>>
  BY <1>2 DEF AnswerInv, Unanswered, AnswerTells
<1>3. ASSUME NEW r \in Requests, NEW o \in TransactionRequest, SellCryptoForFiat(r, o)
      PROVE  AnswerInv'
  BY <1>1, <1>3, AnswerOthers DEF SellCryptoForFiat, TypeOK
<1>4. ASSUME NEW r \in Requests, decimals(r) \/ getBlockNumber(r) \/ getLogs(r)
      PROVE  AnswerInv'
  <2>1. /\ pc[r] # "done" /\ fiat' = fiat
        /\ \A s \in Requests \ {r} : pc'[s] = pc[s] /\ answer'[s] = answer[s]
        /\ \/ pc'[r] # "done" /\ answer'[r] = answer[r]
           \/ pc'[r] = "done" /\ answer'[r] \in {"error", "not verified"}
    BY <1>1, <1>4 DEF decimals, getBlockNumber, getLogs, TypeOK
  <2> QED BY <1>1, <2>1, AnswerOthers
<1>5. ASSUME NEW r \in Requests, sendMoney(r)
      PROVE  AnswerInv'
  <2>1. /\ pc'[r] = "done"
        /\ \A s \in Requests \ {r} : pc'[s] = pc[s] /\ answer'[s] = answer[s] /\ fiat'[s] = fiat[s]
        /\ \/ fiat'[r] = "paid" /\ answer'[r] \in {"completed", "error"}
           \/ fiat'[r] = "refused" /\ answer'[r] \in {"bank transfer failed", "error"}
    BY <1>1, <1>5 DEF sendMoney, TypeOK
  <2> QED BY <2>1, AnswerOthers
<1>6. ASSUME NEW T, NewBlock(T) PROVE UNCHANGED <<pc, answer, fiat>>
  BY <1>6 DEF NewBlock
<1> QED BY <1>2, <1>3, <1>4, <1>5, <1>6 DEF Next, Handler, vars

(***************************************************************************)
(* Whatever call fails, the answer of WalletService.executeTransaction     *)
(* tells where the money is: completed means paid, and a payment is        *)
(* answered with nothing but completed or an error.                        *)
(***************************************************************************)
THEOREM AnswerTruthful == Spec => []AnswerTells
<1>1. AnswerInv => AnswerTells
  BY DEF AnswerInv
<1> QED BY <1>1, AnswerInitially, AnswerStep, Invariance, PTL DEF Spec
=============================================================================
