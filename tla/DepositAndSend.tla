--------------------------- MODULE DepositAndSend ---------------------------
(***************************************************************************)
(* Deposit-and-withdraw, deposit-and-bridge and the NEAR bridge            *)
(* (internal/functions/transactions) on EVM chains, Tron and Solana: one   *)
(* deposit makes a blocked UTXO per recipient, the call waits until all of *)
(* them are in its Merkle tree, proves one withdrawal per recipient and    *)
(* hands the batch to the relayer, which pays later.                       *)
(*                                                                         *)
(* A UTXO is the place of its leaf.  The contract, the relayer and the     *)
(* status server are external.                                             *)
(***************************************************************************)
EXTENDS SpendAmounts, FiniteSetsExt

CONSTANTS
  Calls,
  Requests,     \* what callers ask for
  FlatFees,     \* gas estimates in the token that is sent
  Overrides,    \* fee structures a caller may give: [token, flat, rate]
  PaySendRate,  \* PaySendVariableRate
  Window,       \* the leaves that are looked at: LastLeaves(20)
  MaxTries,     \* attempts to find the deposits: 60
  MaxOthers     \* bound: leaves of other users, at most after as many leaves

ASSUME SendAssumption ==
  /\ Window \in Nat \ {0} /\ MaxTries \in Nat \ {0} /\ MaxOthers \in Nat
  /\ PaySendRate \in Nat /\ FlatFees \subseteq Nat

\* Fees are in the token that is sent, and a bridge has a native fee for every
\* recipient.  Leaves that belong to no call are told apart from those that do.
ASSUME RequestAssumption ==
  /\ Overrides \subseteq [token : {"sent"}, flat : Nat, rate : Nat]
  /\ \A r \in Requests :
       /\ r.amts \in Seq(Int) /\ r.natives \in Seq(Nat)
       /\ r.kind = "bridge" => Len(r.natives) = Len(r.amts)
  /\ {"other", "user"} \cap Calls = {}

VARIABLES
  leaves,     \* the contract's tree: Seq of [call, part, slot, amt]
  spent,      \* nullified leaves
  view,       \* how many leaves the client's tree holds
  pc, plan,   \* where call c is, and its local variables
  tx,         \* tx[c][part]: its deposit transactions
  status,     \* status[c][part]: the phase the status server knows
  scheduled,  \* withdrawals the relayer has to make
  executed,   \* those it made
  dropped     \* those the contract refused

sendVars == <<leaves, spent, view, pc, plan, tx, status, scheduled, executed, dropped>>

Parts == {"main", "native"}

NoRequest == [kind |-> "none", net |-> "evm", tokens |-> 1, amts |-> <<>>, rcpts |-> <<>>,
              natives |-> <<>>, nativeToken |-> FALSE, wellFormed |-> TRUE]

NoPlan == [req   |-> NoRequest,
           fee   |-> ZeroFee("none"),
           part  |-> "main",             \* the deposit it is busy with
           utxos |-> [p \in Parts |-> <<>>],  \* userDepositedUtxos
           tries |-> 0,
           items |-> <<>>]               \* transactions of the batch

Init ==
  /\ leaves = <<>> /\ spent = {} /\ view = 0
  /\ pc = [c \in Calls |-> "idle"]
  /\ plan = [c \in Calls |-> NoPlan]
  /\ tx = [c \in Calls |-> [p \in Parts |-> "none"]]
  /\ status = [c \in Calls |-> [p \in Parts |-> "none"]]
  /\ scheduled = {} /\ executed = {} /\ dropped = {}

Goto(c, label, p) ==
  /\ pc' = [pc EXCEPT ![c] = label]
  /\ plan' = [plan EXCEPT ![c] = p]

\* The call returns an error; its deposit may still be on the way.
Fail(c) == Goto(c, "failed", [NoPlan EXCEPT !.req = plan[c].req, !.fee = plan[c].fee])

\* A phase is reported to the status server; a safe update may get lost.
Tell(c, part, phase) == status' = [status EXCEPT ![c][part] = phase]
SafeUpdateDepositAndWithdrawStatus(c, part, phase) ==
  Tell(c, part, phase) \/ UNCHANGED status

-----------------------------------------------------------------------------
ValidateDepositAndWithdrawArgs(r) ==
  /\ r.tokens = 1
  /\ r.amts # <<>> /\ Len(r.amts) = Len(r.rcpts)
  /\ \A i \in DOMAIN r.amts : r.amts[i] > 0

\* wellFormed: every recipient has its address, temporary account and calldata.
ValidateDepositAndBridgeArgs(r) ==
  /\ r.tokens = 1 /\ r.amts # <<>> /\ r.wellFormed
  /\ \A i \in DOMAIN r.amts : r.amts[i] > 0

\* A call starts with request r, or is refused.
Enter(c, r, valid, label) ==
  /\ pc[c] = "idle"
  /\ IF valid THEN Goto(c, label, [NoPlan EXCEPT !.req = r]) ELSE Fail(c)
  /\ UNCHANGED <<leaves, spent, view, tx, status, scheduled, executed, dropped>>

HinkalDepositAndWithdraw(c, r) ==
  /\ r.kind = "withdraw"
  /\ Enter(c, r, r.net # "solana" /\ ValidateDepositAndWithdrawArgs(r), "fee")

HinkalSolanaDepositAndWithdraw(c, r) ==
  /\ r.kind = "solana"
  /\ Enter(c, r, r.net = "solana" /\ ValidateDepositAndWithdrawArgs(r), "fee")

HinkalDepositAndBridge(c, r) ==
  /\ r.kind = "bridge"
  /\ Enter(c, r, r.net = "evm" /\ ValidateDepositAndBridgeArgs(r), "fee")

HinkalNearDepositAndBridge(c, r) ==
  /\ r.kind = "near"
  /\ Enter(c, r, ValidateDepositAndWithdrawArgs(r), "quotes")

\* A quote per recipient; its deposit address becomes the recipient.  One
\* without address, or one that expires before the batch is due, ends the call.
NearQuotes(c, hasAddress, inTime) ==
  /\ pc[c] = "quotes"
  /\ IF hasAddress /\ inTime THEN Goto(c, "fee", plan[c]) ELSE Fail(c)
  /\ UNCHANGED <<leaves, spent, view, tx, status, scheduled, executed, dropped>>

PaySendFeeStructure(fee) ==
  [fee EXCEPT !.rate = IF @ = 0 THEN PaySendRate ELSE @]

\* GetFeeStructure, asked for a rate.
Estimates(rate) == {[token |-> "sent", flat |-> flat, rate |-> rate] : flat \in FlatFees}

ResolveDepositAndWithdrawFeeStructure ==
  {PaySendFeeStructure(fee) : fee \in Overrides \cup Estimates(PaySendRate)}

\* The calls of the first recipient are the sample of the estimate.
ResolveDepositAndBridgeFeeStructure ==
  {PaySendFeeStructure(fee) : fee \in Overrides \cup Estimates(PaySendRate)}

ResolveSolanaDepositAndWithdrawFeeStructure ==
  {PrivateSendFeeStructure(fee) : fee \in Overrides \cup Estimates(PrivateSendRate)}

\* The flow that NEAR's bridge goes on with takes this for the caller's fee.
BuildNearBridgeFeeStructure == Overrides \cup Estimates(PrivateSendRate)

FeesOf(r) ==
  CASE r.kind = "withdraw" -> ResolveDepositAndWithdrawFeeStructure
    [] r.kind = "bridge"   -> ResolveDepositAndBridgeFeeStructure
    [] r.kind = "solana"   -> ResolveSolanaDepositAndWithdrawFeeStructure
    [] r.kind = "near" /\ r.net = "solana" ->
         {PrivateSendFeeStructure(fee) : fee \in BuildNearBridgeFeeStructure}
    [] r.kind = "near" /\ r.net # "solana" ->
         {PaySendFeeStructure(fee) : fee \in BuildNearBridgeFeeStructure}

ResolveFee(c) ==
  /\ pc[c] = "fee"
  /\ \E fee \in FeesOf(plan[c].req) : Goto(c, "before", [plan[c] EXCEPT !.fee = fee])
  /\ UNCHANGED <<leaves, spent, view, tx, status, scheduled, executed, dropped>>

\* A mutant: the coins do not carry their fees.
AmountsWithoutFee(amts, fee) == amts

DepositAndWithdrawUtxoAmounts(amts, fee) ==
  [i \in DOMAIN amts |-> amts[i] + CalculateTotalFee(amts[i], fee)]

-----------------------------------------------------------------------------
(***************************************************************************)
(* HinkalDepositOnChainUtxos and hinkalSolanaMultiPaymentDeposit.  The     *)
(* inputs of the deposit's proof are padding, so that nothing of the       *)
(* client is spent; its metadata are the amounts to create.                *)
(***************************************************************************)
ZeroNativeDepositFeeStructure == ZeroFee("native")

NeedsNativeDeposit(r) ==
  r.kind = "bridge" /\ ~r.nativeToken /\ \E i \in DOMAIN r.natives : r.natives[i] > 0

Wanted(p) ==
  IF p.part = "main"
  THEN DepositAndWithdrawUtxoAmounts(p.req.amts, p.fee)
  ELSE DepositAndWithdrawUtxoAmounts(p.req.natives, ZeroNativeDepositFeeStructure)

\* The proof or the instruction is made, and the status server is told; it has
\* to answer here, and its answer may get lost.
PrepareDeposit(c) ==
  /\ pc[c] = "before"
  /\ Tell(c, plan[c].part, "beforeDeposit")
  /\ \/ Goto(c, "deposit", plan[c])
     \/ Fail(c)
  /\ UNCHANGED <<leaves, spent, view, tx, scheduled, executed, dropped>>

\* A transaction goes out; the caller gets its hash or not.
Broadcast(c) ==
  /\ pc[c] = "deposit"
  /\ tx' = [tx EXCEPT ![c][plan[c].part] = "pending"]
  /\ Goto(c, "sent", plan[c]) \/ Fail(c)
  /\ UNCHANGED <<leaves, spent, view, status, scheduled, executed, dropped>>

\* An error of TransactCallDirect or of TransactCallDirectTron is lost in an
\* inner err; the empty hash that comes with it ends the call.
HinkalDepositOnChainUtxos(c) == plan[c].req.net # "solana" /\ Broadcast(c)

HinkalSolanaMultiPaymentDeposit(c) == plan[c].req.net = "solana" /\ Broadcast(c)

\* The orders in which the contract may create the UTXOs, as sequences of
\* slots.  It is free to leave out those of amount 0.
Created(wanted, zeros) == SetToSeqs({i \in DOMAIN wanted : zeros \/ wanted[i] > 0})

PartOf(c, part) == Wanted([plan[c] EXCEPT !.part = part])

MineDeposit(c, part, slots) ==
  LET wanted == PartOf(c, part)
  IN  /\ tx[c][part] = "pending"
      /\ tx' = [tx EXCEPT ![c][part] = "mined"]
      /\ leaves' = leaves \o [k \in DOMAIN slots |->
                     [call |-> c, part |-> part, slot |-> slots[k], amt |-> wanted[slots[k]]]]
      /\ UNCHANGED <<spent, view, pc, plan, status, scheduled, executed, dropped>>

RevertDeposit(c, part) ==
  /\ tx[c][part] = "pending"
  /\ tx' = [tx EXCEPT ![c][part] = "reverted"]
  /\ UNCHANGED <<leaves, spent, view, pc, plan, status, scheduled, executed, dropped>>

\* A mutant: the receipt is not waited for.
AnyState(c) == tx[c][plan[c].part] # "none"

Decided(c) == tx[c][plan[c].part] \in {"mined", "reverted"}

\* WaitForTransaction of the adapter: a reverted transaction is an error.
WaitForTransaction(c) ==
  /\ pc[c] = "sent"
  /\ Decided(c)
  /\ \/ tx[c][plan[c].part] = "reverted" /\ Fail(c)
     \/ tx[c][plan[c].part] # "reverted" /\ Goto(c, "receipt", plan[c])
  /\ UNCHANGED <<leaves, spent, view, tx, status, scheduled, executed, dropped>>

Fetched(c) ==
  /\ pc[c] = "receipt"
  /\ Goto(c, "decode", plan[c])
  /\ SafeUpdateDepositAndWithdrawStatus(c, plan[c].part, "afterDeposit")
  /\ UNCHANGED <<leaves, spent, view, tx, scheduled, executed, dropped>>

FetchTransactionReceiptWithRetry(c) == plan[c].req.net # "solana" /\ Fetched(c)
FetchTransactionWithRetry(c) == plan[c].req.net = "solana" /\ Fetched(c)

\* DecodeFromReceipt, DecodeSolanaFromTransaction: the UTXOs of the receipt.
\* Its logs are in the order of the leaves.
DecodeFromReceipt(c, part) ==
  {k \in DOMAIN leaves : leaves[k].call = c /\ leaves[k].part = part}

\* The UTXO of amount amt that n others of the amount come before.
Nth(utxos, amt, n) ==
  {k \in utxos : /\ leaves[k].amt = amt
                 /\ Cardinality({j \in utxos : j < k /\ leaves[j].amt = amt}) = n}

FirstOr0(hits) == IF hits = {} THEN 0 ELSE CHOOSE k \in hits : TRUE

\* A mutant: a UTXO stays available after its match.
MatchKeepsAvailable(wanted, utxos) ==
  [i \in DOMAIN wanted |-> FirstOr0(Nth(utxos, wanted[i], 0))]

\* matchRecipientUtxos: for one recipient after the other the first UTXO of
\* the amount that is still available, 0 when there is none.  As many as there
\* are earlier recipients of the same amount are taken.
MatchRecipientUtxos(wanted, utxos) ==
  [i \in DOMAIN wanted |->
     FirstOr0(Nth(utxos, wanted[i], Cardinality({h \in 1 .. i - 1 : wanted[h] = wanted[i]})))]

MatchDeposits(c) ==
  LET p       == plan[c]
      utxos   == DecodeFromReceipt(c, p.part)
      matched == MatchRecipientUtxos(Wanted(p), utxos)
      next    == [p EXCEPT !.utxos[p.part] = matched]
  IN  /\ pc[c] = "decode"
      /\ IF utxos = {} THEN Fail(c)
         ELSE IF 0 \in ToSet(matched) THEN Fail(c)
         ELSE IF p.part = "main" /\ NeedsNativeDeposit(p.req)
         THEN Goto(c, "before", [next EXCEPT !.part = "native"])
         ELSE Goto(c, "wait", next)
      /\ UNCHANGED <<leaves, spent, view, tx, status, scheduled, executed, dropped>>

-----------------------------------------------------------------------------
Deposited(p) == ToSet(p.utxos["main"]) \cup ToSet(p.utxos["native"])

\* LastLeaves of the client's tree when it holds v leaves.
LastLeaves(v) == {k \in 1 .. v : k > v - Window}

AreAllDepositedUtxosInLastLeaves(deposited, lastLeaves) == deposited \subseteq lastLeaves

\* waitForDepositedUtxosInMerkleTree, one attempt: ResetMerkle brings the
\* tree to what the servers know.
WaitForDepositedUtxosInMerkleTree(c, v) ==
  /\ pc[c] = "wait"
  /\ v \in view .. Len(leaves)
  /\ view' = v
  /\ IF AreAllDepositedUtxosInLastLeaves(Deposited(plan[c]), LastLeaves(v))
     THEN Goto(c, "batch", plan[c])
     ELSE Goto(c, IF plan[c].tries + 1 = MaxTries THEN "failed" ELSE "wait",
               [plan[c] EXCEPT !.tries = @ + 1])
  /\ UNCHANGED <<leaves, spent, tx, status, scheduled, executed, dropped>>

\* A transaction of the batch: what recipient i gets is what the relayer's
\* fee leaves of the inputs.
Item(c, i, utxos, fee) ==
  [call |-> c, to |-> i, utxos |-> utxos,
   pays |-> leaves[plan[c].utxos["main"][i]].amt - fee.flat]

ItemFee(p, i) == CalculateModifiedFeeStructure("sent", p.req.amts[i], p.fee, 0)

\* hinkalWithdrawBatch: the recipient's UTXO and a padding one go in, padding
\* comes out.
WithdrawItem(c, i) == Item(c, i, {plan[c].utxos["main"][i]}, ItemFee(plan[c], i))

\* hinkalBridgeBatch adds the native UTXO where the quote has a native fee.
BridgeItem(c, i) ==
  LET p      == plan[c]
      needs  == p.req.natives[i] > 0 /\ ~p.req.nativeToken
      native == IF needs THEN {p.utxos["native"][i]} ELSE {}
  IN  Item(c, i, {p.utxos["main"][i]} \cup native, ItemFee(p, i))

\* hinkalSolanaWithdrawBatch.
SolanaWithdrawItem(c, i) == Item(c, i, {plan[c].utxos["main"][i]}, ItemFee(plan[c], i))

BatchItem(c, i) ==
  CASE plan[c].req.kind = "bridge" -> BridgeItem(c, i)
    [] plan[c].req.net = "solana"  -> SolanaWithdrawItem(c, i)
    [] OTHER                       -> WithdrawItem(c, i)

\* One proof after the other; the tree must have the inputs.
ProveItem(c) ==
  LET p    == plan[c]
      item == BatchItem(c, Len(p.items) + 1)
      next == [p EXCEPT !.items = Append(@, item)]
  IN  /\ pc[c] = "batch"
      /\ item.utxos \subseteq 1 .. view
      /\ Goto(c, IF Len(next.items) = Len(p.req.amts) THEN "schedule" ELSE "batch", next)
      /\ UNCHANGED <<leaves, spent, view, tx, status, scheduled, executed, dropped>>

\* TransactCallRelayerBatch; the relayer takes the whole batch.
Schedule(c) ==
  /\ pc[c] = "schedule"
  /\ Goto(c, "scheduling", plan[c])
  /\ SafeUpdateDepositAndWithdrawStatus(c, "main", "beforeSchedule")
  /\ scheduled' = scheduled \cup ToSet(plan[c].items)
  /\ UNCHANGED <<leaves, spent, view, tx, executed, dropped>>

\* extractBatchTxResponse: the schedule's id, or an error though the relayer
\* has the batch.
Scheduled(c) ==
  /\ pc[c] = "scheduling"
  /\ \/ /\ Goto(c, "done", plan[c])
        /\ SafeUpdateDepositAndWithdrawStatus(c, "main", "afterSchedule")
     \/ Fail(c) /\ UNCHANGED status
  /\ UNCHANGED <<leaves, spent, view, tx, scheduled, executed, dropped>>

\* A request on the way fails: quotes, fees, status, wallet, receipt, tree,
\* temporary wallet's nonce, prover, relayer.  One bad proof ends the batch.
RequestFails(c) ==
  /\ pc[c] \in {"quotes", "fee", "before", "deposit", "sent", "receipt", "wait", "batch", "schedule"}
  /\ Fail(c)
  /\ UNCHANGED <<leaves, spent, view, tx, status, scheduled, executed, dropped>>

-----------------------------------------------------------------------------
\* The relayer makes a withdrawal; the contract refuses a spent UTXO.
Execute(it) ==
  /\ it \in scheduled
  /\ scheduled' = scheduled \ {it}
  /\ IF it.utxos \cap spent = {}
     THEN /\ spent' = spent \cup it.utxos
          /\ executed' = executed \cup {it}
          /\ UNCHANGED dropped
     ELSE /\ dropped' = dropped \cup {it}
          /\ UNCHANGED <<spent, executed>>
  /\ UNCHANGED <<leaves, view, pc, plan, tx, status>>

\* Leaves of other users push the deposits out of the window.
OthersInsert ==
  /\ Cardinality({k \in DOMAIN leaves : leaves[k].call = "other"}) < MaxOthers
  /\ Len(leaves) <= MaxOthers
  /\ leaves' = Append(leaves, [call |-> "other", part |-> "main", slot |-> 0, amt |-> 1])
  /\ UNCHANGED <<spent, view, pc, plan, tx, status, scheduled, executed, dropped>>

\* Calls on other chains have other leaves and do not meet these.
OneChain(r) == \A c \in Calls : plan[c].req # NoRequest => plan[c].req.net = r.net

Begin(c, r) ==
  \/ HinkalDepositAndWithdraw(c, r) \/ HinkalSolanaDepositAndWithdraw(c, r)
  \/ HinkalDepositAndBridge(c, r) \/ HinkalNearDepositAndBridge(c, r)

CallStep(c) ==
  \/ \E hasAddress, inTime \in BOOLEAN : NearQuotes(c, hasAddress, inTime)
  \/ ResolveFee(c) \/ PrepareDeposit(c)
  \/ HinkalDepositOnChainUtxos(c) \/ HinkalSolanaMultiPaymentDeposit(c)
  \/ WaitForTransaction(c)
  \/ FetchTransactionReceiptWithRetry(c) \/ FetchTransactionWithRetry(c)
  \/ MatchDeposits(c)
  \/ \E v \in view .. Len(leaves) : WaitForDepositedUtxosInMerkleTree(c, v)
  \/ ProveItem(c) \/ Schedule(c) \/ Scheduled(c)

ContractStep(c) ==
  \E part \in Parts :
    \/ RevertDeposit(c, part)
    \/ \E zeros \in BOOLEAN : \E slots \in Created(PartOf(c, part), zeros) :
         MineDeposit(c, part, slots)

SendNext ==
  \/ OthersInsert
  \/ \E it \in scheduled : Execute(it)
  \/ \E c \in Calls : \/ \E r \in Requests : OneChain(r) /\ Begin(c, r)
                      \/ CallStep(c)
                      \/ RequestFails(c)
                      \/ ContractStep(c)

-----------------------------------------------------------------------------
Own == {k \in DOMAIN leaves : leaves[k].call \in Calls}

Amounts == [k \in DOMAIN leaves |-> leaves[k].amt]

Items == scheduled \cup executed \cup dropped

\* The coin that was made for payment j of call c.
Coin(c, j) == CHOOSE k \in Own : /\ leaves[k].call = c /\ leaves[k].part = "main"
                                 /\ leaves[k].slot = j

Paid == UNION {it.utxos : it \in executed}

StageOf(c, j) ==
  IF tx[c]["main"] # "mined" THEN "wallet"
  ELSE IF Coin(c, j) \in Paid THEN "paid"
  ELSE IF Coin(c, j) \in spent THEN "recovered" ELSE "pool"

Received(c, i) ==
  SumFunctionOnSet([it \in executed |-> it.pays], {it \in executed : it.call = c /\ it.to = i})

Asks    == [c \in Calls |-> plan[c].req.amts]
Stages  == [c \in Calls |-> [j \in DOMAIN plan[c].req.amts |-> StageOf(c, j)]]
Gains   == [c \in Calls |-> [i \in DOMAIN plan[c].req.amts |-> Received(c, i)]]
Reports == [c \in Calls |-> IF pc[c] \in {"done", "failed"} THEN pc[c] ELSE "none"]

Promise == INSTANCE Payments WITH ask <- Asks, stage <- Stages, got <- Gains, report <- Reports

\* The flows implement Payments: one deposit, then every coin pays one
\* recipient exactly the amount asked for, and success is reported only when
\* all the money is in the pool (HinkalDepositAndWithdraw,
\* HinkalDepositAndBridge, HinkalSolanaDepositAndWithdraw).
PaymentsSpec == Promise!Spec

\* The relayer has one withdrawal per recipient, and in a bridge the native
\* UTXO goes with the one whose quote asks for it (depositedBridgeRecipients).
HasBatch(c) ==
  \A i \in DOMAIN plan[c].req.amts :
    \E it \in Items :
      /\ it.call = c /\ it.to = i
      /\ NeedsNativeDeposit(plan[c].req) =>
           SumFunctionOnSet(Amounts, {k \in it.utxos : leaves[k].part = "native"})
             = plan[c].req.natives[i]

\* Neither the status server nor the caller is told too much: after the
\* deposit means that its transaction is mined, a schedule phase that every
\* coin is in the client's tree, and the last one, or success, that the
\* relayer has the whole batch.
StatusNeverAhead ==
  \A c \in Calls :
    LET phase == status[c]["main"]
    IN  /\ phase = "afterDeposit" => tx[c]["main"] = "mined"
        /\ phase \in {"beforeSchedule", "afterSchedule"} =>
             \A j \in DOMAIN plan[c].req.amts : Coin(c, j) <= view
        /\ phase = "afterSchedule" \/ pc[c] = "done" => HasBatch(c)
=============================================================================
