------------------------------ MODULE Transact ------------------------------
(***************************************************************************)
(* Private transactions of one client on one EVM chain: withdraw,          *)
(* transfer, swap, deposit, deposit for another and claim                  *)
(* (internal/functions/transactions), from the request to the contract.    *)
(*                                                                         *)
(* The SDK reserves nothing: calls that run side by side, or that are      *)
(* repeated before the client has seen the effect of the first, choose     *)
(* from the same UTXOs.  The contract is external: it accepts a proof      *)
(* whose nullifiers are new, and moves what the proof's amounts say.       *)
(*                                                                         *)
(* The chain is a sequence of accepted transactions, the first one being   *)
(* what it held at the beginning.  UTXO <<i, x>> is the output of          *)
(* transaction i at row and column x.  Every copy of the chain (the        *)
(* client's outputs, its nullifiers, its tree, the snapshot server's tree) *)
(* is a prefix, given by its length.                                       *)
(***************************************************************************)
EXTENDS SpendAmounts, FiniteSetsExt

CONSTANTS
  Calls,      \* calls of the SDK
  Tokens,
  Volatile,   \* tokens for which IsPotentiallyVolatile holds
  Native,     \* tokens that go along with the call and need no approval
  ResetFirst, \* tokens whose allowance is set to 0 first (USDT)
  Clients     \* the clients to look at: [net, utxos, requests, quotes]

Owners == {"user", "other", "claimable"}
Output == [owner : Owners, token : Tokens, amt : Nat]

\* A gas estimate in the fee token, or an override of it; its variable rate, 0
\* being GetFeeStructure's; a variable fee that is priced in another token.
Quote == [flat : Nat, rate : Nat, cross : Nat]

Kinds == {"withdraw", "withdrawDirect", "transfer", "swap", "deposit", "depositForOther", "claim"}
PaysFee(kind) == kind \in {"withdraw", "transfer", "swap", "claim"}

\* The places of the UTXOs a client begins with.
GenesisPlaces(utxos) == {1} \X DOMAIN utxos

\* The changes of a swap are what the caller pays and what the quote promises
\* (on Solana, where the fee is taken from it: initialReceiveAmount).
ASSUME TransactAssumption ==
  /\ Volatile \subseteq Tokens /\ Native \subseteq Tokens /\ ResetFirst \subseteq Tokens
  /\ \A k \in Clients :
       /\ k.net \in {"evm", "solana"} /\ k.quotes \subseteq Quote
       /\ k.utxos \in Seq(Output) /\ \A j \in DOMAIN k.utxos : k.utxos[j].amt > 0
       /\ \A r \in k.requests :
            /\ r.kind \in Kinds
            /\ r.toks \in Seq(Tokens) /\ IsInjective(r.toks)
            /\ r.chs \in Seq(Int)
            /\ PaysFee(r.kind) => r.feeTok \in Tokens
            /\ r.kind = "claim" => r.source \in {1} \X GenesisPlaces(k.utxos)
            /\ r.kind \in {"swap", "deposit", "depositForOther"} => Len(r.toks) = Len(r.chs)
            /\ k.net = "solana" /\ r.kind = "swap" /\ Len(r.chs) = 2 => r.chs[2] >= 0

VARIABLES
  client,    \* its chain, the outputs it begins with, what its callers ask for
  chain,     \* Seq of [call, ins, outs, changes]
  seen,      \* how much of the chain the client has seen: [outs, nulls, tree]
  pc,        \* pc[c]: where call c is
  plan,      \* plan[c]: its local variables
  net,       \* net[c]: its transaction at the relayer or in the mempool
  allowance  \* ERC-20 allowance of the client's wallet for the contract

vars == <<client, chain, seen, pc, plan, net, allowance>>

\* wellFormed stands for the checks of chains and of the recipient's format.
NoRequest == [kind |-> "none", toks |-> <<>>, chs |-> <<>>, feeTok |-> "none",
              source |-> NoId, wellFormed |-> TRUE]

NoPlan == [req  |-> NoRequest,
           ask  |-> <<>>,            \* amountChanges before the fee
           toks |-> <<>>,            \* erc20Addresses
           chs  |-> <<>>,            \* amountChanges
           fee  |-> ZeroFee("none"),
           view |-> [outs |-> 0, nulls |-> 0],
           ins  |-> <<>>,            \* inputUtxosArray
           outs |-> <<>>,            \* outputUtxosArray
           root |-> 0,               \* rootHashHinkal
           rootFrom |-> "none",
           approved |-> 0,           \* the last token it set out to approve
           err  |-> "none"]

\* What the chain holds up to transaction k.
UtxosUpTo(k) == UNION {{i} \X DOMAIN chain[i].outs : i \in 1 .. k}
SpentUpTo(k) == UNION {chain[i].ins : i \in 1 .. k}
OutputAt(id) == chain[id[1]].outs[id[2]]
Spent        == SpentUpTo(Len(chain))

\* GetInputUtxoAndBalancePerToken: the unspent UTXOs of token t in a view,
\* for the client's keys.
UnspentIn(view, t) ==
  {[id |-> id, amt |-> OutputAt(id).amt] :
     id \in {u \in UtxosUpTo(view.outs) \ SpentUpTo(view.nulls) :
               OutputAt(u).owner = "user" /\ OutputAt(u).token = t}}

Init ==
  /\ client \in Clients
  /\ chain = << [call |-> "genesis", ins |-> {},
                 outs |-> [x \in GenesisPlaces(client.utxos) |-> client.utxos[x[2]]],
                 changes |-> <<>>] >>
  /\ seen = [outs |-> 1, nulls |-> 1, tree |-> 1]
  /\ pc = [c \in Calls |-> "idle"]
  /\ plan = [c \in Calls |-> NoPlan]
  /\ net = [c \in Calls |-> "none"]
  /\ allowance = [t \in Tokens |-> 0]

Fail(c, err) ==
  /\ pc' = [pc EXCEPT ![c] = "failed"]
  /\ plan' = [plan EXCEPT ![c].err = err]
  /\ UNCHANGED <<client, chain, seen, net, allowance>>

Goto(c, label, p) ==
  /\ pc' = [pc EXCEPT ![c] = label]
  /\ plan' = [plan EXCEPT ![c] = p]
  /\ UNCHANGED <<client, chain, seen, net, allowance>>

-----------------------------------------------------------------------------
\* What the client learns of the chain, in three independent copies.
SeeOutputs ==
  /\ seen.outs < Len(chain)
  /\ seen' = [seen EXCEPT !.outs = @ + 1]
  /\ UNCHANGED <<client, chain, pc, plan, net, allowance>>

SeeNullifiers ==
  /\ seen.nulls < Len(chain)
  /\ seen' = [seen EXCEPT !.nulls = @ + 1]
  /\ UNCHANGED <<client, chain, pc, plan, net, allowance>>

SeeTree ==
  /\ seen.tree < Len(chain)
  /\ seen' = [seen EXCEPT !.tree = @ + 1]
  /\ UNCHANGED <<client, chain, pc, plan, net, allowance>>

-----------------------------------------------------------------------------
(***************************************************************************)
(* A call begins: the checks on its arguments, and for a claim on the      *)
(* UTXO it was given; then, for a withdrawal or a transfer, the amounts of *)
(* volatile tokens are replaced by what a simulated transfer moves (0      *)
(* where the simulation has no answer).  Deposits and withdrawals without  *)
(* relayer pay no fee.                                                     *)
(***************************************************************************)
ValidRequest(r) ==
  /\ r.wellFormed /\ r.toks # <<>>
  /\ r.kind \in {"withdraw", "withdrawDirect", "transfer"} => Len(r.toks) = Len(r.chs)
  /\ r.kind = "claim" =>
       /\ Len(r.toks) = 1
       /\ OutputAt(r.source).owner = "claimable"
       /\ OutputAt(r.source).token = r.toks[1]
       /\ r.feeTok = r.toks[1]

SimulatedTransfers(r) ==
  {sim \in [DOMAIN r.chs -> {0} \cup {r.chs[i] + 1 : i \in DOMAIN r.chs}] :
     \A i \in DOMAIN r.chs :
       sim[i] # 0 => /\ r.kind \in {"withdraw", "withdrawDirect", "transfer"}
                     /\ r.toks[i] \in Volatile
                     /\ sim[i] = r.chs[i] + 1}

ModifyVolatileTokenAmountChanges(chs, sim) ==
  [i \in DOMAIN chs |-> IF sim[i] # 0 THEN sim[i] ELSE chs[i]]

Begin(c, r, sim) ==
  LET ask == ModifyVolatileTokenAmountChanges(r.chs, sim)
  IN  /\ pc[c] = "idle"
      /\ IF ValidRequest(r)
         THEN Goto(c, IF PaysFee(r.kind) THEN "fee" ELSE "select",
                   [NoPlan EXCEPT !.req = r, !.ask = ask, !.toks = r.toks, !.chs = ask])
         ELSE Fail(c, "invalid")

\* The raw fee structure: a gas estimate with the rate of the flow, or an
\* override of the caller.
GetFeeStructure(feeTok, flat, rate) == [token |-> feeTok, flat |-> flat, rate |-> rate]

\* resolveWithdrawFeeStructure, resolveTransferFeeStructure; a swap leaves
\* the variable part to the contract.
WithdrawFee(p, raw, cross) ==
  CalculateModifiedFeeStructure(p.toks[1], -p.chs[1], raw, cross)

TransferFee(p, raw, cross) ==
  CalculateModifiedFeeStructure(p.toks[1], -p.chs[1], PrivateSendFeeStructure(raw), cross)

SwapFee(p, raw, cross) == raw

FeeOfFlow(p, raw, cross) ==
  CASE p.req.kind = "withdraw" -> WithdrawFee(p, raw, cross)
    [] p.req.kind = "transfer" -> TransferFee(p, raw, cross)
    [] p.req.kind = "swap"     -> SwapFee(p, raw, cross)

WithFee(p, fee) ==
  LET merged == MergeWithFeeStructure(p.toks, p.chs, fee)
  IN  [p EXCEPT !.fee = fee, !.toks = merged.toks, !.chs = merged.chs]

\* The fee of the flow, then MergeWithFeeStructure.
ResolveFee(c, raw, cross) ==
  LET p   == plan[c]
      fee == FeeOfFlow(p, raw, cross)
  IN  /\ pc[c] = "fee" /\ p.req.kind # "claim"
      /\ IF FeeOverTransactionValue(p.toks, p.chs, fee)
         THEN Fail(c, "fee")
         ELSE Goto(c, "select", WithFee(p, fee))

\* HinkalClaimUtxo up to the proof: the UTXO and a padding one go in, what
\* the fee leaves of it comes out for the client.
ClaimUtxo(c, raw) ==
  LET p      == plan[c]
      source == [id |-> p.req.source, amt |-> OutputAt(p.req.source).amt]
      fee    == [token |-> raw.token, flat |-> ClaimFee(source.amt, raw), rate |-> 0]
      row    == <<source, Pad>>
      gets   == [owner |-> "user", token |-> p.toks[1], amt |-> source.amt - fee.flat]
  IN  /\ pc[c] = "fee" /\ p.req.kind = "claim"
      /\ IF ~ClaimPays(source.amt, raw)
         THEN Fail(c, "funds")
         ELSE Goto(c, "root",
                   [p EXCEPT !.fee = fee, !.chs = << -source.amt >>, !.ins = <<row>>,
                             !.outs = << OutputUtxoProcessing(row, p.toks[1], -source.amt,
                                                              "claimable", <<gets>>) >>])

-----------------------------------------------------------------------------
\* The output for the recipient of a transfer: of its first token only.
RecipientOutput(p, i) ==
  IF p.req.kind = "transfer" /\ i = 1
  THEN << [owner |-> "other", token |-> p.toks[1], amt |-> -p.ask[1]] >>
  ELSE <<>>

\* getInputAndOutputUtxos, getTransferInputAndOutputUtxos.
SelectUtxos(c) ==
  LET p    == plan[c]
      view == [outs |-> seen.outs, nulls |-> seen.nulls]
      rows == [i \in DOMAIN p.toks |-> SortAndPadUtxos(UnspentIn(view, p.toks[i]))]
      ins  == AddPaddingToUtxos(rows)
      outs == [i \in DOMAIN p.toks |->
                 OutputUtxoProcessing(ins[i], p.toks[i], p.chs[i], "user",
                                      RecipientOutput(p, i))]
      next == [p EXCEPT !.view = view, !.ins = ins, !.outs = outs]
  IN  /\ pc[c] = "select" /\ p.req.kind # "depositForOther"
      /\ IF OverLimit(rows, p.chs)
         THEN Goto(c, "failed", [p EXCEPT !.view = view, !.err = "limit"])
         ELSE IF \E i \in DOMAIN ins : InsufficientFunds(ins[i], p.chs[i])
         THEN Goto(c, "failed", [p EXCEPT !.view = view, !.err = "funds"])
         ELSE Goto(c, "root", next)

\* recipientInputOutputUtxos: nothing of the client is spent.
RecipientInputOutputUtxos(c) ==
  LET p == plan[c]
  IN  /\ pc[c] = "select" /\ p.req.kind = "depositForOther"
      /\ Goto(c, "root",
              [p EXCEPT !.ins  = [i \in DOMAIN p.toks |-> <<Pad, Pad>>],
                        !.outs = [i \in DOMAIN p.toks |->
                                    << [owner |-> "other", token |-> p.toks[i],
                                        amt |-> p.chs[i]] >>]])

-----------------------------------------------------------------------------
\* A mutant: the local tree is taken as it is.
TrustLocalTree == TRUE

\* areLocalTreesUpToDate: the root of the local tree is the contract's, which
\* the node is taken to answer with.
AreLocalTreesUpToDate == seen.tree = Len(chain)

HandleLocalMerkleTrees(c) ==
  /\ pc[c] = "root"
  /\ AreLocalTreesUpToDate
  /\ Goto(c, "prove", [plan[c] EXCEPT !.root = seen.tree, !.rootFrom = "local"])

\* The comparison failed, or could not be made; the snapshot server answers
\* with the root it has.
HandleRemoteMerkleTrees(c, k) ==
  /\ pc[c] = "root"
  /\ k \in 1 .. Len(chain)
  /\ Goto(c, "prove", [plan[c] EXCEPT !.root = k, !.rootFrom = "remote"])

\* There is no proof for an input that is not under the root.
Provable(p) == BuildInNullifiers(p.ins) \subseteq UtxosUpTo(p.root)

IsDirect(kind) == kind \in {"withdrawDirect", "deposit", "depositForOther"}

\* The prover is given the files of a circuit and the rows: it has no proof
\* where there are no such files, or the rows are not what the circuit takes.
ConstructZkProof(c) ==
  LET p == plan[c]
  IN  /\ pc[c] = "prove"
      /\ IF ~Provable(p)
         THEN Fail(c, "proof")
         ELSE IF ~HasCircuit(EvmCircuits, p.ins, p.outs)
         THEN Fail(c, "circuit")
         ELSE Goto(c, IF IsDirect(p.req.kind) THEN "approve" ELSE "send", p)

(***************************************************************************)
(* ApproveTokensToHinkal, token by token: an allowance that is large       *)
(* enough is left alone, another one is replaced, after a reset to 0 where *)
(* the token wants it.  A reverted approval is an error of                 *)
(* WaitForTransaction (RequestFails); WaitForErc20Approvals lets the call  *)
(* go on whether it saw the allowances or gave up.                         *)
(***************************************************************************)
Required(p, i) ==
  IF IsDirect(p.req.kind) /\ p.chs[i] > 0 /\ p.toks[i] \notin Native THEN p.chs[i] ELSE 0

\* A mutant: the loop begins with the second token.
ShortFromSecond(p) ==
  {i \in p.approved + 2 .. Len(p.toks) : allowance[p.toks[i]] < Required(p, i)}

\* The tokens from the next one on whose allowance is too small.
Short(p) ==
  {i \in p.approved + 1 .. Len(p.toks) : allowance[p.toks[i]] < Required(p, i)}

ReadAllowances(c) ==
  LET p == plan[c]
      t == p.toks[Min(Short(p))]
  IN  /\ pc[c] = "approve"
      /\ IF Short(p) = {}
         THEN Goto(c, "send", p)
         ELSE Goto(c, IF t \in ResetFirst /\ allowance[t] > 0 THEN "reset" ELSE "approving",
                   [p EXCEPT !.approved = Min(Short(p))])

\* An approve transaction of the wallet is mined.
ApproveCall(c, amount, label) ==
  /\ pc' = [pc EXCEPT ![c] = label]
  /\ allowance' = [allowance EXCEPT ![plan[c].toks[plan[c].approved]] = amount]
  /\ UNCHANGED <<client, chain, seen, plan, net>>

ResetAllowance(c) == pc[c] = "reset" /\ ApproveCall(c, 0, "approving")

ApproveTokenToHinkal(c) ==
  /\ pc[c] = "approving"
  /\ ApproveCall(c, Required(plan[c], plan[c].approved), "approve")

\* The request of TransactCallRelayer, or SendTransaction.
Send(c) ==
  /\ pc[c] = "send"
  /\ pc' = [pc EXCEPT ![c] = "sent"]
  /\ net' = [net EXCEPT ![c] = "pending"]
  /\ UNCHANGED <<client, chain, seen, plan, allowance>>

\* Its answer, which does not wait for the transaction and may get lost after
\* the transaction was sent.
Answer(c) ==
  /\ pc[c] = "sent"
  /\ \/ pc' = [pc EXCEPT ![c] = "done"] /\ UNCHANGED <<client, chain, seen, plan, net, allowance>>
     \/ Fail(c, "answer")

\* A request on the way fails: fees, relay, siblings, prover, wallet.
RequestFails(c) ==
  /\ pc[c] \in {"fee", "select", "root", "prove", "approve", "reset", "approving", "send"}
  /\ Fail(c, "request")

-----------------------------------------------------------------------------
(***************************************************************************)
(* The contract (external): it accepts a proof of new nullifiers, and      *)
(* takes what a direct call puts in from the wallet.                       *)
(***************************************************************************)
FromAllowance(p, t) ==
  SumFunctionOnSet([i \in DOMAIN p.toks |-> Required(p, i)], {i \in DOMAIN p.toks : p.toks[i] = t})

Accepts(p) ==
  /\ BuildInNullifiers(p.ins) \cap Spent = {}
  /\ \A t \in Tokens : FromAllowance(p, t) <= allowance[t]

Settle(c) ==
  LET p == plan[c]
  IN  /\ net[c] = "pending"
      /\ IF Accepts(p)
         THEN /\ chain' = Append(chain, [call    |-> c,
                                         ins     |-> BuildInNullifiers(p.ins),
                                         outs    |-> BuildOutCommitments(p.outs),
                                         changes |-> CalcAmountChanges(p.ins, p.outs)])
              /\ allowance' = [t \in Tokens |-> allowance[t] - FromAllowance(p, t)]
              /\ net' = [net EXCEPT ![c] = "executed"]
         ELSE /\ net' = [net EXCEPT ![c] = "rejected"]
              /\ UNCHANGED <<chain, allowance>>
      /\ UNCHANGED <<client, seen, pc, plan>>

Next ==
  \/ SeeOutputs \/ SeeNullifiers \/ SeeTree
  \/ \E c \in Calls :
       \/ \E r \in client.requests : \E sim \in SimulatedTransfers(r) : Begin(c, r, sim)
       \/ \E q \in client.quotes :
            LET raw == GetFeeStructure(plan[c].req.feeTok, q.flat, q.rate)
            IN  ResolveFee(c, raw, q.cross) \/ ClaimUtxo(c, raw)
       \/ SelectUtxos(c)
       \/ RecipientInputOutputUtxos(c)
       \/ HandleLocalMerkleTrees(c)
       \/ \E k \in 1 .. Len(chain) : HandleRemoteMerkleTrees(c, k)
       \/ ConstructZkProof(c)
       \/ ReadAllowances(c)
       \/ ResetAllowance(c)
       \/ ApproveTokenToHinkal(c)
       \/ Send(c)
       \/ Answer(c)
       \/ RequestFails(c)
       \/ Settle(c)

Spec == Init /\ [][Next]_vars

-----------------------------------------------------------------------------
\* What a set of UTXOs is worth, and what of it is an owner's, in a token.
Worth(ids) == SumFunctionOnSet([id \in ids |-> OutputAt(id).amt], ids)

In(ids, t) == {id \in ids : OutputAt(id).token = t}
Of(ids, owner) == {id \in ids : OutputAt(id).owner = owner}

Created(i) == {i} \X DOMAIN chain[i].outs

\* What transaction i brings to an owner, and to the pool, in token t.
OwnerGains(i, owner, t) ==
  Worth(In(Of(Created(i), owner), t)) - Worth(In(Of(chain[i].ins, owner), t))

PoolGains(i, t) ==
  LET toks == plan[chain[i].call].toks
  IN  SumFunctionOnSet(chain[i].changes, {k \in DOMAIN toks : toks[k] = t})

(***************************************************************************)
(* A transaction that the contract accepts does what the caller asked for, *)
(* in every token and for every party: the client pays the amount and the  *)
(* fee of its flow and keeps the change, the recipient gets the amount,    *)
(* the relay the fee.  Transfers of one token are meant; one of several    *)
(* has no proof (FitsCircuit).                                             *)
(***************************************************************************)
Asked(p, t) == SumFunctionOnSet(p.ask, {i \in DOMAIN p.ask : p.req.toks[i] = t})
FeeIn(p, t) == IF p.fee.token = t THEN p.fee.flat ELSE 0

ExecutedAsRequested ==
  \A i \in 2 .. Len(chain) : \A t \in Tokens :
    LET p   == plan[chain[i].call]
        ask == Asked(p, t)
        fee == FeeIn(p, t)
        src == IF p.req.kind = "claim" /\ p.toks[1] = t THEN OutputAt(p.req.source).amt ELSE 0
        is(user, other, claimable, pool) ==
          /\ OwnerGains(i, "user", t) = user
          /\ OwnerGains(i, "other", t) = other
          /\ OwnerGains(i, "claimable", t) = claimable
          /\ PoolGains(i, t) = pool
    IN  /\ p.req.kind = "transfer" /\ Len(p.req.toks) = 1 => is(ask - fee, -ask, 0, -fee)
        /\ p.req.kind = "depositForOther" => is(0, ask, 0, ask)
        /\ p.req.kind = "claim" => is(src - fee, 0, -src, -fee)
        /\ p.req.kind \in {"withdraw", "withdrawDirect", "swap", "deposit"} =>
             is(ask - fee, 0, 0, ask - fee)

(***************************************************************************)
(* The pool holds what the unspent UTXOs are worth, whatever runs side by  *)
(* side: no amount is created by padding, by change or by a UTXO spent by  *)
(* two calls.                                                              *)
(***************************************************************************)
Conservation ==
  \A t \in Tokens :
    Worth(In(UtxosUpTo(Len(chain)) \ Spent, t))
      = Worth(In(Created(1), t))
        + SumFunctionOnSet([i \in 2 .. Len(chain) |-> PoolGains(i, t)], 2 .. Len(chain))

(***************************************************************************)
(* A call that is repeated, or made beside another, before the client has  *)
(* seen the effect of the first does not take effect as well: all flows    *)
(* put the largest UTXOs of a token first, so two calls that chose in the  *)
(* same token from the same view exclude each other on the chain.          *)
(***************************************************************************)
ChoosesUtxos(p) == p.req.kind \in {"withdraw", "withdrawDirect", "transfer", "swap", "deposit"}

AtMostOncePerView ==
  \A i, j \in 2 .. Len(chain) :
    LET p == plan[chain[i].call]
        q == plan[chain[j].call]
    IN  i # j /\ ChoosesUtxos(p) /\ ChoosesUtxos(q) /\ p.view = q.view =>
          \A t \in Range(p.toks) \cap Range(q.toks) : UnspentIn(p.view, t) = {}

(***************************************************************************)
(* The contract turns a transaction down only because of another call (one *)
(* that spent one of its inputs, or a deposit that replaced or used up the *)
(* allowance both relied on).                                              *)
(***************************************************************************)
RejectedOnlyByConflict ==
  \A c \in Calls : net[c] = "rejected" =>
    \/ BuildInNullifiers(plan[c].ins) \cap Spent # {}
    \/ \E d \in Calls \ {c} : \E t \in Tokens :
         /\ net[d] = "executed" \/ plan[d].approved > 0
         /\ FromAllowance(plan[d], t) > 0 /\ FromAllowance(plan[c], t) > 0

(***************************************************************************)
(* However many UTXOs the client has of each token, the rows of a call fit *)
(* a circuit; but for a transfer that spends a second token (of its own,   *)
(* or the fee in another one), where only the first row has an output for  *)
(* the recipient, and for more tokens than any circuit has.                *)
(***************************************************************************)
FitsCircuit ==
  \A c \in Calls : plan[c].err = "circuit" =>
    \/ plan[c].req.kind = "transfer" /\ Len(plan[c].toks) > 1
    \/ Len(plan[c].toks) > 5

(***************************************************************************)
(* A call is refused for lack of funds (or for the limit of six inputs)    *)
(* only if no six UTXOs that the client knows in some token would pay for  *)
(* what leaves it; and never because the amounts of the proof, which are   *)
(* computed from inputs and outputs again, differ from those asked for     *)
(* (EnsureAmountChanges, on Solana).                                       *)
(***************************************************************************)
RefusedOnlyIfUnpayable ==
  \A c \in Calls :
    /\ plan[c].err # "amounts"
    /\ plan[c].err \in {"funds", "limit"} /\ plan[c].req.kind # "claim" =>
         \E i \in DOMAIN plan[c].toks :
           \A S \in SUBSET UnspentIn(plan[c].view, plan[c].toks[i]) :
             Cardinality(S) <= MaxInput =>
               SumFunctionOnSet([u \in S |-> u.amt], S) + plan[c].chs[i] < 0

(***************************************************************************)
(* A local root that passed the comparison with the contract's covers all  *)
(* inputs, although they were chosen before, from outputs that may have    *)
(* been ahead of the local tree.  Only a snapshot server that lags makes a *)
(* proof impossible.                                                       *)
(***************************************************************************)
LocalRootCovers ==
  \A c \in Calls : plan[c].rootFrom = "local" => plan[c].err # "proof"
=============================================================================
