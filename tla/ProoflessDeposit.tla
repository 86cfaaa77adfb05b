-------------------------- MODULE ProoflessDeposit --------------------------
(***************************************************************************)
(* Deposits without a proof (transactions/proofless_deposit.go and         *)
(* solana_deposit.go) with the Tron helpers they use (functions/tron): a   *)
(* public wallet pays several amounts into the pool, one UTXO for every    *)
(* stealth address, in one transaction, through the wrapper contract when  *)
(* a public fee goes with it.                                              *)
(*                                                                         *)
(* EVM and Tron contracts pull tokens from the wallet's allowance, so they *)
(* are approved first.  On EVM an approval is awaited; on Tron it is only  *)
(* broadcast, but the deposit is simulated before it is sent.  Solana      *)
(* needs no approval; a transaction whose blockhash is unknown is built    *)
(* and sent again.  Wallets, nodes and contracts are external.             *)
(*                                                                         *)
(* A Tron transaction uses up the wallet's free energy and bandwidth       *)
(* (counted in sun, as one resource) and burns its native token for the    *)
(* rest.  All calls share what is free; it comes back with time.           *)
(***************************************************************************)
EXTENDS Integers, Sequences, FiniteSetsExt, Functions

CONSTANTS
  Calls,
  Chains,       \* kinds of chains: [net, wrapper], wrapper if it has a HinkalWrapper
  Tokens,
  Native,       \* the token that goes along with the call
  ResetFirst,   \* tokens whose allowance is set to 0 first (USDT)
  Requests,
  Funds,        \* what the wallet holds of each token
  Allowances,   \* allowances the wallet starts with
  Word,         \* 2^64: what Uint64() and Int64() take an amount modulo
  FeeLimit,     \* TronDefaultFeeLimitSun
  Padding,      \* TronFeePaddingBps, of PaddingBase
  PaddingBase,
  Costs,        \* energy and bandwidth that a Tron transaction may need
  FreeEnergy,   \* what of it the wallet has free
  MaxSends      \* solanaBlockheightExpiredRetryCount

ASSUME ProoflessAssumption ==
  /\ Native \in Tokens /\ ResetFirst \subseteq Tokens
  /\ Word \in Nat \ {0} /\ MaxSends \in Nat \ {0}
  /\ FeeLimit \in Nat /\ Costs \subseteq Nat /\ FreeEnergy \in Nat
  /\ Padding \in Nat /\ PaddingBase \in Nat \ {0}
  /\ Funds \in [Tokens -> 0 .. Word - 1]
  /\ Allowances \subseteq [Tokens -> Nat]
  /\ Requests \subseteq [entry : {"plain", "fee", "own", "other"},
                          toks : Seq(Tokens), amts : Seq(Nat), keys : Seq(Int),
                          feeTok : Tokens, fee : Nat, dataOnly : BOOLEAN]

VARIABLES
  chain,      \* the chain all of this happens on
  wallet,     \* the wallet's balances
  allowance,  \* allowance[s][t]: what spender s may pull of t
  pc, plan,   \* where call c is, and its local variables
  pending,    \* Tron approvals that were broadcast
  tx,         \* tx[c][k]: the k-th deposit transaction of c
  utxos,      \* UTXOs that deposits created: [call, send, slot, key, tok, amt]
  fees,       \* public fees that were paid: [call, send, amt]
  energy,     \* energy and bandwidth the wallet has free
  approvalCost, depositCost  \* what the Tron approvals and the deposit of c needed of it

tronVars == <<energy, approvalCost, depositCost>>
prooflessVars == <<chain, wallet, allowance, pc, plan, pending, tx, utxos, fees, tronVars>>

Spenders == {"hinkal", "wrapper"}
Pulled == Tokens \ {Native}

NoRequest == [entry |-> "plain", toks |-> <<>>, amts |-> <<>>, keys |-> <<>>,
              feeTok |-> Native, fee |-> 0, dataOnly |-> FALSE]

NoPlan == [req     |-> NoRequest,
           spender |-> "hinkal",
           fee     |-> 0,                       \* fee that goes with the deposit
           need    |-> [t \in Tokens |-> 0],    \* approvals; the call's value for Native
           tok     |-> Native,                  \* the token it is approving
           handled |-> {},                      \* tokens it is through with
           before  |-> [t \in Tokens |-> 0],    \* allowance it found, for NoStandingAllowance
           covered |-> 0,                       \* what it found free or set aside for its Tron call
           sends   |-> 0,
           err     |-> "none"]

Init ==
  /\ chain \in Chains
  /\ wallet = Funds
  /\ allowance \in [Spenders -> Allowances]
  /\ pc = [c \in Calls |-> "idle"]
  /\ plan = [c \in Calls |-> NoPlan]
  /\ pending = {}
  /\ tx = [c \in Calls |-> [k \in 1 .. MaxSends |-> "none"]]
  /\ utxos = {} /\ fees = {}
  /\ energy = FreeEnergy
  /\ approvalCost = [c \in Calls |-> 0] /\ depositCost = [c \in Calls |-> 0]

Goto(c, label, p) ==
  /\ pc' = [pc EXCEPT ![c] = label]
  /\ plan' = [plan EXCEPT ![c] = p]

Fail(c, err) == Goto(c, "failed", [plan[c] EXCEPT !.err = err])

-----------------------------------------------------------------------------
(***************************************************************************)
(* Arguments.                                                              *)
(***************************************************************************)
\* assertNoDuplicateStealthAddressStructures.
NoDuplicates(keys) == \A i, j \in DOMAIN keys : keys[i] = keys[j] => i = j

\* Structures that are not given are made from the user's keys, each with
\* its own randomization.
GetProoflessStealthAddressStructures(r) ==
  [r EXCEPT !.keys = IF @ = <<>> THEN [i \in DOMAIN r.toks |-> -i] ELSE @]

AssertWrapperArgLengths(r) == Len(r.toks) = Len(r.amts) /\ Len(r.amts) = Len(r.keys)

ValidPlain(r) ==
  /\ r.toks # <<>>
  /\ Len(r.toks) = Len(r.amts) /\ Len(r.keys) = Len(r.toks)
  /\ NoDuplicates(r.keys)

ValidWithFee(r) == AssertWrapperArgLengths(r) /\ NoDuplicates(r.keys)

\* validateSolanaDepositArgs.
ValidateSolanaDepositArgs(r) ==
  /\ r.amts # <<>> /\ Len(r.amts) = Len(r.keys)
  /\ \A i \in DOMAIN r.amts : r.amts[i] > 0
  /\ NoDuplicates(r.keys)

OneMint(r) == Len(r.toks) = Len(r.amts) /\ \A i \in DOMAIN r.toks : r.toks[i] = r.toks[1]

\* A plausible slip: each listing of a token is approved by itself.
LargestAmount(r, t) ==
  LET amts == {r.amts[i] : i \in {j \in DOMAIN r.toks : r.toks[j] = t}}
  IN  IF amts = {} THEN 0 ELSE Max(amts)

\* aggregateAmountsForApproval and SplitTokensByNative: a token that is
\* listed more than once is approved once, for the sum.
AggregateAmountsForApproval(r, t) ==
  SumFunctionOnSet(r.amts, {i \in DOMAIN r.toks : r.toks[i] = t})

\* A plausible slip: every listing of the fee token adds the fee.
ApproveFeePerSlot(r) ==
  [t \in Tokens |-> AggregateAmountsForApproval(r, t)
                    + r.fee * Cardinality({i \in DOMAIN r.toks : r.toks[i] = t})]

\* buildWrapperApprovalInputs: the fee adds to the approval, or to the call
\* value when it is native.  Its token is the one that is deposited.
BuildWrapperApprovalInputs(r) ==
  [t \in Tokens |-> AggregateAmountsForApproval(r, t)
                    + IF r.feeTok = t THEN r.fee ELSE 0]

\* Call c is planned with spender, fee and approvals, or refused.
Enter(c, r, valid, spender, label) ==
  LET p == [NoPlan EXCEPT !.req = r, !.fee = r.fee, !.spender = spender,
                          !.before = allowance[spender]]
  IN  /\ pc[c] = "idle"
      /\ IF valid THEN Goto(c, label, [p EXCEPT !.need = BuildWrapperApprovalInputs(r)])
                  ELSE Goto(c, "failed", [p EXCEPT !.err = "invalid"])
      /\ UNCHANGED <<chain, wallet, allowance, pending, tx, utxos, fees, tronVars>>

\* A caller that wants the data only gets them before anything is approved.
HinkalProoflessDeposit(c, asked) ==
  LET r == GetProoflessStealthAddressStructures(asked)
  IN  /\ chain.net = "evm" /\ r.entry = "plain"
      /\ Enter(c, r, ValidPlain(r), "hinkal", IF r.dataOnly THEN "returned" ELSE "approve")

HinkalTronProoflessDeposit(c, asked) ==
  LET r == GetProoflessStealthAddressStructures(asked)
  IN  /\ chain.net = "tron" /\ r.entry = "plain"
      /\ Enter(c, r, ValidPlain(r) /\ ~r.dataOnly, "hinkal", "approve")

\* Without a wrapper the deposit goes out without its fee.
HinkalProoflessDepositWithPublicFee(c, r) ==
  /\ chain.net = "evm" /\ r.entry = "fee"
  /\ \/ chain.wrapper /\ Enter(c, r, ValidWithFee(r), "wrapper", "relay")
     \/ /\ ~chain.wrapper
        /\ Enter(c, [r EXCEPT !.fee = 0], ValidWithFee(r) /\ ValidPlain(r), "hinkal", "approve")

HinkalTronProoflessDepositWithPublicFee(c, r) ==
  /\ chain.net = "tron" /\ r.entry = "fee"
  /\ Enter(c, r, ValidWithFee(r) /\ chain.wrapper, "wrapper", "relay")

HinkalSolanaProoflessDeposit(c, asked) ==
  LET r == GetProoflessStealthAddressStructures(asked)
  IN  /\ chain.net = "solana" /\ r.entry = "plain"
      /\ Enter(c, r, OneMint(r) /\ ValidateSolanaDepositArgs(r), "hinkal",
               IF r.dataOnly THEN "returned" ELSE "send")

\* This one and the next two take one token, for all amounts.
HinkalSolanaProoflessDepositWithPublicFee(c, r) ==
  /\ chain.net = "solana" /\ r.entry = "fee" /\ OneMint(r)
  /\ Enter(c, r, ValidateSolanaDepositArgs(r), "hinkal", "relay")

\* HinkalSolanaDeposit: one amount, one structure of the user's own.
HinkalSolanaDeposit(c, asked) ==
  LET r == GetProoflessStealthAddressStructures(asked)
  IN  /\ chain.net = "solana" /\ r.entry = "own" /\ OneMint(r)
      /\ Enter(c, r, ValidateSolanaDepositArgs(r), "hinkal",
               IF r.dataOnly THEN "returned" ELSE "send")

\* For another user the structure is made from that user's address, if it is
\* one (<<>> if not).
HinkalSolanaDepositForOther(c, r) ==
  /\ chain.net = "solana" /\ r.entry = "other" /\ OneMint(r)
  /\ Enter(c, r, r.keys # <<>> /\ ValidateSolanaDepositArgs(r), "hinkal",
           IF r.dataOnly THEN "returned" ELSE "send")

Begin(c, r) ==
  \/ HinkalProoflessDeposit(c, r) \/ HinkalProoflessDepositWithPublicFee(c, r)
  \/ HinkalTronProoflessDeposit(c, r) \/ HinkalTronProoflessDepositWithPublicFee(c, r)
  \/ HinkalSolanaProoflessDeposit(c, r) \/ HinkalSolanaProoflessDepositWithPublicFee(c, r)
  \/ HinkalSolanaDeposit(c, r) \/ HinkalSolanaDepositForOther(c, r)

\* The fee goes to a random relay; on Solana it has to fit its word.
PickRelay(c, found) ==
  LET r == plan[c].req
  IN  /\ pc[c] = "relay"
      /\ IF found /\ (chain.net = "solana" => r.fee < Word)
         THEN Goto(c, IF chain.net = "solana" THEN "send" ELSE "approve", plan[c])
         ELSE Fail(c, "relay")
      /\ UNCHANGED <<chain, wallet, allowance, pending, tx, utxos, fees, tronVars>>

-----------------------------------------------------------------------------
(***************************************************************************)
(* Approvals.                                                              *)
(***************************************************************************)
\* Tokens whose allowance is too small and that were not approved yet.
Short(c) ==
  {t \in Pulled \ plan[c].handled : allowance[plan[c].spender][t] < plan[c].need[t]}

\* approveTokenToHinkal reads the allowance, one token after the other.
NextApproval(c) ==
  /\ pc[c] = "approve" /\ chain.net = "evm"
  /\ IF Short(c) = {}
     THEN Goto(c, "send", plan[c])
     ELSE \E t \in Short(c) :
            Goto(c, IF t \in ResetFirst /\ allowance[plan[c].spender][t] > 0
                    THEN "reset" ELSE "approving",
                 [plan[c] EXCEPT !.tok = t, !.handled = @ \union {t}])
  /\ UNCHANGED <<chain, wallet, allowance, pending, tx, utxos, fees, tronVars>>

\* A token of ResetFirst replaces an allowance by 0 only, or from 0.
MaySet(s, t, amount) == t \in ResetFirst => amount = 0 \/ allowance[s][t] = 0

\* An approval of the wallet is mined; a reverted one is an error of
\* WaitForTransaction (RequestFails).
Approve(c, amount, label) ==
  LET p == plan[c]
  IN  /\ MaySet(p.spender, p.tok, amount)
      /\ allowance' = [allowance EXCEPT ![p.spender][p.tok] = amount]
      /\ Goto(c, label, p)
      /\ UNCHANGED <<chain, wallet, pending, tx, utxos, fees, tronVars>>

ResetApproval(c) == pc[c] = "reset" /\ Approve(c, 0, "approving")

ApproveTokenToHinkal(c) ==
  pc[c] = "approving" /\ Approve(c, plan[c].need[plan[c].tok], "approve")

\* tron.ApproveTokens: an approval is broadcast and not awaited.
BroadcastApproval(c) ==
  /\ pc[c] = "approve" /\ chain.net = "tron"
  /\ \E t \in Short(c) :
       /\ pending' = pending \union
            {[call |-> c, spender |-> plan[c].spender, tok |-> t, amt |-> plan[c].need[t]]}
       /\ Goto(c, "approve", [plan[c] EXCEPT !.handled = @ \union {t}])
  /\ UNCHANGED <<chain, wallet, allowance, tx, utxos, fees, tronVars>>

\* WaitForTronErc20Approvals ends without an error, whether it saw the
\* allowances or gave up.
WaitForTronErc20Approvals(c) ==
  /\ pc[c] = "approve" /\ chain.net = "tron"
  /\ Short(c) = {}
  /\ Goto(c, "simulate", plan[c])
  /\ UNCHANGED <<chain, wallet, allowance, pending, tx, utxos, fees, tronVars>>

-----------------------------------------------------------------------------
(***************************************************************************)
(* The contracts.  A deposit pulls what its call data say, creates the     *)
(* UTXOs and pays the fee, all of it or nothing.                           *)
(***************************************************************************)
\* encodeMultiPaymentDepositData: a Solana amount is cut to its word.
EncodedAmounts(r) ==
  IF chain.net = "solana" THEN [i \in DOMAIN r.amts |-> r.amts[i] % Word] ELSE r.amts

Charge(p, t) ==
  SumFunctionOnSet(EncodedAmounts(p.req), {i \in DOMAIN p.req.toks : p.req.toks[i] = t})
  + IF p.req.feeTok = t THEN p.fee ELSE 0

Accepts(p, value) ==
  /\ \A t \in Tokens : Charge(p, t) <= wallet[t]
  /\ chain.net # "solana" =>
       /\ \A t \in Pulled : Charge(p, t) <= allowance[p.spender][t]
       /\ value = Charge(p, Native)

\* callValueSun.Int64().
SentValue(p) == IF chain.net = "tron" THEN p.need[Native] % Word ELSE p.need[Native]

\* SimulateTronTransaction.
SimulateTronTransaction(c) ==
  /\ pc[c] = "simulate"
  /\ \/ Accepts(plan[c], plan[c].need[Native]) /\ Goto(c, "balance", plan[c])
     \/ Fail(c, "simulation")
  /\ UNCHANGED <<chain, wallet, allowance, pending, tx, utxos, fees, tronVars>>

\* availableResource, and what is payable: never below 0.
Excess(a, b) == IF a > b THEN a - b ELSE 0

Lesser(a, b) == IF a <= b THEN a ELSE b

\* What a call that needs use will burn beyond what is free at this moment,
\* padded and capped at its limit.
EstimateTronFeeSunWithPadding(use) ==
  LET payable == Excess(use, energy)
  IN  Lesser(payable + (payable * Padding) \div PaddingBase, FeeLimit)

\* The wallet has to hold the value and the fee; without an estimate, the
\* value and the whole limit.
CheckTronBalance(c, use, known) ==
  LET fee == IF known THEN EstimateTronFeeSunWithPadding(use) ELSE FeeLimit
  IN  /\ pc[c] = "balance"
      /\ IF wallet[Native] >= plan[c].need[Native] + fee
         THEN Goto(c, "send", [plan[c] EXCEPT !.covered = energy + fee])
         ELSE Fail(c, "balance")
      /\ UNCHANGED <<chain, wallet, allowance, pending, tx, utxos, fees, tronVars>>

-----------------------------------------------------------------------------
(***************************************************************************)
(* Sending.                                                                *)
(***************************************************************************)
\* A wallet's send: an error leaves open whether the transaction is out.
SendTransaction(c) ==
  /\ pc[c] = "send" /\ chain.net # "solana"
  /\ tx' = [tx EXCEPT ![c][1] = "pending"]
  /\ Goto(c, "done", plan[c]) \/ Fail(c, "send")
  /\ UNCHANGED <<chain, wallet, allowance, pending, utxos, fees, tronVars>>

\* A plausible slip: any error of a send is tried again.
RetryAnything(e) == TRUE

\* Errors of a blockhash the node does not know, or no longer: the node did
\* not let the transaction pass.
ShouldRetrySolanaSendError(e) == e = "blockhash"

TriesLeft(p) == p.sends < MaxSends

\* signAndSendSolanaInstructions: the node simulates the transaction before
\* it lets it pass; after that an answer that is lost is an error too.
SignAndSendSolanaInstructions(c) ==
  LET p == [plan[c] EXCEPT !.sends = @ + 1]
      Error(e) == IF TriesLeft(p) /\ ShouldRetrySolanaSendError(e)
                  THEN Goto(c, "send", p)
                  ELSE Goto(c, "failed", [p EXCEPT !.err = e])
  IN  /\ pc[c] = "send" /\ chain.net = "solana"
      /\ \/ /\ Accepts(p, 0)
            /\ tx' = [tx EXCEPT ![c][p.sends] = "pending"]
            /\ Goto(c, "done", p) \/ Error("answer")
         \/ \E e \in {"blockhash", "preflight"} : Error(e) /\ UNCHANGED tx
      /\ UNCHANGED <<chain, wallet, allowance, pending, utxos, fees, tronVars>>

-----------------------------------------------------------------------------
(***************************************************************************)
(* The chain takes up transactions of the wallet.                          *)
(***************************************************************************)
\* What a Tron transaction that needs use burns, of spare sun and within its
\* fee limit, once nothing is free any more.  It is spent also by one that
\* is reverted.
Burnt(use, spare) == Lesser(Excess(Lesser(use, FeeLimit), energy), spare)

UseEnergy(use) == energy' = Excess(energy, Lesser(use, FeeLimit))

\* An approval may be reverted, which nobody looks at.
MineApproval(a, use) ==
  /\ a \in pending
  /\ pending' = pending \ {a}
  /\ \/ /\ MaySet(a.spender, a.tok, a.amt)
        /\ use <= FeeLimit /\ Excess(use, energy) <= wallet[Native]
        /\ allowance' = [allowance EXCEPT ![a.spender][a.tok] = a.amt]
     \/ UNCHANGED allowance
  /\ wallet' = [wallet EXCEPT ![Native] = @ - Burnt(use, @)]
  /\ UseEnergy(use)
  /\ approvalCost' = [approvalCost EXCEPT ![a.call] = @ + use]
  /\ UNCHANGED <<chain, pc, plan, tx, utxos, fees, depositCost>>

\* A deposit that needs use runs out of energy at its limit, or where the
\* wallet has too little left next to the value.
Succeeds(p, use) ==
  /\ Accepts(p, SentValue(p))
  /\ use <= FeeLimit
  /\ Charge(p, Native) + Excess(use, energy) <= wallet[Native]

MineDeposit(c, k, use) ==
  LET p == plan[c]
      burnt == Burnt(use, Excess(wallet[Native], SentValue(p)))
  IN  /\ tx[c][k] = "pending"
      /\ chain.net # "tron" => use = 0
      /\ IF Succeeds(p, use)
         THEN /\ tx' = [tx EXCEPT ![c][k] = "mined"]
              /\ wallet' = [t \in Tokens |-> wallet[t] - Charge(p, t)
                                             - (IF t = Native THEN burnt ELSE 0)]
              /\ allowance' = IF chain.net = "solana" THEN allowance
                              ELSE [allowance EXCEPT ![p.spender] =
                                      [t \in Tokens |-> IF t = Native THEN @[t]
                                                        ELSE @[t] - Charge(p, t)]]
              /\ utxos' = utxos \union
                   {[call |-> c, send |-> k, slot |-> i, key |-> p.req.keys[i],
                     tok |-> p.req.toks[i], amt |-> EncodedAmounts(p.req)[i]] : i \in DOMAIN p.req.toks}
              /\ fees' = IF p.fee = 0 THEN fees
                         ELSE fees \union {[call |-> c, send |-> k, amt |-> p.fee]}
         ELSE /\ tx' = [tx EXCEPT ![c][k] = "reverted"]
              /\ wallet' = [wallet EXCEPT ![Native] = @ - burnt]
              /\ UNCHANGED <<allowance, utxos, fees>>
      /\ UseEnergy(use)
      /\ depositCost' = [depositCost EXCEPT ![c] = use]
      /\ UNCHANGED <<chain, pc, plan, pending, approvalCost>>

\* Energy and bandwidth come back with time.
Regenerate ==
  /\ chain.net = "tron" /\ energy < FreeEnergy
  /\ energy' = energy + 1
  /\ UNCHANGED <<chain, wallet, allowance, pc, plan, pending, tx, utxos, fees,
                 approvalCost, depositCost>>

\* A request of the call (an allowance, an account, an address) fails.
RequestFails(c) ==
  /\ pc[c] \in {"relay", "approve", "reset", "approving", "simulate", "balance", "send"}
  /\ Fail(c, "request")
  /\ UNCHANGED <<chain, wallet, allowance, pending, tx, utxos, fees, tronVars>>

CallStep(c) ==
  \/ \E r \in Requests : Begin(c, r)
  \/ \E found \in BOOLEAN : PickRelay(c, found)
  \/ NextApproval(c)
  \/ ResetApproval(c)
  \/ ApproveTokenToHinkal(c)
  \/ BroadcastApproval(c)
  \/ WaitForTronErc20Approvals(c)
  \/ SimulateTronTransaction(c)
  \/ \E use \in Costs, known \in BOOLEAN : CheckTronBalance(c, use, known)
  \/ SendTransaction(c)
  \/ SignAndSendSolanaInstructions(c)
  \/ RequestFails(c)

Next ==
  \/ \E c \in Calls : CallStep(c)
  \/ \E a \in pending, use \in Costs : MineApproval(a, use)
  \/ \E c \in Calls, k \in 1 .. MaxSends, use \in Costs \union {0} : MineDeposit(c, k, use)
  \/ Regenerate

Spec == Init /\ [][Next]_prooflessVars

-----------------------------------------------------------------------------
Asked(c) ==
  {[slot |-> i, key |-> plan[c].req.keys[i], tok |-> plan[c].req.toks[i],
    amt |-> plan[c].req.amts[i]] : i \in DOMAIN plan[c].req.toks}

Fits(c) == \A i \in DOMAIN plan[c].req.amts : plan[c].req.amts[i] < Word

\* Of a call whose deposit was mined: however often it was sent
\* (signAndSendSolanaInstructions tries up to ten times) at most one of its
\* transactions is mined; that one makes the UTXOs the caller asked for, each
\* with its own stealth address, and pays the fee once.  An amount that is too large for a Solana word is cut
\* without an error: the UTXO then holds less than was asked for, never more.
DepositedOnce ==
  \A c \in Calls :
    LET mine == {u \in utxos : u.call = c}
        paid == {f \in fees : f.call = c}
    IN  mine # {} =>
          /\ Cardinality(mine) = Len(plan[c].req.amts)
          /\ Fits(c) =>
               {[slot |-> u.slot, key |-> u.key, tok |-> u.tok, amt |-> u.amt] : u \in mine} = Asked(c)
          /\ \A u \in mine : u.amt <= plan[c].req.amts[u.slot]
          /\ {f.amt : f \in paid} = IF plan[c].fee = 0 THEN {} ELSE {plan[c].fee}
          /\ Cardinality(paid) <= 1

Alone(c) == \A d \in Calls \ {c} : pc[d] = "idle"

\* A wallet that does nothing else is left with no allowance it did not have
\* before: what buildWrapperApprovalInputs and SplitTokensByNative approve is
\* not more than what the deposit uses up.
NoStandingAllowance ==
  \A c \in Calls :
    ((\E k \in 1 .. MaxSends : tx[c][k] = "mined") /\ Alone(c)) =>
      \A t \in Pulled : allowance[plan[c].spender][t] <= plan[c].before[t]

\* What call c asks of the wallet: what the contract takes, and what Tron
\* takes for its approvals and its deposit.
Uses(c, t) == plan[c].need[t] + IF t = Native THEN approvalCost[c] + depositCost[c] ELSE 0

\* Other calls of the wallet use an allowance that c uses too, or all calls
\* together more of a token than there is.
Shares(c) ==
  LET others == {d \in Calls \ {c} : pc[d] # "idle"}
  IN  /\ others # {}
      /\ \/ \E d \in others, t \in Pulled :
              plan[c].spender = plan[d].spender /\ plan[c].need[t] > 0 /\ plan[d].need[t] > 0
         \/ \E t \in Tokens :
              Uses(c, t) + SumFunctionOnSet([d \in others |-> Uses(d, t)], others) > Funds[t]

\* The Tron deposit of c needs more than its fee limit, or more than what was
\* free and what was set aside, padding included, when its balance was checked.
Underestimated(c) == depositCost[c] > FeeLimit \/ depositCost[c] > plan[c].covered

\* A deposit is reverted only if an EVM wallet never had the funds, if the
\* estimate of a Tron call was too low or ran into the limit, or over an
\* allowance or funds that another call of the wallet uses too.  What is
\* approved is enough for everything the contract pulls, a token that is
\* listed twice and the fee included; a Tron approval that is late or reverted
\* is caught by the simulation; the call value is exact (one beyond an int64
\* is caught by the balance check).  Two Tron calls may both count on the
\* same free energy, and approvals of one burn what the other has checked:
\* this does no harm as long as the wallet can pay everything they need
\* without it.
RevertedOnlyIfShared ==
  \A c \in Calls, k \in 1 .. MaxSends :
    tx[c][k] = "reverted" =>
      \/ Underestimated(c)
      \/ chain.net = "evm" /\ \E t \in Tokens : Charge(plan[c], t) > Funds[t]
      \/ Shares(c)
=============================================================================
