--------------------------- MODULE SolanaTransact ---------------------------
(***************************************************************************)
(* Withdraw, transfer, swap and claim on Solana.  The chain, the client's  *)
(* copies, the Merkle roots and the relayer are those of Transact; the     *)
(* flows have their own checks, fees and amounts:                          *)
(*   - one mint (a swap has two), and the fee is taken from the mint that  *)
(*     is sent or received, whatever token it was estimated in;            *)
(*   - the gas estimate is told how many nullifier accounts the call will  *)
(*     create, from a selection of its own that is made before the fee is  *)
(*     known;                                                              *)
(*   - the amounts of the proof are compared with the amounts asked for.   *)
(***************************************************************************)
EXTENDS Transact

CONSTANT SlippageRate   \* solanaSwapDefaultSlippagePercent, in units of 1 / BPS

ASSUME SlippageAssumption == SlippageRate \in 0 .. BPS

VARIABLE priced   \* priced[c]: what the gas estimate was told, [n, view, counted]

NotPriced == [n |-> 0, view |-> NoPlan.view, counted |-> FALSE]

solVars == <<vars, priced>>

SolInit == Init /\ priced = [c \in Calls |-> NotPriced]

View == [outs |-> seen.outs, nulls |-> seen.nulls]
Rows(p) == [i \in DOMAIN p.toks |-> SortAndPadUtxos(UnspentIn(View, p.toks[i]))]

-----------------------------------------------------------------------------
ValidSolanaRequest(r) ==
  /\ r.wellFormed
  /\ IF r.kind = "claim" THEN ValidRequest(r)
     ELSE /\ Len(r.toks) = Len(r.chs)
          /\ Len(r.toks) = IF r.kind = "swap" THEN 2 ELSE 1

SolanaBegin(c, r) ==
  /\ pc[c] = "idle"
  /\ IF ValidSolanaRequest(r)
     THEN Goto(c, IF r.kind = "claim" THEN "fee" ELSE "count",
               [NoPlan EXCEPT !.req = r, !.ask = r.chs, !.toks = r.toks, !.chs = r.chs])
     ELSE Fail(c, "invalid")
  /\ UNCHANGED priced

\* A mutant: padding is counted too.
CountAllInputs(p) == Cardinality(Places(AddPaddingToUtxos(Rows(p))))

\* solanaNullifierCount: inputs that are not padding and whose nullifier has
\* no account yet.
SolanaNullifierCount(p) ==
  Cardinality(BuildInNullifiers(AddPaddingToUtxos(Rows(p))) \ Spent)

\* CalculateSolanaNullifierCount: 6 where the inputs would not fit, 0 after
\* any other error.  A swap with an override of the fee does not count.
CalculateSolanaNullifierCount(c) ==
  LET p == plan[c]
      is(n, counted) == priced' = [priced EXCEPT ![c] = [n |-> n, view |-> View, counted |-> counted]]
  IN  /\ pc[c] = "count"
      /\ Goto(c, "fee", p)
      /\ \/ is(0, FALSE)
         \/ IF OverLimit(Rows(p), p.chs) THEN is(6, TRUE) ELSE is(SolanaNullifierCount(p), TRUE)

-----------------------------------------------------------------------------
\* What a flow takes from change i for the fee.
Charge(p, i, amount) ==
  [p EXCEPT !.fee = [token |-> p.toks[i], flat |-> amount, rate |-> 0],
            !.chs[i] = @ - amount]

SolanaWithdraw(c, raw, cross) ==
  /\ pc[c] = "fee" /\ plan[c].req.kind = "withdraw"
  /\ Goto(c, "select", Charge(plan[c], 1, WithdrawFee(plan[c], raw, cross).flat))
  /\ UNCHANGED priced

\* resolveSolanaTransferFeeStructure.
SolanaTransferFee(p, raw) == CalculateTotalFee(-p.chs[1], PrivateSendFeeStructure(raw))

SolanaTransfer(c, raw) ==
  /\ pc[c] = "fee" /\ plan[c].req.kind = "transfer"
  /\ Goto(c, "select", Charge(plan[c], 1, SolanaTransferFee(plan[c], raw)))
  /\ UNCHANGED priced

\* The slippage goes through a float and back: rounded down or up.
Slippages(amount) ==
  {(amount * SlippageRate) \div BPS, (amount * SlippageRate + BPS - 1) \div BPS}

\* A mutant: the rate is taken from what slippage and flat fee leave.
SwapFeeOfRest(amount, slip, raw) ==
  slip + raw.flat + ((amount - slip - raw.flat) * raw.rate) \div BPS

\* What a swap keeps back of the amount the quote promises.
SwapKeepsBack(amount, slip, raw) ==
  slip + raw.flat + (amount * raw.rate) \div BPS

SolanaSwap(c, raw, slip) ==
  LET p == plan[c]
  IN  /\ pc[c] = "fee" /\ p.req.kind = "swap"
      /\ slip \in Slippages(p.chs[2])
      /\ IF p.chs[2] - SwapKeepsBack(p.chs[2], slip, raw) < 0
         THEN Fail(c, "low output")
         ELSE Goto(c, "select", Charge(p, 2, SwapKeepsBack(p.chs[2], slip, raw)))
      /\ UNCHANGED priced

\* HinkalSolanaClaimUtxo takes the steps of HinkalClaimUtxo.
SolanaClaimUtxo(c, raw) == ClaimUtxo(c, raw) /\ UNCHANGED priced

-----------------------------------------------------------------------------
\* The outputs of a row: getSolanaTransferInputAndOutputUtxos,
\* getSolanaWithdrawInputAndOutputUtxos, getSolanaSwapInputAndOutputUtxos.
SolanaTransferOutputs(p, row) ==
  OutputUtxoProcessing(row, p.toks[1], p.chs[1], "user",
                       << [owner |-> "other", token |-> p.toks[1], amt |-> -p.ask[1]] >>)

SolanaWithdrawOutputs(p, row) == OutputUtxoProcessing(row, p.toks[1], p.chs[1], "user", <<>>)

SolanaSwapOutputs(p, row, i) ==
  << OutputUtxoProcessing(row, p.toks[i], p.chs[i], "user", <<>>)[1] >>

SolanaOutputs(p, row, i) ==
  CASE p.req.kind = "transfer" -> SolanaTransferOutputs(p, row)
    [] p.req.kind = "withdraw" -> SolanaWithdrawOutputs(p, row)
    [] p.req.kind = "swap"     -> SolanaSwapOutputs(p, row, i)

\* EnsureAmountChanges: of the change outputs only, those of a recipient are
\* left out.
EnsureAmountChanges(p) ==
  CalcAmountChanges(p.ins, [i \in DOMAIN p.outs |-> << p.outs[i][1] >>]) = p.chs

SelectSolanaUtxos(c) ==
  LET p    == [plan[c] EXCEPT !.view = View]
      rows == Rows(p)
      ins  == AddPaddingToUtxos(rows)
      next == [p EXCEPT !.ins = ins,
                        !.outs = [i \in DOMAIN ins |-> SolanaOutputs(p, ins[i], i)]]
      stop(err) == Goto(c, "failed", [p EXCEPT !.err = err])
  IN  /\ pc[c] = "select"
      /\ IF OverLimit(rows, p.chs) THEN stop("limit")
         ELSE IF \E i \in DOMAIN ins : InsufficientFunds(ins[i], p.chs[i]) THEN stop("funds")
         ELSE IF ~EnsureAmountChanges(next) THEN stop("amounts")
         ELSE Goto(c, "root", next)
      /\ UNCHANGED priced

\* ConstructSolanaZkProof: roots and siblings come from GetDataFromWorkers as
\* on the other chains.
ConstructSolanaZkProof(c) ==
  /\ pc[c] = "prove"
  /\ IF ~Provable(plan[c])
     THEN Fail(c, "proof")
     ELSE IF ~HasCircuit(SolanaCircuits, plan[c].ins, plan[c].outs)
     THEN Fail(c, "circuit")
     ELSE Goto(c, "send", plan[c])
  /\ UNCHANGED priced

SolanaRequestFails(c) ==
  /\ pc[c] \in {"count", "fee", "select", "root", "prove", "send"}
  /\ Fail(c, "request")
  /\ UNCHANGED priced

SolNext ==
  \/ (SeeOutputs \/ SeeNullifiers \/ SeeTree) /\ UNCHANGED priced
  \/ \E c \in Calls :
       \/ \E r \in client.requests : SolanaBegin(c, r)
       \/ CalculateSolanaNullifierCount(c)
       \/ \E q \in client.quotes :
            LET raw == GetFeeStructure(plan[c].req.feeTok, q.flat, q.rate)
            IN  \/ SolanaWithdraw(c, raw, q.cross)
                \/ SolanaTransfer(c, raw)
                \/ \E slip \in Slippages(IF Len(plan[c].chs) = 2 THEN plan[c].chs[2] ELSE 0) :
                     SolanaSwap(c, raw, slip)
                \/ SolanaClaimUtxo(c, raw)
       \/ SelectSolanaUtxos(c)
       \/ HandleLocalMerkleTrees(c) /\ UNCHANGED priced
       \/ \E k \in 1 .. Len(chain) : HandleRemoteMerkleTrees(c, k) /\ UNCHANGED priced
       \/ ConstructSolanaZkProof(c)
       \/ (Send(c) \/ Answer(c) \/ Settle(c)) /\ UNCHANGED priced
       \/ SolanaRequestFails(c)

\* A client on an EVM chain, or one on Solana.
AnyNext ==
  \/ client.net = "evm" /\ Next /\ UNCHANGED priced
  \/ client.net = "solana" /\ SolNext

AnySpec == SolInit /\ [][AnyNext]_solVars

-----------------------------------------------------------------------------
(***************************************************************************)
(* The gas estimate was told the number of nullifier accounts that the     *)
(* transaction creates, if the client learned nothing in between: the fee, *)
(* which is not known when the inputs are counted, does not change which   *)
(* inputs are chosen.                                                      *)
(***************************************************************************)
PricedAsExecuted ==
  \A i \in 2 .. Len(chain) :
    LET c == chain[i].call
    IN  priced[c].counted /\ priced[c].view = plan[c].view =>
          Cardinality(chain[i].ins) = priced[c].n

(***************************************************************************)
(* A swap credits the client with something it can be paid: not more than  *)
(* the quoted amount less the worst slippage, the flat fee and the         *)
(* variable fee of the whole quote, which the program takes itself, up to  *)
(* the rounding of the two shares.                                         *)
(***************************************************************************)
SwapCredit ==
  \A i \in 2 .. Len(chain) :
    LET p    == plan[chain[i].call]
        gain == OwnerGains(i, "user", p.toks[2])
    IN  client.net = "solana" /\ p.req.kind = "swap" =>
          /\ gain >= 0
          /\ \E q \in client.quotes :
               LET shares == p.ask[2] * (SlippageRate + q.rate)
                   kept   == BPS * (p.ask[2] - q.flat - gain)
               IN  kept > shares - 2 * BPS /\ kept < shares + BPS
=============================================================================
