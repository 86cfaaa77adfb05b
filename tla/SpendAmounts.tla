---------------------------- MODULE SpendAmounts ----------------------------
(***************************************************************************)
(* The arithmetic of a private transaction: fees, the choice and padding   *)
(* of the UTXOs to spend, the UTXOs it creates, and the public values of   *)
(* its proof.                                                              *)
(*                                                                         *)
(* A UTXO to spend is a record [id, amt]: id is its place on the chain     *)
(* (transaction, and row and column among its outputs), which stands for   *)
(* commitment and nullifier alike, and NoId for a padding UTXO, which is   *)
(* not on the chain.  A row holds the inputs, or outputs, of one token.    *)
(* Fee tokens are tokens of the registry.                                  *)
(***************************************************************************)
EXTENDS Integers, Sequences, FiniteSets, SequencesExt

CONSTANTS
  BPS,               \* BPSDenominator (10000)
  PrivateSendRate    \* HinkalPrivateSendVariableRate, in units of 1 / BPS

ASSUME RateAssumption ==
  /\ BPS \in Nat \ {0}
  /\ PrivateSendRate \in Nat

\* The input counts of the circuits: minInput and maxInput.
MinInput == 2
MaxInput == 6

NoId == <<0, <<0, 0>>>>
Pad  == [id |-> NoId, amt |-> 0]

\* countTotalAmountInUtxos.
TotalAmount(row) == SumFunctionOnSet([j \in DOMAIN row |-> row[j].amt], DOMAIN row)

-----------------------------------------------------------------------------
\* Fees.  A fee is [token, flat, rate].

ZeroFee(t) == [token |-> t, flat |-> 0, rate |-> 0]

CalculateTotalFee(amount, fee) == fee.flat + (amount * fee.rate) \div BPS

\* cross is the variable fee priced in another token, 0 when the price
\* request fails.
CalculateModifiedFeeStructure(token, amount, fee, cross) ==
  [token |-> fee.token,
   flat  |-> IF fee.token = token \/ fee.rate = 0
             THEN CalculateTotalFee(amount, fee)
             ELSE fee.flat + cross,
   rate  |-> 0]

PrivateSendFeeStructure(fee) ==
  [fee EXCEPT !.rate = IF @ = 0 THEN PrivateSendRate ELSE @]

\* The error of MergeWithFeeStructure: what comes in does not pay the fee.
FeeOverTransactionValue(toks, chs, fee) ==
  LET i == SelectInSeq(toks, LAMBDA t : t = fee.token)
  IN  i # 0 /\ chs[i] > 0 /\ chs[i] < fee.flat

\* The fee is taken from the change of its token, or is a change of its own.
MergeWithFeeStructure(toks, chs, fee) ==
  LET i == SelectInSeq(toks, LAMBDA t : t = fee.token)
  IN  IF i = 0
      THEN [toks |-> Append(toks, fee.token), chs |-> Append(chs, -fee.flat)]
      ELSE [toks |-> toks, chs |-> [chs EXCEPT ![i] = @ - fee.flat]]

\* claimFeeParts: the whole fee and what is left of a claimed UTXO.
ClaimRate(fee)         == IF fee.rate <= 0 THEN PrivateSendRate ELSE fee.rate
ClaimFee(source, fee)  == fee.flat + ((source - fee.flat) * ClaimRate(fee)) \div BPS
ClaimPays(source, fee) == source > fee.flat /\ source > ClaimFee(source, fee)

-----------------------------------------------------------------------------
\* The UTXOs to spend.

Older(a, b) ==
  \/ a[1] < b[1]
  \/ a[1] = b[1] /\ a[2][1] < b[2][1]
  \/ a[1] = b[1] /\ a[2][1] = b[2][1] /\ a[2][2] < b[2][2]

PadTo(row, n) == row \o [i \in 1 .. n - Len(row) |-> Pad]

\* Place i of the sorted row is the UTXO that i - 1 others come before.
Before(u, v) == u.amt > v.amt \/ (u.amt = v.amt /\ Older(u.id, v.id))

SortUtxos(utxos) ==
  [i \in 1 .. Cardinality(utxos) |->
     CHOOSE u \in utxos : Cardinality({v \in utxos : Before(v, u)}) = i - 1]

\* 2, or at least 6 of them.
PadUtxos(row) ==
  CASE Len(row) < MinInput -> PadTo(row, MinInput)
    [] Len(row) > MinInput /\ Len(row) < MaxInput -> PadTo(row, MaxInput)
    [] OTHER -> row

\* A mutant: smallest first.
SmallestFirst(utxos) == PadUtxos(Reverse(SortUtxos(utxos)))

\* sortAndPadUtxos: largest first, in the order of the chain where equal.
SortAndPadUtxos(utxos) == PadUtxos(SortUtxos(utxos))

\* A mutant: looks at some row only.
SomeMinimal(rows) == \E i \in DOMAIN rows : Len(rows[i]) = MinInput

\* maxUtxoNum = 2: all rows have two inputs.
AllMinimal(rows) == \A i \in DOMAIN rows : Len(rows[i]) = MinInput

\* The error of AddPaddingToUtxos: the six largest do not pay.
OverLimit(rows, chs) ==
  \E i \in DOMAIN rows :
    /\ Len(rows[i]) > MaxInput
    /\ chs[i] < 0
    /\ TotalAmount(SubSeq(rows[i], 1, MaxInput)) < -chs[i]

AddPaddingToUtxos(rows) ==
  IF AllMinimal(rows)
  THEN rows
  ELSE [i \in DOMAIN rows |->
          IF Len(rows[i]) > MaxInput THEN SubSeq(rows[i], 1, MaxInput)
                                     ELSE PadTo(rows[i], MaxInput)]

-----------------------------------------------------------------------------
\* The UTXOs that are created: records [owner, token, amt].

\* A mutant: revertIfNegative is lost, the change is cut off at 0.
NeverInsufficient(row, ch) == FALSE

\* The error of OutputUtxoProcessing (revertIfNegative).
InsufficientFunds(row, ch) == ch < 0 /\ TotalAmount(row) + ch < 0

\* The change, and what the recipient gets (<<>> when there is none).
OutputUtxoProcessing(row, token, ch, owner, recipient) ==
  LET left == TotalAmount(row) + ch
  IN  <<[owner |-> owner, token |-> token, amt |-> IF left > 0 THEN left ELSE 0]>>
        \o recipient

-----------------------------------------------------------------------------
\* The public values of the proof.

\* A mutant: the inputs of the first token only.
NullifyFirstToken(rows) ==
  UNION {{rows[i][j].id : j \in {k \in DOMAIN rows[i] : rows[i][k].amt # 0}} :
            i \in DOMAIN rows \cap {1}}

\* buildInNullifiersByAmount: padding nullifies to "0", which is nothing.
BuildInNullifiers(rows) ==
  UNION {{rows[i][j].id : j \in {k \in DOMAIN rows[i] : rows[i][k].amt # 0}} :
            i \in DOMAIN rows}

\* A mutant: the change of the fee token is forgotten.
CommitFirstToken(outs) ==
  [x \in {y \in {1} \X DOMAIN outs[1] : outs[y[1]][y[2]].amt # 0} |-> outs[x[1]][x[2]]]

\* Rows and columns.
Places(rows) == UNION {{i} \X DOMAIN rows[i] : i \in DOMAIN rows}

\* BuildOutCommitments: an output of amount 0 has no commitment ("0").
BuildOutCommitments(outs) ==
  [x \in {y \in Places(outs) : outs[y[1]][y[2]].amt # 0} |-> outs[x[1]][x[2]]]

\* CalcAmountChanges, as it goes into circomData.
CalcAmountChanges(rows, outs) ==
  [i \in DOMAIN rows |-> TotalAmount(outs[i]) - TotalAmount(rows[i])]

\* The circuits there are files for (zk_files.go): number of tokens, and of
\* inputs and outputs of each.
EvmCircuits ==
  ((1 .. 5) \X {MinInput, MaxInput} \X {1}) \cup ((1 .. 2) \X {MinInput, MaxInput} \X {2})

SolanaCircuits ==
  ({1} \X {MinInput, MaxInput} \X {1, 2}) \cup ({2} \X {MinInput, MaxInput} \X {1})

\* The circuit that GetZkProofVerifierName names after the first row exists,
\* and all rows fit it.
HasCircuit(circuits, ins, outs) ==
  /\ <<Len(ins), Len(ins[1]), Len(outs[1])>> \in circuits
  /\ \A i \in DOMAIN ins : Len(ins[i]) = Len(ins[1]) /\ Len(outs[i]) = Len(outs[1])
=============================================================================
