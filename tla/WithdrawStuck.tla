---------------------------- MODULE WithdrawStuck ---------------------------
(***************************************************************************)
(* HinkalWithdrawStuckUtxos next to the flows of DepositAndSend.  UTXOs    *)
(* those flows deposited and never scheduled are stuck: they are blocked,  *)
(* so that no ordinary transaction spends them.  The loop withdraws them,  *)
(* six at a time, until none is left.                                      *)
(*                                                                         *)
(* What is stuck is the relayer's word at one moment: a call that is still *)
(* waiting for its deposits has not scheduled them either.                 *)
(***************************************************************************)
EXTENDS DepositAndSend

CONSTANTS
  Loops,       \* runs of the loop by the same user
  StuckFees,   \* gas estimates of a withdrawal, in the token
  MaxFaults    \* bound: requests that fail and transactions that are reverted

ASSUME StuckAssumption == StuckFees \subseteq Nat

VARIABLES
  known,       \* the client's nullifiers
  lpc, lplan,  \* where loop w is, and its local variables
  ltx,         \* its transaction at the relayer
  withdrawn,   \* what was withdrawn: set of [ids, pays, fee, left]
  faults

stuckVars == <<known, lpc, lplan, ltx, withdrawn, faults>>
vars == <<sendVars, stuckVars>>

NoLoop == [part |-> "main", total |-> 0, fee |-> 0, ins |-> <<Pad, Pad>>, left |-> 0]

StuckInit ==
  /\ Init
  /\ known = {} /\ withdrawn = {} /\ faults = 0
  /\ lpc = [w \in Loops |-> "idle"]
  /\ lplan = [w \in Loops |-> NoLoop]
  /\ ltx = [w \in Loops |-> "none"]

LGoto(w, label, p) ==
  /\ lpc' = [lpc EXCEPT ![w] = label]
  /\ lplan' = [lplan EXCEPT ![w] = p]

\* The loop returns, with an error or because nothing is left.
Return(w) == LGoto(w, "idle", NoLoop)

-----------------------------------------------------------------------------
\* The user starts a loop for the sent token or for the native one; loops with
\* a transaction under way next to it are other members of Loops.
Start(w, part) ==
  /\ lpc[w] = "idle" /\ ltx[w] # "pending"
  /\ ltx' = [ltx EXCEPT ![w] = "none"]
  /\ LGoto(w, "reset", [NoLoop EXCEPT !.part = part])
  /\ UNCHANGED <<sendVars, known, withdrawn, faults>>

\* ResetMerkleTreesIfNecessary: copies of the tree and of the nullifiers as
\* the servers have them; a tree that is up to date leaves both alone.
Reset(w, v, fresh) ==
  /\ lpc[w] = "reset"
  /\ v \in view .. Len(leaves)
  /\ view' = v
  /\ known' = IF fresh THEN spent ELSE known
  /\ LGoto(w, "select", lplan[w])
  /\ UNCHANGED <<leaves, spent, pc, plan, tx, status, scheduled, executed, dropped,
                 ltx, withdrawn, faults>>

\* UTXOs the relayer has withdrawals for.
Booked == UNION {it.utxos : it \in scheduled}

\* A mutant: the relayer's answer read as the UTXOs it has withdrawals for.
BookedUtxos(part) ==
  {[id |-> <<k, <<1, 1>>>>, amt |-> leaves[k].amt] :
     k \in {j \in Booked : leaves[j].part = part /\ j \notin known}}

\* GetInputUtxoAndBalanceOfStuckUtxos: the blocked UTXOs that are unspent as
\* far as the client knows and that the relayer has no withdrawal for.
StuckUtxos(part) ==
  {[id |-> <<k, <<1, 1>>>>, amt |-> leaves[k].amt] :
     k \in {j \in 1 .. view : /\ leaves[j].call \in Calls
                              /\ leaves[j].part = part
                              /\ leaves[j].amt > 0
                              /\ j \notin known
                              /\ j \notin Booked}}

\* The chain of the calls, whose deposits the loop finds.
OnSolana == \E c \in Calls : plan[c].req.net = "solana"

Ids(utxos) == {u.id[1] : u \in {x \in utxos : x.id # NoId}}

\* filterOnChainUnspentUtxos asks the contract, and adds to the client's
\* nullifiers what it finds spent; on Solana it does nothing.
UnspentOnChain(utxos) ==
  IF OnSolana THEN utxos ELSE {u \in utxos : u.id[1] \notin spent}

LearnSpent(utxos) ==
  IF OnSolana THEN known ELSE known \cup (Ids(utxos) \cap spent)

\* The six largest.
SortAndCapStuckUtxos(utxos) ==
  LET row == SortAndPadUtxos(utxos)
  IN  SubSeq(row, 1, IF Len(row) > MaxInput THEN MaxInput ELSE Len(row))

PositiveStuckUtxosForToken(part) == SortAndCapStuckUtxos(UnspentOnChain(StuckUtxos(part)))

CountStuckUtxoAmount(row) == TotalAmount(row)

SelectStuck(w) ==
  LET p     == lplan[w]
      total == CountStuckUtxoAmount(PositiveStuckUtxosForToken(p.part))
  IN  /\ lpc[w] = "select"
      /\ known' = LearnSpent(StuckUtxos(p.part))
      /\ IF total = 0 THEN Return(w)
                      ELSE LGoto(w, "fee", [p EXCEPT !.total = total])
      /\ UNCHANGED <<sendVars, ltx, withdrawn, faults>>

LeavesNothing(p, fee) == p.total - fee <= 0

\* GetFeeStructure: the fee is in the token itself, and has to leave
\* something.
StuckFee(w, fee) ==
  LET p == lplan[w]
  IN  /\ lpc[w] = "fee"
      /\ IF LeavesNothing(p, fee) THEN Return(w)
                                  ELSE LGoto(w, "pad", [p EXCEPT !.fee = fee])
      /\ UNCHANGED <<sendVars, known, ltx, withdrawn, faults>>

\* A mutant: the fee is not taken from the inputs.
ChangeWithoutFee(p) == -(p.total - p.fee)

\* amountChanges after MergeWithFeeStructure.
StuckChange(p) == -(p.total - p.fee) - p.fee

\* On Solana the fee is subtracted here.
SolanaStuckChange(p) == -(p.total - p.fee) - p.fee

\* AddPaddingToUtxos asks the relayer again what is stuck, and not the
\* contract.
GetStuckInputAndOutputUtxos(w, change) ==
  LET p    == lplan[w]
      rows == << SortAndPadUtxos(StuckUtxos(p.part)) >>
      ins  == AddPaddingToUtxos(rows)[1]
  IN  /\ lpc[w] = "pad"
      /\ IF OverLimit(rows, <<change>>) \/ InsufficientFunds(ins, change) THEN Return(w)
         ELSE LGoto(w, "send", [p EXCEPT !.ins = ins, !.left = TotalAmount(ins) + change])
      /\ UNCHANGED <<sendVars, known, ltx, withdrawn, faults>>

WithdrawSingleStuckToken(w) ==
  ~OnSolana /\ GetStuckInputAndOutputUtxos(w, StuckChange(lplan[w]))

WithdrawSingleStuckTokenSolana(w) ==
  OnSolana /\ GetStuckInputAndOutputUtxos(w, SolanaStuckChange(lplan[w]))

\* The proof and TransactCallRelayer, whose answer may get lost.
SendStuck(w) ==
  /\ lpc[w] = "send"
  /\ Ids(ToSet(lplan[w].ins)) \subseteq 1 .. view
  /\ ltx' = [ltx EXCEPT ![w] = "pending"]
  /\ \/ LGoto(w, "sent", lplan[w]) /\ UNCHANGED faults
     \/ LGoto(w, "idle", lplan[w]) /\ faults < MaxFaults /\ faults' = faults + 1
  /\ UNCHANGED <<sendVars, known, withdrawn>>

\* A mutant: a receipt that tells of failure is not taken for an answer.
WaitForSuccess(w) ==
  /\ lpc[w] = "sent" /\ ltx[w] = "mined"
  /\ ltx' = [ltx EXCEPT ![w] = "none"]
  /\ LGoto(w, "reset", [NoLoop EXCEPT !.part = lplan[w].part])
  /\ UNCHANGED <<sendVars, known, withdrawn, faults>>

\* WaitForTransaction: a reverted one is an error, which ends the loop.
WaitForStuck(w) ==
  /\ lpc[w] = "sent"
  /\ \/ ltx[w] = "mined" /\ LGoto(w, "reset", [NoLoop EXCEPT !.part = lplan[w].part])
     \/ ltx[w] = "reverted" /\ Return(w)
  /\ ltx' = [ltx EXCEPT ![w] = "none"]
  /\ UNCHANGED <<sendVars, known, withdrawn, faults>>

LoopRequestFails(w) ==
  /\ lpc[w] \in {"reset", "select", "fee", "pad", "send"}
  /\ faults < MaxFaults /\ faults' = faults + 1
  /\ Return(w)
  /\ UNCHANGED <<sendVars, known, ltx, withdrawn>>

-----------------------------------------------------------------------------
\* The contract: what is left of the inputs is a new UTXO of the user, which
\* is not blocked.
SettleStuck(w) ==
  LET p   == lplan[w]
      ids == Ids(ToSet(p.ins))
  IN  /\ ltx[w] = "pending"
      /\ IF ids \cap spent = {}
         THEN /\ spent' = spent \cup ids
              /\ withdrawn' = withdrawn \cup {[ids |-> ids, pays |-> p.total - p.fee,
                                               fee |-> p.fee, left |-> p.left]}
              /\ leaves' = IF p.left = 0 THEN leaves
                           ELSE Append(leaves, [call |-> "user", part |-> p.part,
                                                slot |-> 0, amt |-> p.left])
              /\ ltx' = [ltx EXCEPT ![w] = "mined"]
         ELSE /\ ltx' = [ltx EXCEPT ![w] = "reverted"]
              /\ UNCHANGED <<leaves, spent, withdrawn>>
      /\ UNCHANGED <<view, pc, plan, tx, status, scheduled, executed, dropped,
                     known, lpc, lplan, faults>>

RevertStuck(w) ==
  /\ ltx[w] = "pending"
  /\ faults < MaxFaults /\ faults' = faults + 1
  /\ ltx' = [ltx EXCEPT ![w] = "reverted"]
  /\ UNCHANGED <<sendVars, known, lpc, lplan, withdrawn>>

LoopStep(w) ==
  \/ \E v \in view .. Len(leaves), fresh \in BOOLEAN : Reset(w, v, fresh)
  \/ SelectStuck(w)
  \/ \E fee \in StuckFees : StuckFee(w, fee)
  \/ WithdrawSingleStuckToken(w) \/ WithdrawSingleStuckTokenSolana(w)
  \/ SendStuck(w) \/ WaitForStuck(w)

Next ==
  \/ SendNext /\ UNCHANGED stuckVars
  \/ \E w \in Loops : \/ \E part \in Parts : Start(w, part)
                      \/ LoopStep(w) \/ LoopRequestFails(w)
                      \/ SettleStuck(w) \/ RevertStuck(w)

Spec == StuckInit /\ [][Next]_vars

(***************************************************************************)
(* Fairness: the relayer makes the withdrawals it has, transactions get    *)
(* decided, a loop goes on, the servers catch up every now and then, and   *)
(* the user asks again as long as something may be stuck.  Nothing is      *)
(* assumed of the calls, which may stop anywhere.                          *)
(***************************************************************************)
LiveSpec ==
  /\ Spec
  /\ WF_vars(\E it \in scheduled : Execute(it) /\ UNCHANGED stuckVars)
  /\ \A w \in Loops :
       /\ WF_vars(LoopStep(w)) /\ WF_vars(SettleStuck(w))
       /\ SF_vars(Reset(w, Len(leaves), TRUE))
       /\ \A part \in Parts : SF_vars(Start(w, part))

-----------------------------------------------------------------------------
Recovered == UNION {x.ids : x \in withdrawn}

\* A withdrawal that the relayer was given fails only because a loop took its
\* UTXO for stuck: a call that had not scheduled yet when the loop asked.
RefusedOnlyIfRecovered == \A it \in dropped : it.utxos \cap Recovered # {}

\* Every coin of every deposit is accounted for once: unspent, paid to a
\* recipient with the relayer's fee, or taken out by a loop with its fee and
\* what it left (countStuckUtxoAmount, MergeWithFeeStructure).  A withdrawal of
\* a loop always pays something and has no more inputs than a circuit.
CoinsAccounted ==
  /\ Paid \cap Recovered = {} /\ spent = Paid \cup Recovered
  /\ \A x, y \in withdrawn : x # y => x.ids \cap y.ids = {}
  /\ \A x \in withdrawn :
       /\ SumFunctionOnSet(Amounts, x.ids) = x.pays + x.fee + x.left
       /\ x.pays > 0 /\ Cardinality(x.ids) \in 1 .. MaxInput

\* What is left of call c's coins in a part, and the highest fee of one
\* withdrawal of the loop.
Unspent(c, part) ==
  {k \in DOMAIN leaves : /\ leaves[k].call = c /\ leaves[k].part = part
                         /\ leaves[k].amt > 0 /\ k \notin spent}

HighestFee == Max(StuckFees)

\* Whatever happens to a call after its deposit, the money leaves the pool, to
\* the recipients or back to the user, but for a remainder no withdrawal can
\* pay its fee from: withdrawSingleStuckToken refuses, for as long as fees stay
\* there, when the fee is not below what the six largest coins are worth.
FundsLeavePool ==
  \A c \in Calls : (tx[c]["main"] = "mined") ~>
    \A part \in Parts : \A six \in SUBSET Unspent(c, part) :
      Cardinality(six) <= MaxInput => SumFunctionOnSet(Amounts, six) <= HighestFee

\* A loop comes to its end: every withdrawal leaves fewer stuck UTXOs, and one
\* that is reverted ends it (the unbounded for of HinkalWithdrawStuckUtxos).
LoopEnds == \A w \in Loops : (lpc[w] # "idle") ~> (lpc[w] = "idle")
=============================================================================
