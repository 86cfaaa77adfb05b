------------------------ MODULE WithdrawStuckProofs -------------------------
(***************************************************************************)
(* Proofs about WithdrawStuck and, under it, the flows of DepositAndSend:  *)
(* for any number of calls, recipients, amounts and loops, however the     *)
(* leaves of others crowd the tree.                                        *)
(*                                                                         *)
(* None of the properties is inductive.  A call holds, over many steps,    *)
(* what it read before: the leaves it matched, the batch it built from     *)
(* them, what it has told the status server.  CallsOK says what each of    *)
(* these is worth at every label of the call, as facts about leaves that   *)
(* no later leaf can change (CallKeeps).  RelayerOK keeps the withdrawals  *)
(* the relayer holds apart from each other, LoopsOK says what a loop may   *)
(* still take, and Ledger accounts for the coins.                          *)
(*                                                                         *)
(* That every recipient finds a coin of its own (MatchedAll) is a          *)
(* pigeonhole argument about ranks among equal amounts; that a coin has    *)
(* one amount to pay (WithFeeInjective) rests on the fee being monotone.   *)
(* From the invariant every step maps to one of Payments or to none: the   *)
(* entry of a call to Ask, its main deposit to Deposit, a withdrawal of    *)
(* the relayer to Pay, one of a loop to Recover, the end of a call to      *)
(* Report.                                                                 *)
(***************************************************************************)
EXTENDS WithdrawStuck, SpendAmountsProofs

-----------------------------------------------------------------------------
(***************************************************************************)
(* Types.                                                                  *)
(***************************************************************************)
Labels == {"idle", "quotes", "fee", "before", "deposit", "sent", "receipt", "decode",
           "wait", "batch", "schedule", "scheduling", "done", "failed"}
TxStates == {"none", "pending", "mined", "reverted"}
Phases == {"none", "beforeDeposit", "afterDeposit", "beforeSchedule", "afterSchedule"}

LeafType == [call : Calls \cup {"other", "user"}, part : Parts, slot : Nat, amt : Nat]
ItemType == [call : Calls, to : Nat, utxos : SUBSET Nat, pays : Int]
FeeType  == [token : {"sent", "none"}, flat : Nat, rate : Nat]

Plans == [req : Requests \cup {NoRequest}, fee : FeeType, part : Parts,
          utxos : [Parts -> Seq(Nat)], tries : Nat, items : Seq(ItemType)]

LoopPlans == [part : Parts, total : Nat, fee : Nat, ins : Seq([id : Id, amt : Nat]), left : Nat]

Shape ==
  /\ leaves \in Seq(LeafType) /\ view \in Nat /\ view <= Len(leaves)
  /\ pc \in [Calls -> Labels] /\ plan \in [Calls -> Plans]
  /\ tx \in [Calls -> [Parts -> TxStates]] /\ status \in [Calls -> [Parts -> Phases]]
  /\ lpc \in [Loops -> {"idle", "reset", "select", "fee", "pad", "send", "sent"}]
  /\ lplan \in [Loops -> LoopPlans] /\ ltx \in [Loops -> TxStates]

-----------------------------------------------------------------------------
(***************************************************************************)
(* A call: c is the call, lab where it is, p its local variables, t its    *)
(* transactions, st its phases at the status server, L the leaves, v the   *)
(* size of the client's tree and I the withdrawals the relayer was given.  *)
(***************************************************************************)
WantedOf(p, part) == Wanted([p EXCEPT !.part = part])

\* A call is asked for something, for positive amounts only, in one of the
\* flows, and its fee is in the token or has no rate.
Asked(p) == p.req.amts # <<>>

Terms(p) ==
  /\ \A i \in DOMAIN p.req.amts : p.req.amts[i] > 0
  /\ Asked(p) => p.req.kind \in {"withdraw", "bridge", "solana", "near"}
  /\ p.req.kind = "bridge" => p.req.net # "solana"
  /\ p.fee.token = "sent" \/ p.fee.rate = 0

\* The leaves of a deposit are one for each slot, of the amount wanted; only
\* those of amount 0 may be missing.
CoinsOf(L, c, part) == {k \in DOMAIN L : L[k].call = c /\ L[k].part = part}

CoinsOK(L, c, p, t, part) ==
  LET C == CoinsOf(L, c, part)
      w == WantedOf(p, part)
  IN  /\ t[part] # "mined" => C = {}
      /\ \A k \in C : L[k].slot \in DOMAIN w /\ L[k].amt = w[L[k].slot]
      /\ \A k, m \in C : L[k].slot = L[m].slot => k = m
      /\ t[part] = "mined" =>
           \A i \in DOMAIN w : w[i] > 0 => \E k \in C : L[k].slot = i

\* Each recipient has a leaf of its own of the right amount.
MatchedOK(L, c, p, part) ==
  LET u == p.utxos[part]
      w == WantedOf(p, part)
  IN  /\ DOMAIN u = DOMAIN w
      /\ \A i \in DOMAIN w : u[i] \in CoinsOf(L, c, part) /\ L[u[i]].amt = w[i]
      /\ \A i, j \in DOMAIN w : u[i] = u[j] => i = j

Depositing == {"before", "deposit", "sent", "receipt", "decode"}
Matched    == {"wait", "batch", "schedule", "scheduling", "done"}
InTree     == Matched \ {"wait"}
Handed     == {"scheduling", "done"}

\* How far the deposits of a call are.
Progress(L, c, lab, p, t) ==
  /\ lab = "idle" => p = NoPlan
  /\ lab \notin {"idle", "failed"} => Asked(p)
  /\ \A part \in Parts : t[part] # "none" => Asked(p)
  /\ lab \in {"idle", "quotes", "fee"} =>
       p.part = "main" /\ t["main"] = "none" /\ t["native"] = "none"
  /\ lab \in {"before", "deposit"} => t[p.part] = "none"
  /\ lab = "sent" => t[p.part] # "none"
  /\ lab \in {"receipt", "decode"} => t[p.part] = "mined"
  /\ lab \in Depositing \cup {"quotes", "fee"} => p.utxos["native"] = <<>>
  /\ lab \in Depositing /\ p.part = "main" => t["native"] = "none"
  /\ lab \in Depositing /\ p.part = "native" =>
       /\ t["main"] = "mined" /\ NeedsNativeDeposit(p.req) /\ MatchedOK(L, c, p, "main")
  /\ lab \in Matched =>
       /\ t["main"] = "mined" /\ MatchedOK(L, c, p, "main")
       /\ NeedsNativeDeposit(p.req) => MatchedOK(L, c, p, "native")
       /\ ~NeedsNativeDeposit(p.req) => p.utxos["native"] = <<>>

\* The withdrawal of recipient i.
NeedsNative(p, i) == p.req.kind = "bridge" /\ p.req.natives[i] > 0 /\ ~p.req.nativeToken

ItemOf(p, c, i) ==
  [call |-> c, to |-> i, pays |-> p.req.amts[i],
   utxos |-> {p.utxos["main"][i]} \cup (IF NeedsNative(p, i) THEN {p.utxos["native"][i]} ELSE {})]

Built(c, lab, p) ==
  /\ \A i \in DOMAIN p.items : p.items[i] = ItemOf(p, c, i)
  /\ lab \notin {"batch", "schedule", "scheduling", "done"} => p.items = <<>>
  /\ lab = "batch" => Len(p.items) < Len(p.req.amts)
  /\ lab \in {"schedule", "scheduling", "done"} => Len(p.items) = Len(p.req.amts)

\* What the relayer was given for a call, whatever became of the call.
ItemGood(L, c, p, it) ==
  /\ it.to \in DOMAIN p.req.amts /\ it.pays = p.req.amts[it.to]
  /\ \E m \in CoinsOf(L, c, "main") :
       /\ L[m].amt = WantedOf(p, "main")[it.to]
       /\ \/ ~NeedsNative(p, it.to) /\ it.utxos = {m}
          \/ /\ NeedsNative(p, it.to)
             /\ \E n \in CoinsOf(L, c, "native") :
                  L[n].amt = p.req.natives[it.to] /\ it.utxos = {m, n}

Relayed(L, c, lab, p, t, I) ==
  /\ \A it \in I : it.call = c =>
       lab \in Handed \cup {"failed"} /\ t["main"] = "mined" /\ ItemGood(L, c, p, it)
  /\ lab \in Handed => \A i \in DOMAIN p.req.amts : \E it \in I : it.call = c /\ it.to = i

Told(L, c, lab, t, st, v) ==
  /\ st["main"] = "afterDeposit" => t["main"] = "mined"
  /\ st["main"] \in {"beforeSchedule", "afterSchedule"} =>
       /\ lab \in Handed \cup {"failed"} /\ t["main"] = "mined"
       /\ \A k \in CoinsOf(L, c, "main") : k <= v
  /\ st["main"] = "afterSchedule" => lab = "done"

CallOK(c, lab, p, t, st, L, v, I) ==
  /\ Terms(p)
  /\ CoinsOK(L, c, p, t, "main") /\ CoinsOK(L, c, p, t, "native")
  /\ Progress(L, c, lab, p, t)
  /\ lab \in InTree => Deposited(p) \subseteq 1 .. v
  /\ Built(c, lab, p)
  /\ Relayed(L, c, lab, p, t, I)
  /\ Told(L, c, lab, t, st, v)

CallsOK == \A c \in Calls : CallOK(c, pc[c], plan[c], tx[c], status[c], leaves, view, Items)

-----------------------------------------------------------------------------
(***************************************************************************)
(* The relayer and the loops.                                              *)
(***************************************************************************)
\* Withdrawals of a call are for different recipients and share no UTXO.
Apart(I) ==
  \A a, b \in I : a.call = b.call /\ (a.to = b.to \/ a.utxos \cap b.utxos # {}) => a = b

RelayerOK ==
  /\ Items \in SUBSET ItemType /\ Apart(Items)
  /\ scheduled \cap executed = {} /\ scheduled \cap dropped = {} /\ executed \cap dropped = {}

\* What a transaction of a loop takes out of the pool.
Takes(L, ids, pays, fee, left) ==
  /\ ids \in SUBSET {k \in DOMAIN L : L[k].call \in Calls}
  /\ IsFiniteSet(ids) /\ Cardinality(ids) \in 1 .. MaxInput
  /\ pays \in Int /\ pays > 0
  /\ SumFunctionOnSet([k \in DOMAIN L |-> L[k].amt], ids) = pays + fee + left

LoopOK(lab, p, t, L) ==
  /\ lab \notin {"idle", "sent"} => t # "pending"
  /\ lab \in {"fee", "pad", "send"} => p.total > 0
  /\ lab \in {"pad", "send"} => p.total - p.fee > 0
  /\ lab = "send" \/ t = "pending" =>
       Takes(L, Ids(ToSet(p.ins)), p.total - p.fee, p.fee, p.left)

LoopsOK == \A w \in Loops : LoopOK(lpc[w], lplan[w], ltx[w], leaves)

\* Every nullifier belongs to one withdrawal.
Ledger ==
  /\ spent = Paid \cup Recovered /\ Paid \cap Recovered = {}
  /\ \A x \in withdrawn : Takes(leaves, x.ids, x.pays, x.fee, x.left)
  /\ \A x, y \in withdrawn : x # y => x.ids \cap y.ids = {}

IInv == Shape /\ CallsOK /\ RelayerOK /\ LoopsOK /\ Ledger /\ RefusedOnlyIfRecovered

-----------------------------------------------------------------------------
(***************************************************************************)
(* Amounts with fees.                                                      *)
(***************************************************************************)
LEMMA DivNat ==
  ASSUME NEW b \in Nat \ {0}, NEW x \in Nat, NEW y \in Nat, x <= y
  PROVE  x \div b \in Nat /\ y \div b \in Nat /\ x \div b <= y \div b
<1> DEFINE dx == x \div b
           dy == y \div b
<1>1. dx \in Int /\ b * dx <= x /\ x < b * dx + b /\ dx >= 0
  OBVIOUS
<1>2. dy \in Int /\ b * dy <= y /\ y < b * dy + b /\ dy >= 0
  OBVIOUS
<1> HIDE DEF dx, dy
<1>3. CASE dx <= dy
  BY <1>1, <1>2, <1>3 DEF dx, dy
<1>4. CASE dy + 1 <= dx
  <2>1. b * (dy + 1) <= b * dx
    BY <1>1, <1>2, <1>4
  <2>2. b * (dy + 1) = b * dy + b
    BY <1>2
  <2>3. b * dx \in Int /\ b * dy \in Int
    BY <1>1, <1>2
  <2> QED
    BY <1>1, <1>2, <2>1, <2>2, <2>3
<1> QED
  BY <1>1, <1>2, <1>3, <1>4

\* Fees are natural numbers and do not fall when the amount rises.
LEMMA FeeNat ==
  ASSUME NEW a \in Nat, NEW b \in Nat, a <= b, NEW fee \in FeeType
  PROVE  /\ CalculateTotalFee(a, fee) \in Nat /\ CalculateTotalFee(b, fee) \in Nat
         /\ CalculateTotalFee(a, fee) <= CalculateTotalFee(b, fee)
<1> DEFINE x == a * fee.rate
           y == b * fee.rate
           dx == x \div BPS
           dy == y \div BPS
<1>1. fee.flat \in Nat /\ fee.rate \in Nat
  BY DEF FeeType
<1>2. x \in Nat /\ y \in Nat /\ x <= y
  BY <1>1
<1>3. CalculateTotalFee(a, fee) = fee.flat + dx /\ CalculateTotalFee(b, fee) = fee.flat + dy
  BY DEF CalculateTotalFee
<1> HIDE DEF x, y
<1>4. dx \in Nat /\ dy \in Nat /\ dx <= dy
  BY <1>2, DivNat, RateAssumption
<1> HIDE DEF dx, dy
<1> QED
  BY <1>1, <1>3, <1>4

WithFee(a, fee) == a + CalculateTotalFee(a, fee)

\* So the amount can be told from what the coin holds.
LEMMA WithFeeNat ==
  ASSUME NEW a \in Nat, NEW fee \in FeeType
  PROVE  WithFee(a, fee) \in Nat /\ WithFee(a, fee) >= a /\ WithFee(a, fee) - CalculateTotalFee(a, fee) = a
<1>1. CalculateTotalFee(a, fee) \in Nat
  BY FeeNat
<1> QED
  BY <1>1 DEF WithFee

LEMMA WithFeeInjective ==
  ASSUME NEW a \in Nat, NEW b \in Nat, NEW fee \in FeeType, WithFee(a, fee) = WithFee(b, fee)
  PROVE  a = b
<1>1. ASSUME NEW x \in Nat, NEW y \in Nat, x < y PROVE WithFee(x, fee) < WithFee(y, fee)
  <2>1. x <= y
    BY <1>1
  <2>2. /\ CalculateTotalFee(x, fee) \in Nat /\ CalculateTotalFee(y, fee) \in Nat
        /\ CalculateTotalFee(x, fee) <= CalculateTotalFee(y, fee)
    BY <2>1, FeeNat
  <2> QED
    BY <1>1, <2>2 DEF WithFee
<1>2. WithFee(a, fee) \in Nat /\ WithFee(b, fee) \in Nat
  BY WithFeeNat
<1> QED
  BY <1>1, <1>2

LEMMA ZeroFeeNone ==
  ASSUME NEW a \in Nat
  PROVE  a + CalculateTotalFee(a, ZeroNativeDepositFeeStructure) = a
<1>1. a * 0 = 0 /\ 0 \div BPS = 0
  BY RateAssumption
<1>2. CalculateTotalFee(a, ZeroNativeDepositFeeStructure) = 0 + (a * 0) \div BPS
  BY DEF CalculateTotalFee, ZeroNativeDepositFeeStructure, ZeroFee
<1> QED
  BY <1>1, <1>2

\* What is asked for.
LEMMA RequestFacts ==
  ASSUME NEW p \in Plans
  PROVE  /\ p.req.amts \in Seq(Int) /\ p.req.natives \in Seq(Nat)
         /\ p.req.kind = "bridge" => Len(p.req.natives) = Len(p.req.amts)
         /\ p.fee \in FeeType
<1>1. p.req \in Requests \cup {NoRequest} /\ p.fee \in FeeType
  BY DEF Plans
<1>2. CASE p.req \in Requests
  BY <1>1, <1>2, RequestAssumption
<1>3. CASE p.req = NoRequest
  <2>1. p.req.amts = <<>> /\ p.req.natives = <<>> /\ p.req.kind = "none"
    BY <1>3 DEF NoRequest
  <2> QED
    BY <1>1, <2>1
<1> QED
  BY <1>1, <1>2, <1>3

LEMMA WantedFacts ==
  ASSUME NEW p \in Plans, Terms(p)
  PROVE  /\ WantedOf(p, "main") = [i \in DOMAIN p.req.amts |-> WithFee(p.req.amts[i], p.fee)]
         /\ DOMAIN WantedOf(p, "main") = 1 .. Len(p.req.amts) /\ Len(p.req.amts) \in Nat
         /\ DOMAIN p.req.amts = 1 .. Len(p.req.amts)
         /\ \A i \in DOMAIN p.req.amts : /\ p.req.amts[i] \in Nat /\ p.req.amts[i] > 0
                                         /\ WantedOf(p, "main")[i] = WithFee(p.req.amts[i], p.fee)
                                         /\ WantedOf(p, "main")[i] \in Nat /\ WantedOf(p, "main")[i] > 0
         /\ DOMAIN WantedOf(p, "native") = 1 .. Len(p.req.natives) /\ Len(p.req.natives) \in Nat
         /\ DOMAIN p.req.natives = 1 .. Len(p.req.natives)
         /\ \A i \in DOMAIN p.req.natives : /\ WantedOf(p, "native")[i] = p.req.natives[i]
                                            /\ p.req.natives[i] \in Nat
<1>1. /\ p.req.amts \in Seq(Int) /\ p.req.natives \in Seq(Nat) /\ p.fee \in FeeType
  BY RequestFacts
<1>2. /\ DOMAIN p.req.amts = 1 .. Len(p.req.amts) /\ Len(p.req.amts) \in Nat
      /\ DOMAIN p.req.natives = 1 .. Len(p.req.natives) /\ Len(p.req.natives) \in Nat
      /\ \A i \in DOMAIN p.req.natives : p.req.natives[i] \in Nat
      /\ \A i \in DOMAIN p.req.amts : p.req.amts[i] \in Int
  BY <1>1
<1>3. \A i \in DOMAIN p.req.amts : p.req.amts[i] \in Nat /\ p.req.amts[i] > 0
  BY <1>2 DEF Terms
<1>4. WantedOf(p, "main") = [i \in DOMAIN p.req.amts |-> WithFee(p.req.amts[i], p.fee)]
  BY DEF WantedOf, Wanted, DepositAndWithdrawUtxoAmounts, WithFee, Plans
<1>5. WantedOf(p, "native") =
        [i \in DOMAIN p.req.natives |->
           p.req.natives[i] + CalculateTotalFee(p.req.natives[i], ZeroNativeDepositFeeStructure)]
  BY DEF WantedOf, Wanted, DepositAndWithdrawUtxoAmounts, Plans
<1>6. \A i \in DOMAIN p.req.natives : WantedOf(p, "native")[i] = p.req.natives[i]
  BY <1>2, <1>5, ZeroFeeNone
<1>7. ASSUME NEW i \in DOMAIN p.req.amts
      PROVE  /\ WantedOf(p, "main")[i] = WithFee(p.req.amts[i], p.fee)
             /\ WantedOf(p, "main")[i] \in Nat /\ WantedOf(p, "main")[i] > 0
  <2>1. WithFee(p.req.amts[i], p.fee) \in Nat /\ WithFee(p.req.amts[i], p.fee) >= p.req.amts[i]
    BY <1>1, <1>3, WithFeeNat
  <2>2. WantedOf(p, "main")[i] = WithFee(p.req.amts[i], p.fee)
    BY <1>4
  <2> QED
    BY <1>3, <2>1, <2>2
<1>8. DOMAIN WantedOf(p, "main") = DOMAIN p.req.amts
  BY <1>4
<1>9. DOMAIN WantedOf(p, "native") = DOMAIN p.req.natives
  BY <1>5
<1> QED
  BY <1>2, <1>3, <1>4, <1>6, <1>7, <1>8, <1>9

LEMMA WantedSame ==
  ASSUME NEW p \in Plans, NEW q \in Plans, q.req = p.req, q.fee = p.fee, NEW part \in Parts
  PROVE  WantedOf(q, part) = WantedOf(p, part)
BY DEF WantedOf, Wanted, Plans, Parts

LEMMA WantedNat ==
  ASSUME NEW p \in Plans, Terms(p), NEW part \in Parts
  PROVE  /\ \A i \in DOMAIN WantedOf(p, part) : WantedOf(p, part)[i] \in Nat
         /\ DOMAIN WantedOf(p, part) \in SUBSET Nat /\ IsFiniteSet(DOMAIN WantedOf(p, part))
         /\ \E n \in Nat : DOMAIN WantedOf(p, part) = 1 .. n
<1> DEFINE w == WantedOf(p, part)
<1>1. PICK n \in Nat : DOMAIN w = 1 .. n
  <2>1. CASE part = "main"
    BY <2>1, WantedFacts
  <2>2. CASE part = "native"
    BY <2>2, WantedFacts
  <2> QED
    BY <2>1, <2>2 DEF Parts
<1>2. \A i \in DOMAIN w : w[i] \in Nat
  <2>1. CASE part = "main"
    <3>1. DOMAIN w = DOMAIN p.req.amts
      BY <2>1, WantedFacts
    <3> QED
      BY <2>1, <3>1, WantedFacts
  <2>2. CASE part = "native"
    <3>1. DOMAIN w = DOMAIN p.req.natives
      BY <2>2, WantedFacts
    <3> QED
      BY <2>2, <3>1, WantedFacts
  <2> QED
    BY <2>1, <2>2 DEF Parts
<1>3. IsFiniteSet(1 .. n)
  BY FS_Interval
<1> HIDE DEF w
<1> QED
  BY <1>1, <1>2, <1>3 DEF w

-----------------------------------------------------------------------------
(***************************************************************************)
(* The tree only grows.                                                    *)
(***************************************************************************)
Longer(L, L2) ==
  /\ L \in Seq(LeafType) /\ L2 \in Seq(LeafType) /\ Len(L) <= Len(L2)
  /\ \A k \in DOMAIN L : L2[k] = L[k]

\* No new leaf of call c.
SameCoins(L, L2, c) == \A k \in DOMAIN L2 : k \in DOMAIN L \/ L2[k].call # c

LEMMA LongerFacts ==
  ASSUME NEW L, NEW L2, Longer(L, L2)
  PROVE  /\ DOMAIN L = 1 .. Len(L) /\ DOMAIN L2 = 1 .. Len(L2) /\ Len(L) \in Nat /\ Len(L2) \in Nat
         /\ DOMAIN L \in SUBSET DOMAIN L2
         /\ \A c, part : CoinsOf(L, c, part) \in SUBSET CoinsOf(L2, c, part)
         /\ \A c : SameCoins(L, L2, c) => \A part : CoinsOf(L2, c, part) = CoinsOf(L, c, part)
<1>1. /\ DOMAIN L = 1 .. Len(L) /\ DOMAIN L2 = 1 .. Len(L2) /\ Len(L) \in Nat /\ Len(L2) \in Nat
      /\ Len(L) <= Len(L2)
  BY DEF Longer
<1>2. DOMAIN L \in SUBSET DOMAIN L2
  BY <1>1
<1> QED
  BY <1>1, <1>2 DEF Longer, CoinsOf, SameCoins

LEMMA LongerSame ==
  ASSUME NEW L, L \in Seq(LeafType)
  PROVE  Longer(L, L) /\ \A c : SameCoins(L, L, c)
BY DEF Longer, SameCoins

LEMMA LongerAppend ==
  ASSUME NEW L, L \in Seq(LeafType), NEW x \in LeafType
  PROVE  /\ Append(L, x) \in Seq(LeafType) /\ Longer(L, Append(L, x))
         /\ \A c : c # x.call => SameCoins(L, Append(L, x), c)
<1>1. Append(L, x) \in Seq(LeafType) /\ Len(Append(L, x)) = Len(L) + 1 /\ Len(L) \in Nat
  OBVIOUS
<1>2. \A k \in 1 .. Len(L) : Append(L, x)[k] = L[k]
  OBVIOUS
<1>3. Append(L, x)[Len(L) + 1] = x
  OBVIOUS
<1>4. DOMAIN L = 1 .. Len(L) /\ DOMAIN Append(L, x) = 1 .. Len(L) + 1
  BY <1>1
<1>5. Longer(L, Append(L, x))
  BY <1>1, <1>2, <1>4 DEF Longer
<1>6. \A k \in DOMAIN Append(L, x) : k \in DOMAIN L \/ k = Len(L) + 1
  BY <1>1, <1>4
<1> QED
  BY <1>1, <1>3, <1>5, <1>6 DEF SameCoins

\* What holds of the coins of a call survives the leaves of others.
LEMMA CoinsGrow ==
  ASSUME NEW L, NEW L2, Longer(L, L2), NEW c, SameCoins(L, L2, c), NEW p, NEW t, NEW part,
         CoinsOK(L, c, p, t, part)
  PROVE  CoinsOK(L2, c, p, t, part)
<1>1. CoinsOf(L2, c, part) = CoinsOf(L, c, part)
  BY LongerFacts
<1>2. \A k \in CoinsOf(L, c, part) : L2[k] = L[k]
  BY DEF Longer, CoinsOf
<1> QED
  BY <1>1, <1>2 DEF CoinsOK

LEMMA MatchedGrow ==
  ASSUME NEW L, NEW L2, Longer(L, L2), NEW c, NEW p, NEW part, MatchedOK(L, c, p, part)
  PROVE  MatchedOK(L2, c, p, part)
<1>1. CoinsOf(L, c, part) \in SUBSET CoinsOf(L2, c, part)
  BY LongerFacts
<1>2. \A k \in CoinsOf(L, c, part) : L2[k] = L[k]
  BY DEF Longer, CoinsOf
<1> QED
  BY <1>1, <1>2 DEF MatchedOK

LEMMA ItemGrow ==
  ASSUME NEW L, NEW L2, Longer(L, L2), NEW c, NEW p, NEW it, ItemGood(L, c, p, it)
  PROVE  ItemGood(L2, c, p, it)
<1>1. \A part : CoinsOf(L, c, part) \in SUBSET CoinsOf(L2, c, part)
  BY LongerFacts
<1>2. \A part : \A k \in CoinsOf(L, c, part) : L2[k] = L[k]
  BY DEF Longer, CoinsOf
<1> QED
  BY <1>1, <1>2 DEF ItemGood

\* So the steps of others leave a call as it is.
LEMMA CallKeeps ==
  ASSUME NEW c, NEW lab, NEW p, NEW t, NEW st, NEW L, NEW v, NEW I,
         CallOK(c, lab, p, t, st, L, v, I),
         NEW L2, Longer(L, L2), SameCoins(L, L2, c),
         v \in Nat, NEW v2 \in Nat, v <= v2,
         NEW I2, \A it : it.call = c => (it \in I2 <=> it \in I)
  PROVE  CallOK(c, lab, p, t, st, L2, v2, I2)
<1>1. CoinsOK(L2, c, p, t, "main") /\ CoinsOK(L2, c, p, t, "native")
  BY CoinsGrow DEF CallOK
<1>2. Progress(L2, c, lab, p, t)
  <2>1. Progress(L, c, lab, p, t)
    BY DEF CallOK
  <2>2. \A part : MatchedOK(L, c, p, part) => MatchedOK(L2, c, p, part)
    BY MatchedGrow
  <2> QED
    BY <2>1, <2>2 DEF Progress
<1>3. lab \in InTree => Deposited(p) \subseteq 1 .. v2
  <2>1. lab \in InTree => Deposited(p) \subseteq 1 .. v
    BY DEF CallOK
  <2>2. 1 .. v \subseteq 1 .. v2
    OBVIOUS
  <2> QED
    BY <2>1, <2>2
<1>4. Relayed(L2, c, lab, p, t, I2)
  <2>1. Relayed(L, c, lab, p, t, I)
    BY DEF CallOK
  <2>2. \A it : ItemGood(L, c, p, it) => ItemGood(L2, c, p, it)
    BY ItemGrow
  <2> QED
    BY <2>1, <2>2 DEF Relayed
<1>5. Told(L2, c, lab, t, st, v2)
  <2>1. Told(L, c, lab, t, st, v)
    BY DEF CallOK
  <2>2. CoinsOf(L2, c, "main") = CoinsOf(L, c, "main")
    BY LongerFacts
  <2>3. \A k \in CoinsOf(L, c, "main") : k <= v => k <= v2
    <3>1. CoinsOf(L, c, "main") \in SUBSET Nat
      BY LongerFacts DEF CoinsOf
    <3> QED
      BY <3>1
  <2> QED
    BY <2>1, <2>2, <2>3 DEF Told
<1>6. Terms(p) /\ Built(c, lab, p)
  BY DEF CallOK
<1> QED
  BY <1>1, <1>2, <1>3, <1>4, <1>5, <1>6 DEF CallOK

-----------------------------------------------------------------------------
(***************************************************************************)
(* Matching recipients and UTXOs.                                          *)
(***************************************************************************)
LEMMA CoinsNat ==
  ASSUME NEW L, L \in Seq(LeafType), NEW c, NEW part
  PROVE  /\ CoinsOf(L, c, part) \in SUBSET (Nat \ {0}) /\ IsFiniteSet(CoinsOf(L, c, part))
         /\ \A k \in CoinsOf(L, c, part) : L[k] \in LeafType /\ k \in DOMAIN L
<1>1. DOMAIN L = 1 .. Len(L) /\ Len(L) \in Nat
  OBVIOUS
<1>2. IsFiniteSet(DOMAIN L)
  BY <1>1, FS_Interval
<1>3. CoinsOf(L, c, part) \in SUBSET DOMAIN L
  BY DEF CoinsOf
<1>4. IsFiniteSet(CoinsOf(L, c, part))
  BY <1>2, <1>3, FS_Subset
<1>5. DOMAIN L \in SUBSET (Nat \ {0})
  BY <1>1
<1>6. \A k \in DOMAIN L : L[k] \in LeafType
  BY <1>1
<1> QED
  BY <1>3, <1>4, <1>5, <1>6

\* matchRecipientUtxos, when it finds a UTXO for everyone.
LEMMA MatchGives ==
  ASSUME NEW c, NEW part, NEW n \in Nat, NEW w, DOMAIN w = 1 .. n,
         leaves \in Seq(LeafType),
         NEW m, m = MatchRecipientUtxos(w, DecodeFromReceipt(c, part)), 0 \notin ToSet(m)
  PROVE  /\ m \in Seq(Nat) /\ DOMAIN m = DOMAIN w
         /\ \A i \in DOMAIN w : m[i] \in CoinsOf(leaves, c, part) /\ leaves[m[i]].amt = w[i]
         /\ \A i, j \in DOMAIN w : m[i] = m[j] => i = j
<1> DEFINE U == CoinsOf(leaves, c, part)
           Sooner(i) == {h \in 1 .. i - 1 : w[h] = w[i]}
           Lower(k, a) == {j \in U : j < k /\ leaves[j].amt = a}
<1>1. DecodeFromReceipt(c, part) = U
  BY DEF DecodeFromReceipt, CoinsOf
<1>2. m = [i \in DOMAIN w |-> FirstOr0(Nth(U, w[i], Cardinality(Sooner(i))))]
  BY <1>1 DEF MatchRecipientUtxos
<1>3. ASSUME NEW i \in DOMAIN w
      PROVE  /\ m[i] \in U /\ leaves[m[i]].amt = w[i]
             /\ Cardinality(Lower(m[i], w[i])) = Cardinality(Sooner(i))
  <2> DEFINE H == Nth(U, w[i], Cardinality(Sooner(i)))
  <2>1. m[i] = FirstOr0(H)
    BY <1>2
  <2>2. m[i] # 0
    <3>1. m[i] \in ToSet(m)
      BY <1>2 DEF ToSet
    <3> QED
      BY <3>1
  <2>3. m[i] \in H
    <3> HIDE DEF H
    <3> QED
      BY <2>1, <2>2 DEF FirstOr0
  <2> QED
    BY <2>3 DEF Nth
<1>4. DOMAIN m = DOMAIN w
  BY <1>2
<1>5. m \in Seq(Nat)
  <2>1. U \in SUBSET Nat
    BY CoinsNat
  <2>2. m \in [1 .. n -> Nat]
    <3>1. m = [i \in 1 .. n |-> m[i]]
      BY <1>2
    <3>2. \A i \in 1 .. n : m[i] \in Nat
      BY <1>3, <2>1
    <3> HIDE DEF U
    <3> QED
      BY <3>1, <3>2
  <2> QED
    BY <2>2, SeqDef
<1>6. ASSUME NEW i \in DOMAIN w, NEW j \in DOMAIN w, i < j, m[i] = m[j] PROVE FALSE
  <2>1. w[i] = w[j]
    BY <1>3, <1>6
  <2>2. Cardinality(Sooner(i)) = Cardinality(Sooner(j))
    BY <1>3, <1>6, <2>1
  <2>3. i \in Nat /\ j \in Nat
    OBVIOUS
  <2>4. Sooner(i) \in SUBSET Sooner(j) /\ i \in Sooner(j) /\ i \notin Sooner(i)
    BY <1>6, <2>1, <2>3
  <2>5. IsFiniteSet(Sooner(j))
    <3>1. IsFiniteSet(1 .. j - 1)
      BY <2>3, FS_Interval
    <3>2. Sooner(j) \in SUBSET (1 .. j - 1)
      OBVIOUS
    <3> QED
      BY <3>1, <3>2, FS_Subset
  <2> HIDE DEF Sooner
  <2>6. Sooner(i) = Sooner(j)
    BY <2>2, <2>4, <2>5, FS_Subset
  <2> QED
    BY <2>4, <2>6
<1>7. \A i, j \in DOMAIN w : m[i] = m[j] => i = j
  <2>1. SUFFICES ASSUME NEW i \in DOMAIN w, NEW j \in DOMAIN w, m[i] = m[j], i # j PROVE FALSE
    OBVIOUS
  <2>2. i < j \/ j < i
    BY <2>1
  <2> QED
    BY <1>6, <2>1, <2>2
<1> HIDE DEF Sooner, Lower
<1> QED
  BY <1>3, <1>4, <1>5, <1>7

\* Every coin of a deposit then has its recipient.
LEMMA MatchedAll ==
  ASSUME NEW L, L \in Seq(LeafType), NEW c, NEW p \in Plans, Terms(p), NEW t, NEW part \in Parts,
         CoinsOK(L, c, p, t, part), MatchedOK(L, c, p, part)
  PROVE  ToSet(p.utxos[part]) = CoinsOf(L, c, part)
<1> DEFINE C == CoinsOf(L, c, part)
           w == WantedOf(p, part)
           D == DOMAIN w
           u == p.utxos[part]
           s == [k \in C |-> L[k].slot]
           f == [i \in D |-> u[i]]
<1>1. IsFiniteSet(C)
  BY CoinsNat
<1>2. IsFiniteSet(D)
  BY WantedNat
<1>3. /\ DOMAIN u = D /\ \A i \in D : u[i] \in C
      /\ \A i, j \in D : u[i] = u[j] => i = j
  BY DEF MatchedOK
<1>4. /\ \A k \in C : L[k].slot \in D
      /\ \A k, m \in C : L[k].slot = L[m].slot => k = m
  BY DEF CoinsOK
<1> HIDE DEF C, D, u, w
<1>5. s \in Injection(C, D)
  BY <1>4 DEF Injection, IsInjective
<1>6. f \in Injection(D, C)
  BY <1>3 DEF Injection, IsInjective
<1>7. Cardinality(C) <= Cardinality(D)
  BY <1>1, <1>2, <1>5, FS_Injection
<1>8. Cardinality(D) <= Cardinality(C)
  BY <1>1, <1>2, <1>6, FS_Injection
<1>9. Cardinality(C) \in Nat /\ Cardinality(D) \in Nat
  BY <1>1, <1>2, FS_CardinalityType
<1>10. Cardinality(D) = Cardinality(C)
  BY <1>7, <1>8, <1>9
<1>11. f \in Surjection(D, C)
  BY <1>1, <1>2, <1>6, <1>10, FS_Injection
<1>12. \A k \in C : \E i \in D : f[i] = k
  BY <1>11 DEF Surjection
<1>13. ToSet(u) = C
  BY <1>3, <1>12 DEF ToSet
<1> QED
  BY <1>13 DEF C, u

-----------------------------------------------------------------------------
(***************************************************************************)
(* Withdrawals.                                                            *)
(***************************************************************************)
\* The UTXOs of a call whose deposits are matched.
AllMatched(L, c, p) ==
  /\ MatchedOK(L, c, p, "main")
  /\ NeedsNativeDeposit(p.req) => MatchedOK(L, c, p, "native")

LEMMA NativeNeeded ==
  ASSUME NEW p \in Plans, Terms(p), NEW i \in DOMAIN p.req.amts, NeedsNative(p, i)
  PROVE  NeedsNativeDeposit(p.req) /\ i \in DOMAIN p.req.natives
<1>1. Len(p.req.natives) = Len(p.req.amts)
  BY RequestFacts DEF NeedsNative
<1>2. DOMAIN p.req.natives = DOMAIN p.req.amts
  BY <1>1, WantedFacts
<1> QED
  BY <1>2 DEF NeedsNative, NeedsNativeDeposit

\* The recipient gets what the caller asked for.
LEMMA ItemPays ==
  ASSUME NEW p \in Plans, Terms(p), NEW i \in DOMAIN p.req.amts
  PROVE  WantedOf(p, "main")[i] - ItemFee(p, i).flat = p.req.amts[i]
<1>1. /\ p.req.amts[i] \in Nat /\ WantedOf(p, "main")[i] = WithFee(p.req.amts[i], p.fee)
      /\ p.fee \in FeeType
  BY WantedFacts, RequestFacts
<1>2. ItemFee(p, i).flat = CalculateTotalFee(p.req.amts[i], p.fee)
  BY DEF ItemFee, CalculateModifiedFeeStructure, Terms
<1>3. WithFee(p.req.amts[i], p.fee) - CalculateTotalFee(p.req.amts[i], p.fee) = p.req.amts[i]
  BY <1>1, WithFeeNat
<1> QED
  BY <1>1, <1>2, <1>3

LEMMA BatchItemIs ==
  ASSUME NEW c \in Calls, NEW p \in Plans, p = plan[c], Terms(p), AllMatched(leaves, c, p),
         Asked(p), NEW i \in DOMAIN p.req.amts
  PROVE  BatchItem(c, i) = ItemOf(p, c, i)
<1> DEFINE m == p.utxos["main"][i]
<1>1. leaves[m].amt = WantedOf(p, "main")[i]
  <2>1. i \in DOMAIN WantedOf(p, "main")
    BY WantedFacts
  <2> QED
    BY <2>1 DEF AllMatched, MatchedOK
<1>2. leaves[m].amt - ItemFee(p, i).flat = p.req.amts[i]
  BY <1>1, ItemPays
<1>3. CASE p.req.kind = "bridge"
  <2>1. p.req.net # "solana"
    BY <1>3 DEF Terms
  <2>2. BatchItem(c, i) = BridgeItem(c, i)
    BY <1>3, <2>1 DEF BatchItem
  <2>3. NeedsNative(p, i) <=> p.req.natives[i] > 0 /\ ~p.req.nativeToken
    BY <1>3 DEF NeedsNative
  <2> QED
    BY <1>2, <2>2, <2>3 DEF BridgeItem, Item, ItemOf
<1>4. CASE p.req.kind # "bridge"
  <2>1. BatchItem(c, i) = Item(c, i, {m}, ItemFee(p, i))
    BY <1>4 DEF BatchItem, WithdrawItem, SolanaWithdrawItem
  <2>2. ~NeedsNative(p, i)
    BY <1>4 DEF NeedsNative
  <2>3. {m} \cup {} = {m}
    OBVIOUS
  <2> QED
    BY <1>2, <2>1, <2>2, <2>3 DEF Item, ItemOf
<1> QED
  BY <1>3, <1>4

LEMMA ItemOfGood ==
  ASSUME NEW L, L \in Seq(LeafType), NEW c \in Calls, NEW p \in Plans, Terms(p),
         AllMatched(L, c, p), NEW i \in DOMAIN p.req.amts
  PROVE  /\ ItemOf(p, c, i) \in ItemType /\ ItemGood(L, c, p, ItemOf(p, c, i))
         /\ ItemOf(p, c, i).call = c /\ ItemOf(p, c, i).to = i
<1> DEFINE it == ItemOf(p, c, i)
           m == p.utxos["main"][i]
           n == p.utxos["native"][i]
<1>1. /\ it.call = c /\ it.to = i /\ it.pays = p.req.amts[i]
      /\ it.utxos = {m} \cup (IF NeedsNative(p, i) THEN {n} ELSE {})
      /\ it = [call |-> it.call, to |-> it.to, utxos |-> it.utxos, pays |-> it.pays]
  BY DEF ItemOf
<1>2. i \in Nat /\ p.req.amts[i] \in Nat /\ i \in DOMAIN WantedOf(p, "main")
  BY WantedFacts
<1>3. m \in CoinsOf(L, c, "main") /\ L[m].amt = WantedOf(p, "main")[i]
  BY <1>2 DEF AllMatched, MatchedOK
<1>4. \A part : CoinsOf(L, c, part) \in SUBSET Nat
  BY CoinsNat
<1>5. CASE ~NeedsNative(p, i)
  <2>1. it.utxos = {m}
    BY <1>1, <1>5
  <2>2. it.utxos \in SUBSET Nat
    BY <1>3, <1>4, <2>1
  <2> HIDE DEF it, m, n
  <2>3. it \in ItemType
    BY <1>1, <1>2, <2>2 DEF ItemType
  <2>4. ItemGood(L, c, p, it)
    BY <1>1, <1>3, <1>5, <2>1 DEF ItemGood
  <2> QED
    BY <1>1, <2>3, <2>4 DEF it
<1>6. CASE NeedsNative(p, i)
  <2>1. NeedsNativeDeposit(p.req) /\ i \in DOMAIN p.req.natives
    BY <1>6, NativeNeeded
  <2>2. i \in DOMAIN WantedOf(p, "native") /\ WantedOf(p, "native")[i] = p.req.natives[i]
    BY <2>1, WantedFacts
  <2>3. n \in CoinsOf(L, c, "native") /\ L[n].amt = p.req.natives[i]
    BY <2>1, <2>2 DEF AllMatched, MatchedOK
  <2>4. it.utxos = {m, n}
    BY <1>1, <1>6
  <2>5. it.utxos \in SUBSET Nat
    BY <1>3, <1>4, <2>3, <2>4
  <2> HIDE DEF it, m, n
  <2>6. it \in ItemType
    BY <1>1, <1>2, <2>5 DEF ItemType
  <2>7. ItemGood(L, c, p, it)
    BY <1>1, <1>3, <1>6, <2>3, <2>4 DEF ItemGood
  <2> QED
    BY <1>1, <2>6, <2>7 DEF it
<1> QED
  BY <1>5, <1>6

\* No two of a batch share a UTXO.
LEMMA ItemsApart ==
  ASSUME NEW L, NEW c, NEW p \in Plans, Terms(p), AllMatched(L, c, p),
         NEW i \in DOMAIN p.req.amts, NEW j \in DOMAIN p.req.amts,
         ItemOf(p, c, i).utxos \cap ItemOf(p, c, j).utxos # {}
  PROVE  i = j
<1> DEFINE main == p.utxos["main"]
           native == p.utxos["native"]
<1>1. i \in DOMAIN WantedOf(p, "main") /\ j \in DOMAIN WantedOf(p, "main")
  BY WantedFacts
<1>2. /\ main[i] \in CoinsOf(L, c, "main") /\ main[j] \in CoinsOf(L, c, "main")
      /\ main[i] = main[j] => i = j
  BY <1>1 DEF AllMatched, MatchedOK
<1>3. ASSUME NEW k \in DOMAIN p.req.amts, NeedsNative(p, k)
      PROVE  /\ NeedsNativeDeposit(p.req) /\ k \in DOMAIN WantedOf(p, "native")
             /\ native[k] \in CoinsOf(L, c, "native")
  <2>1. NeedsNativeDeposit(p.req) /\ k \in DOMAIN p.req.natives
    BY <1>3, NativeNeeded
  <2>2. k \in DOMAIN WantedOf(p, "native")
    BY <2>1, WantedFacts
  <2> QED
    BY <2>1, <2>2 DEF AllMatched, MatchedOK
<1>4. NeedsNative(p, i) /\ NeedsNative(p, j) /\ native[i] = native[j] => i = j
  BY <1>3 DEF AllMatched, MatchedOK
<1>5. CoinsOf(L, c, "main") \cap CoinsOf(L, c, "native") = {}
  BY DEF CoinsOf
<1>6. /\ ItemOf(p, c, i).utxos = {main[i]} \cup (IF NeedsNative(p, i) THEN {native[i]} ELSE {})
      /\ ItemOf(p, c, j).utxos = {main[j]} \cup (IF NeedsNative(p, j) THEN {native[j]} ELSE {})
  BY DEF ItemOf
<1> HIDE DEF main, native
<1> QED
  BY <1>2, <1>3, <1>4, <1>5, <1>6

-----------------------------------------------------------------------------
(***************************************************************************)
(* Steps of one call.                                                      *)
(***************************************************************************)
CallAt(c) == CallOK(c, pc[c], plan[c], tx[c], status[c], leaves, view, Items)

LEMMA CallFacts ==
  ASSUME IInv, NEW c \in Calls
  PROVE  /\ CallAt(c) /\ pc[c] \in Labels /\ plan[c] \in Plans
         /\ tx[c] \in [Parts -> TxStates] /\ status[c] \in [Parts -> Phases]
         /\ leaves \in Seq(LeafType) /\ Len(leaves) \in Nat /\ view \in Nat /\ view <= Len(leaves)
BY DEF IInv, Shape, CallsOK, CallAt

LEMMA ItemsSame ==
  ASSUME UNCHANGED <<scheduled, executed, dropped>>
  PROVE  Items' = Items
BY DEF Items

\* The parts of the invariant that are not about calls.
LEMMA RestSame ==
  ASSUME IInv, UNCHANGED <<leaves, spent, scheduled, executed, dropped>>, UNCHANGED stuckVars
  PROVE  RelayerOK' /\ LoopsOK' /\ Ledger' /\ RefusedOnlyIfRecovered'
<1>1. UNCHANGED <<known, lpc, lplan, ltx, withdrawn, faults>>
  BY DEF stuckVars
<1>2. RelayerOK'
  <2>1. RelayerOK
    BY DEF IInv
  <2> QED
    BY <2>1 DEF RelayerOK, Items
<1>3. LoopsOK'
  <2>1. LoopsOK
    BY DEF IInv
  <2> QED
    BY <1>1, <2>1 DEF LoopsOK
<1>4. Paid' = Paid /\ Recovered' = Recovered
  BY <1>1 DEF Paid, Recovered
<1>5. Ledger'
  <2>1. Ledger
    BY DEF IInv
  <2> QED
    BY <1>1, <1>4, <2>1 DEF Ledger
<1>6. RefusedOnlyIfRecovered'
  <2>1. RefusedOnlyIfRecovered
    BY DEF IInv
  <2> QED
    BY <1>4, <2>1 DEF RefusedOnlyIfRecovered
<1> QED
  BY <1>2, <1>3, <1>5, <1>6

\* A step of one call that leaves the chain and the relayer alone.
LEMMA LocalStep ==
  ASSUME IInv, NEW c \in Calls, NEW lab \in Labels, NEW p \in Plans,
         NEW t \in [Parts -> TxStates], NEW st \in [Parts -> Phases],
         pc' = [pc EXCEPT ![c] = lab], plan' = [plan EXCEPT ![c] = p],
         tx' = [tx EXCEPT ![c] = t], status' = [status EXCEPT ![c] = st],
         view' \in Nat, view <= view', view' <= Len(leaves),
         UNCHANGED <<leaves, spent, scheduled, executed, dropped>>, UNCHANGED stuckVars,
         CallOK(c, lab, p, t, st, leaves, view', Items)
  PROVE  IInv'
<1>1. /\ leaves \in Seq(LeafType) /\ view \in Nat
      /\ pc \in [Calls -> Labels] /\ plan \in [Calls -> Plans]
      /\ tx \in [Calls -> [Parts -> TxStates]] /\ status \in [Calls -> [Parts -> Phases]]
  BY DEF IInv, Shape
<1>2. Items' = Items
  BY ItemsSame
<1>3. Shape'
  <2>1. UNCHANGED <<lpc, lplan, ltx>>
    BY DEF stuckVars
  <2>2. /\ lpc \in [Loops -> {"idle", "reset", "select", "fee", "pad", "send", "sent"}]
        /\ lplan \in [Loops -> LoopPlans] /\ ltx \in [Loops -> TxStates]
    BY DEF IInv, Shape
  <2>3. /\ pc' \in [Calls -> Labels] /\ plan' \in [Calls -> Plans]
        /\ tx' \in [Calls -> [Parts -> TxStates]] /\ status' \in [Calls -> [Parts -> Phases]]
    BY <1>1
  <2> QED
    BY <1>1, <2>1, <2>2, <2>3 DEF Shape
<1>4. ASSUME NEW d \in Calls
      PROVE  CallOK(d, pc'[d], plan'[d], tx'[d], status'[d], leaves, view', Items)
  <2>1. CASE d = c
    <3>1. pc'[d] = lab /\ plan'[d] = p /\ tx'[d] = t /\ status'[d] = st
      BY <1>1, <2>1
    <3> QED
      BY <2>1, <3>1
  <2>2. CASE d # c
    <3>1. pc'[d] = pc[d] /\ plan'[d] = plan[d] /\ tx'[d] = tx[d] /\ status'[d] = status[d]
      BY <1>1, <2>2
    <3>2. CallOK(d, pc[d], plan[d], tx[d], status[d], leaves, view, Items)
      BY DEF IInv, CallsOK
    <3>3. Longer(leaves, leaves) /\ SameCoins(leaves, leaves, d)
      BY <1>1, LongerSame
    <3>4. \A it : it.call = d => (it \in Items <=> it \in Items)
      OBVIOUS
    <3>5. CallOK(d, pc[d], plan[d], tx[d], status[d], leaves, view', Items)
      BY <1>1, <3>2, <3>3, <3>4, CallKeeps
    <3> QED
      BY <3>1, <3>5
  <2> QED
    BY <2>1, <2>2
<1>5. CallsOK'
  BY <1>2, <1>4 DEF CallsOK
<1>6. RelayerOK' /\ LoopsOK' /\ Ledger' /\ RefusedOnlyIfRecovered'
  BY RestSame
<1> QED
  BY <1>3, <1>5, <1>6 DEF IInv

-----------------------------------------------------------------------------
\* The same request and fee want the same coins.
LEMMA CoinsSame ==
  ASSUME NEW L, NEW c, NEW p \in Plans, NEW q \in Plans, q.req = p.req, q.fee = p.fee,
         NEW t, NEW part \in Parts, CoinsOK(L, c, p, t, part)
  PROVE  CoinsOK(L, c, q, t, part)
<1>1. WantedOf(q, part) = WantedOf(p, part)
  BY WantedSame
<1> QED
  BY <1>1 DEF CoinsOK

LEMMA MatchedSame ==
  ASSUME NEW L, NEW c, NEW p \in Plans, NEW q \in Plans, q.req = p.req, q.fee = p.fee,
         NEW part \in Parts, q.utxos[part] = p.utxos[part], MatchedOK(L, c, p, part)
  PROVE  MatchedOK(L, c, q, part)
<1>1. WantedOf(q, part) = WantedOf(p, part)
  BY WantedSame
<1> QED
  BY <1>1 DEF MatchedOK

LEMMA ItemSame ==
  ASSUME NEW L, NEW c, NEW p \in Plans, NEW q \in Plans, q.req = p.req, q.fee = p.fee,
         NEW it, ItemGood(L, c, p, it)
  PROVE  ItemGood(L, c, q, it)
<1>1. WantedOf(q, "main") = WantedOf(p, "main")
  BY WantedSame DEF Parts
<1> QED
  BY <1>1 DEF ItemGood, NeedsNative

LEMMA TermsSame ==
  ASSUME NEW p, NEW q, q.req = p.req, q.fee = p.fee, Terms(p)
  PROVE  Terms(q)
BY DEF Terms, Asked

NotHanded == Labels \ {"scheduling", "done", "failed"}

\* A call that has handed nothing to the relayer goes on.
LEMMA Reworked ==
  ASSUME NEW c, NEW lab \in NotHanded, NEW p \in Plans, NEW t, NEW st, NEW L, NEW v, NEW I,
         CallOK(c, lab, p, t, st, L, v, I),
         NEW lab2 \in Labels \ {"scheduling", "done"}, NEW q \in Plans,
         q.req = p.req, q.fee = p.fee,
         Progress(L, c, lab2, q, t), Built(c, lab2, q),
         lab2 \in InTree => Deposited(q) \subseteq 1 .. v
  PROVE  CallOK(c, lab2, q, t, st, L, v, I)
<1>1. lab \notin Handed \cup {"failed"} /\ lab2 \notin Handed
  BY DEF NotHanded, Handed
<1>2. CoinsOK(L, c, q, t, "main") /\ CoinsOK(L, c, q, t, "native")
  BY CoinsSame DEF CallOK, Parts
<1>3. Terms(q)
  BY TermsSame DEF CallOK
<1>4. Relayed(L, c, lab2, q, t, I)
  <2>1. Relayed(L, c, lab, p, t, I)
    BY DEF CallOK
  <2> QED
    BY <1>1, <2>1 DEF Relayed
<1>5. Told(L, c, lab2, t, st, v)
  <2>1. Told(L, c, lab, t, st, v)
    BY DEF CallOK
  <2> QED
    BY <1>1, <2>1 DEF Told
<1> QED
  BY <1>2, <1>3, <1>4, <1>5 DEF CallOK

\* Before anything is on its way, the request and the fee can be set.
LEMMA Refunded ==
  ASSUME NEW c, NEW lab \in {"idle", "quotes", "fee"}, NEW p \in Plans, NEW t, NEW st, NEW L, NEW v, NEW I,
         CallOK(c, lab, p, t, st, L, v, I),
         NEW lab2 \in {"quotes", "fee", "before"}, NEW q \in Plans, Terms(q), Asked(q),
         q.part = "main", q.items = <<>>, q.utxos["native"] = <<>>
  PROVE  CallOK(c, lab2, q, t, st, L, v, I)
<1>1. Progress(L, c, lab, p, t) /\ Relayed(L, c, lab, p, t, I) /\ Told(L, c, lab, t, st, v)
  BY DEF CallOK
<1>2. t["main"] = "none" /\ t["native"] = "none"
  BY <1>1 DEF Progress
<1>3. \A part \in Parts : CoinsOf(L, c, part) = {}
  BY <1>2 DEF CallOK, CoinsOK, Parts
<1>4. CoinsOK(L, c, q, t, "main") /\ CoinsOK(L, c, q, t, "native")
  BY <1>2, <1>3 DEF CoinsOK, Parts
<1>5. Progress(L, c, lab2, q, t)
  BY <1>2 DEF Progress, Depositing, Matched, Parts
<1>6. Built(c, lab2, q)
  BY DEF Built
<1>7. lab \notin Handed \cup {"failed"} /\ lab2 \notin Handed /\ lab2 \notin InTree
  BY DEF Handed, InTree, Matched
<1>8. Relayed(L, c, lab2, q, t, I)
  BY <1>1, <1>7 DEF Relayed
<1>9. Told(L, c, lab2, t, st, v)
  BY <1>1, <1>7 DEF Told
<1> QED
  BY <1>4, <1>5, <1>6, <1>7, <1>8, <1>9 DEF CallOK

FailedPlan(p) == [NoPlan EXCEPT !.req = p.req, !.fee = p.fee]

LEMMA NoPlanType == NoPlan \in Plans
<1>1. NoPlan.fee \in FeeType
  BY DEF NoPlan, FeeType, ZeroFee
<1>2. <<>> \in Seq(Nat) /\ <<>> \in Seq(ItemType)
  OBVIOUS
<1>3. NoPlan.utxos \in [Parts -> Seq(Nat)]
  BY <1>2 DEF NoPlan
<1> QED
  BY <1>1, <1>2, <1>3 DEF NoPlan, Plans, Parts

LEMMA FailedPlanFacts ==
  ASSUME NEW p \in Plans
  PROVE  /\ FailedPlan(p) \in Plans /\ FailedPlan(p).req = p.req /\ FailedPlan(p).fee = p.fee
         /\ FailedPlan(p).items = <<>>
<1>1. NoPlan \in Plans /\ p.req \in Requests \cup {NoRequest} /\ p.fee \in FeeType
  BY NoPlanType DEF Plans
<1>2. FailedPlan(p) \in Plans
  BY <1>1 DEF FailedPlan, Plans
<1>3. NoPlan.items = <<>>
  BY DEF NoPlan
<1> QED
  BY <1>1, <1>2, <1>3 DEF FailedPlan, NoPlan

\* A call can give up anywhere but at its end.
LEMMA GivesUp ==
  ASSUME NEW c, NEW lab \in Labels \ {"done"}, NEW p \in Plans, NEW t, NEW st, NEW L, NEW v, NEW I,
         CallOK(c, lab, p, t, st, L, v, I)
  PROVE  CallOK(c, "failed", FailedPlan(p), t, st, L, v, I)
<1> DEFINE q == FailedPlan(p)
<1>1. q \in Plans /\ q.req = p.req /\ q.fee = p.fee /\ q.items = <<>>
  BY FailedPlanFacts
<1>2. /\ Progress(L, c, lab, p, t) /\ Relayed(L, c, lab, p, t, I) /\ Told(L, c, lab, t, st, v)
      /\ Terms(p) /\ CoinsOK(L, c, p, t, "main") /\ CoinsOK(L, c, p, t, "native")
  BY DEF CallOK
<1> HIDE DEF q
<1>3. CoinsOK(L, c, q, t, "main") /\ CoinsOK(L, c, q, t, "native") /\ Terms(q)
  BY <1>1, <1>2, CoinsSame, TermsSame DEF Parts
<1>4. Progress(L, c, "failed", q, t)
  BY <1>1, <1>2 DEF Progress, Depositing, Matched, Asked
<1>5. Built(c, "failed", q)
  BY <1>1 DEF Built
<1>6. Relayed(L, c, "failed", q, t, I)
  <2>1. \A it : ItemGood(L, c, p, it) => ItemGood(L, c, q, it)
    BY <1>1, ItemSame
  <2> QED
    BY <1>2, <2>1 DEF Relayed, Handed
<1>7. Told(L, c, "failed", t, st, v)
  BY <1>2 DEF Told
<1>8. "failed" \notin InTree
  BY DEF InTree, Matched
<1>9. CallOK(c, "failed", q, t, st, L, v, I)
  BY <1>1, <1>3, <1>4, <1>5, <1>6, <1>7, <1>8 DEF CallOK
<1> QED
  BY <1>9 DEF q

\* Another phase at the status server.
LEMMA Retold ==
  ASSUME NEW c, NEW lab, NEW p, NEW t, NEW st, NEW L, NEW v, NEW I,
         CallOK(c, lab, p, t, st, L, v, I), NEW st2, Told(L, c, lab, t, st2, v)
  PROVE  CallOK(c, lab, p, t, st2, L, v, I)
BY DEF CallOK

-----------------------------------------------------------------------------
(***************************************************************************)
(* One lemma for every action of a call.                                   *)
(***************************************************************************)
ElseSame == UNCHANGED <<leaves, spent, view, tx, status, scheduled, executed, dropped>>

LEMMA QuietLocal ==
  ASSUME IInv, NEW c \in Calls, NEW lab \in Labels, NEW p \in Plans,
         Goto(c, lab, p), ElseSame, UNCHANGED stuckVars,
         CallOK(c, lab, p, tx[c], status[c], leaves, view, Items)
  PROVE  IInv'
<1>1. /\ tx \in [Calls -> [Parts -> TxStates]] /\ status \in [Calls -> [Parts -> Phases]]
      /\ tx[c] \in [Parts -> TxStates] /\ status[c] \in [Parts -> Phases]
      /\ view \in Nat /\ view <= Len(leaves)
  BY DEF IInv, Shape
<1>2. /\ tx' = [tx EXCEPT ![c] = tx[c]] /\ status' = [status EXCEPT ![c] = status[c]]
      /\ view' = view
  BY <1>1 DEF ElseSame
<1>3. UNCHANGED <<leaves, spent, scheduled, executed, dropped>>
  BY DEF ElseSame
<1>4. pc' = [pc EXCEPT ![c] = lab] /\ plan' = [plan EXCEPT ![c] = p]
  BY DEF Goto
<1>5. view' \in Nat /\ view <= view' /\ view' <= Len(leaves)
  BY <1>1, <1>2
<1>6. CallOK(c, lab, p, tx[c], status[c], leaves, view', Items)
  BY <1>2
<1> QED
  BY <1>1, <1>2, <1>3, <1>4, <1>5, <1>6, LocalStep

LEMMA FailLocal ==
  ASSUME IInv, NEW c \in Calls, pc[c] # "done", Fail(c), ElseSame, UNCHANGED stuckVars
  PROVE  IInv'
<1>1. CallAt(c) /\ pc[c] \in Labels /\ plan[c] \in Plans
  BY CallFacts
<1>2. CallOK(c, "failed", FailedPlan(plan[c]), tx[c], status[c], leaves, view, Items)
  BY <1>1, GivesUp DEF CallAt
<1>3. FailedPlan(plan[c]) \in Plans
  BY <1>1, FailedPlanFacts
<1>4. Goto(c, "failed", FailedPlan(plan[c]))
  BY DEF Fail, FailedPlan
<1>5. "failed" \in Labels
  BY DEF Labels
<1> QED
  BY <1>2, <1>3, <1>4, <1>5, QuietLocal

\* The arguments of a call.
LEMMA EnterOK ==
  ASSUME IInv, NEW c \in Calls, NEW r \in Requests, NEW valid \in BOOLEAN,
         NEW label \in {"fee", "quotes"}, Enter(c, r, valid, label), UNCHANGED stuckVars,
         valid => /\ r.amts # <<>> /\ \A i \in DOMAIN r.amts : r.amts[i] > 0
                  /\ r.kind \in {"withdraw", "bridge", "solana", "near"}
                  /\ r.kind = "bridge" => r.net # "solana"
  PROVE  IInv'
<1>1. CallAt(c) /\ plan[c] \in Plans
  BY CallFacts
<1>2. pc[c] = "idle" /\ ElseSame
  BY DEF Enter, ElseSame
<1>3. CASE ~valid
  <2>1. Fail(c)
    BY <1>3 DEF Enter
  <2> QED
    BY <1>2, <2>1, FailLocal
<1>4. CASE valid
  <2> DEFINE q == [NoPlan EXCEPT !.req = r]
  <2>1. Goto(c, label, q)
    BY <1>4 DEF Enter
  <2>2. q \in Plans
    BY NoPlanType DEF Plans
  <2>3. /\ q.req = r /\ q.part = "main" /\ q.items = <<>> /\ q.utxos["native"] = <<>>
        /\ q.fee.rate = 0
    BY DEF NoPlan, Parts, ZeroFee
  <2> HIDE DEF q
  <2>4. Terms(q) /\ Asked(q)
    BY <1>4, <2>3 DEF Terms, Asked
  <2>5. CallOK(c, pc[c], plan[c], tx[c], status[c], leaves, view, Items)
    BY <1>1 DEF CallAt
  <2>6. CallOK(c, label, q, tx[c], status[c], leaves, view, Items)
    BY <1>1, <1>2, <2>2, <2>3, <2>4, <2>5, Refunded
  <2>7. label \in Labels
    BY DEF Labels
  <2> QED
    BY <1>2, <2>1, <2>2, <2>6, <2>7, QuietLocal
<1> QED
  BY <1>3, <1>4

LEMMA BeginOK ==
  ASSUME IInv, NEW c \in Calls, NEW r \in Requests, Begin(c, r), UNCHANGED stuckVars
  PROVE  IInv'
<1> DEFINE V == ValidateDepositAndWithdrawArgs(r)
           B == ValidateDepositAndBridgeArgs(r)
<1>1. V \in BOOLEAN /\ (V => r.amts # <<>> /\ \A i \in DOMAIN r.amts : r.amts[i] > 0)
  BY DEF ValidateDepositAndWithdrawArgs
<1>2. B => r.amts # <<>> /\ \A i \in DOMAIN r.amts : r.amts[i] > 0
  BY DEF ValidateDepositAndBridgeArgs
<1>3. (r.net = "evm" /\ B) \in BOOLEAN /\ (r.net # "solana" /\ V) \in BOOLEAN
      /\ (r.net = "solana" /\ V) \in BOOLEAN
  BY <1>1
<1> HIDE DEF V, B
<1>4. CASE HinkalDepositAndWithdraw(c, r)
  <2>1. r.kind = "withdraw" /\ Enter(c, r, r.net # "solana" /\ V, "fee")
    BY <1>4 DEF HinkalDepositAndWithdraw, V
  <2> QED
    BY <1>1, <1>3, <2>1, EnterOK
<1>5. CASE HinkalSolanaDepositAndWithdraw(c, r)
  <2>1. r.kind = "solana" /\ Enter(c, r, r.net = "solana" /\ V, "fee")
    BY <1>5 DEF HinkalSolanaDepositAndWithdraw, V
  <2> QED
    BY <1>1, <1>3, <2>1, EnterOK
<1>6. CASE HinkalDepositAndBridge(c, r)
  <2>1. r.kind = "bridge" /\ Enter(c, r, r.net = "evm" /\ B, "fee")
    BY <1>6 DEF HinkalDepositAndBridge, B
  <2> QED
    BY <1>2, <1>3, <2>1, EnterOK
<1>7. CASE HinkalNearDepositAndBridge(c, r)
  <2>1. r.kind = "near" /\ Enter(c, r, V, "quotes")
    BY <1>7 DEF HinkalNearDepositAndBridge, V
  <2> QED
    BY <1>1, <2>1, EnterOK
<1> QED
  BY <1>4, <1>5, <1>6, <1>7 DEF Begin

\* What is known of a call before its fee is.
LEMMA EarlyFacts ==
  ASSUME IInv, NEW c \in Calls, pc[c] \in {"quotes", "fee"}
  PROVE  /\ Terms(plan[c]) /\ Asked(plan[c]) /\ plan[c].part = "main" /\ plan[c].items = <<>>
         /\ plan[c].utxos["native"] = <<>>
<1>1. CallOK(c, pc[c], plan[c], tx[c], status[c], leaves, view, Items)
  BY CallFacts DEF CallAt
<1>2. Progress(leaves, c, pc[c], plan[c], tx[c]) /\ Built(c, pc[c], plan[c]) /\ Terms(plan[c])
  BY <1>1 DEF CallOK
<1> QED
  BY <1>2 DEF Progress, Built

LEMMA NearQuotesOK ==
  ASSUME IInv, NEW c \in Calls, NEW a \in BOOLEAN, NEW b \in BOOLEAN, NearQuotes(c, a, b),
         UNCHANGED stuckVars
  PROVE  IInv'
<1>1. pc[c] = "quotes" /\ ElseSame
  BY DEF NearQuotes, ElseSame
<1>2. CASE a /\ b
  <2>1. Goto(c, "fee", plan[c])
    BY <1>2 DEF NearQuotes
  <2>2. CallOK(c, pc[c], plan[c], tx[c], status[c], leaves, view, Items) /\ plan[c] \in Plans
    BY CallFacts DEF CallAt
  <2>3. CallOK(c, "fee", plan[c], tx[c], status[c], leaves, view, Items)
    BY <1>1, <2>2, EarlyFacts, Refunded
  <2>4. "fee" \in Labels
    BY DEF Labels
  <2> QED
    BY <1>1, <2>1, <2>2, <2>3, <2>4, QuietLocal
<1>3. CASE ~(a /\ b)
  <2>1. Fail(c)
    BY <1>3 DEF NearQuotes
  <2> QED
    BY <1>1, <2>1, FailLocal
<1> QED
  BY <1>2, <1>3

\* The fees of all flows are in the token that is sent.
LEMMA FeesOfType ==
  ASSUME NEW r, r.kind \in {"withdraw", "bridge", "solana", "near"}, NEW fee \in FeesOf(r)
  PROVE  fee \in FeeType /\ fee.token = "sent"
<1> DEFINE Sent == [token : {"sent"}, flat : Nat, rate : Nat]
<1>1. Overrides \in SUBSET Sent
  BY RequestAssumption
<1>2. Estimates(PaySendRate) \in SUBSET Sent /\ Estimates(PrivateSendRate) \in SUBSET Sent
  BY SendAssumption, RateAssumption DEF Estimates
<1>3. \A f \in Sent : PaySendFeeStructure(f) \in Sent
  BY SendAssumption DEF PaySendFeeStructure
<1>4. \A f \in Sent : PrivateSendFeeStructure(f) \in Sent
  BY RateAssumption DEF PrivateSendFeeStructure
<1> HIDE DEF Sent
<1>5. /\ ResolveDepositAndWithdrawFeeStructure \in SUBSET Sent
      /\ ResolveDepositAndBridgeFeeStructure \in SUBSET Sent
      /\ ResolveSolanaDepositAndWithdrawFeeStructure \in SUBSET Sent
      /\ BuildNearBridgeFeeStructure \in SUBSET Sent
  BY <1>1, <1>2, <1>3, <1>4 DEF ResolveDepositAndWithdrawFeeStructure,
       ResolveDepositAndBridgeFeeStructure, ResolveSolanaDepositAndWithdrawFeeStructure,
       BuildNearBridgeFeeStructure
<1>6. FeesOf(r) \in SUBSET Sent
  <2>1. CASE r.kind = "withdraw"
    BY <1>5, <2>1 DEF FeesOf
  <2>2. CASE r.kind = "bridge"
    BY <1>5, <2>2 DEF FeesOf
  <2>3. CASE r.kind = "solana"
    BY <1>5, <2>3 DEF FeesOf
  <2>4. CASE r.kind = "near"
    <3>1. /\ {PrivateSendFeeStructure(f) : f \in BuildNearBridgeFeeStructure} \in SUBSET Sent
          /\ {PaySendFeeStructure(f) : f \in BuildNearBridgeFeeStructure} \in SUBSET Sent
      BY <1>3, <1>4, <1>5
    <3> QED
      BY <2>4, <3>1 DEF FeesOf
  <2> QED
    BY <2>1, <2>2, <2>3, <2>4
<1>7. fee \in Sent
  BY <1>6
<1> QED
  BY <1>7 DEF Sent, FeeType

LEMMA ResolveFeeOK ==
  ASSUME IInv, NEW c \in Calls, ResolveFee(c), UNCHANGED stuckVars
  PROVE  IInv'
<1> DEFINE p == plan[c]
<1>1. pc[c] = "fee" /\ ElseSame
  BY DEF ResolveFee, ElseSame
<1>2. PICK fee \in FeesOf(p.req) : Goto(c, "before", [p EXCEPT !.fee = fee])
  BY DEF ResolveFee
<1>3. CallOK(c, pc[c], p, tx[c], status[c], leaves, view, Items) /\ p \in Plans
  BY CallFacts DEF CallAt
<1>4. Terms(p) /\ Asked(p) /\ p.part = "main" /\ p.items = <<>> /\ p.utxos["native"] = <<>>
  BY <1>1, EarlyFacts
<1> HIDE DEF p
<1>5. fee \in FeeType /\ fee.token = "sent"
  BY <1>2, <1>4, FeesOfType DEF Terms
<1> DEFINE q == [p EXCEPT !.fee = fee]
<1>6. q \in Plans
  BY <1>3, <1>5 DEF Plans
<1>7. /\ q.req = p.req /\ q.fee = fee /\ q.part = p.part /\ q.items = p.items /\ q.utxos = p.utxos
  BY <1>3 DEF Plans
<1>8. Goto(c, "before", q)
  BY <1>2
<1> HIDE DEF q
<1>9. Terms(q) /\ Asked(q)
  BY <1>4, <1>5, <1>7 DEF Terms, Asked
<1>10. CallOK(c, "before", q, tx[c], status[c], leaves, view, Items)
  BY <1>1, <1>3, <1>4, <1>6, <1>7, <1>9, Refunded
<1>11. "before" \in Labels
  BY DEF Labels
<1> QED
  BY <1>1, <1>6, <1>8, <1>10, <1>11, QuietLocal

-----------------------------------------------------------------------------
\* A call that goes on with the variables it has.
LEMMA Relabelled ==
  ASSUME NEW c, NEW lab \in NotHanded, NEW p \in Plans, NEW t, NEW st, NEW L, NEW v, NEW I,
         CallOK(c, lab, p, t, st, L, v, I),
         NEW lab2 \in Labels \ {"scheduling", "done", "failed"},
         Progress(L, c, lab2, p, t), Built(c, lab2, p),
         lab2 \in InTree => Deposited(p) \subseteq 1 .. v
  PROVE  CallOK(c, lab2, p, t, st, L, v, I)
<1> QED
  BY Reworked

\* What is known of a call that makes a deposit.
LEMMA DepositFacts ==
  ASSUME IInv, NEW c \in Calls, pc[c] \in Depositing
  PROVE  /\ plan[c] \in Plans /\ plan[c].part \in Parts /\ pc[c] \in NotHanded
         /\ CallOK(c, pc[c], plan[c], tx[c], status[c], leaves, view, Items)
         /\ Progress(leaves, c, pc[c], plan[c], tx[c]) /\ Asked(plan[c])
         /\ plan[c].items = <<>> /\ Terms(plan[c])
         /\ \A lab \in Depositing \cup {"wait"} : Built(c, lab, plan[c])
         /\ status[c]["main"] \notin {"beforeSchedule", "afterSchedule"}
         /\ \A it \in Items : it.call # c
<1>1. plan[c] \in Plans /\ CallOK(c, pc[c], plan[c], tx[c], status[c], leaves, view, Items)
  BY CallFacts DEF CallAt
<1>2. plan[c].part \in Parts
  BY <1>1 DEF Plans
<1>3. pc[c] \in NotHanded /\ pc[c] \notin Handed \cup {"failed"} /\ pc[c] # "idle" /\ pc[c] # "failed"
  BY DEF Depositing, NotHanded, Labels, Handed
<1>4. /\ Progress(leaves, c, pc[c], plan[c], tx[c]) /\ Built(c, pc[c], plan[c]) /\ Terms(plan[c])
      /\ Told(leaves, c, pc[c], tx[c], status[c], view)
      /\ Relayed(leaves, c, pc[c], plan[c], tx[c], Items)
  BY <1>1 DEF CallOK
<1>6. Asked(plan[c])
  BY <1>3, <1>4 DEF Progress
<1>7. plan[c].items = <<>>
  BY <1>4 DEF Built, Depositing
<1>8. \A lab \in Depositing \cup {"wait"} : Built(c, lab, plan[c])
  BY <1>7 DEF Built, Depositing
<1>9. status[c]["main"] \notin {"beforeSchedule", "afterSchedule"}
  BY <1>3, <1>4 DEF Told
<1>10. \A it \in Items : it.call # c
  BY <1>3, <1>4 DEF Relayed
<1> QED
  BY <1>1, <1>2, <1>3, <1>4, <1>6, <1>7, <1>8, <1>9, <1>10

\* A step that also tells the status server something, or sends a transaction.
LEMMA TellingStep ==
  ASSUME IInv, NEW c \in Calls, NEW lab \in Labels, NEW p \in Plans,
         NEW t \in [Parts -> TxStates], NEW st \in [Parts -> Phases], Goto(c, lab, p),
         tx' = [tx EXCEPT ![c] = t], status' = [status EXCEPT ![c] = st],
         UNCHANGED <<leaves, spent, view, scheduled, executed, dropped>>, UNCHANGED stuckVars,
         CallOK(c, lab, p, t, st, leaves, view, Items)
  PROVE  IInv'
<1>1. view \in Nat /\ view <= Len(leaves)
  BY DEF IInv, Shape
<1>2. pc' = [pc EXCEPT ![c] = lab] /\ plan' = [plan EXCEPT ![c] = p]
  BY DEF Goto
<1>3. view' = view /\ view' \in Nat /\ view <= view' /\ view' <= Len(leaves)
  BY <1>1
<1>4. CallOK(c, lab, p, t, st, leaves, view', Items)
  BY <1>3
<1>5. UNCHANGED <<leaves, spent, scheduled, executed, dropped>>
  OBVIOUS
<1> QED
  BY <1>2, <1>3, <1>4, <1>5, LocalStep

LEMMA FailTelling ==
  ASSUME IInv, NEW c \in Calls, NEW lab \in Labels \ {"done"},
         NEW t \in [Parts -> TxStates], NEW st \in [Parts -> Phases], Fail(c),
         tx' = [tx EXCEPT ![c] = t], status' = [status EXCEPT ![c] = st],
         UNCHANGED <<leaves, spent, view, scheduled, executed, dropped>>, UNCHANGED stuckVars,
         CallOK(c, lab, plan[c], t, st, leaves, view, Items)
  PROVE  IInv'
<1>1. plan[c] \in Plans
  BY CallFacts
<1>2. CallOK(c, "failed", FailedPlan(plan[c]), t, st, leaves, view, Items)
  BY <1>1, GivesUp
<1>3. FailedPlan(plan[c]) \in Plans /\ "failed" \in Labels
  BY <1>1, FailedPlanFacts DEF Labels
<1>4. Goto(c, "failed", FailedPlan(plan[c]))
  BY DEF Fail, FailedPlan
<1> QED
  BY <1>2, <1>3, <1>4, TellingStep

LEMMA PrepareDepositOK ==
  ASSUME IInv, NEW c \in Calls, PrepareDeposit(c), UNCHANGED stuckVars
  PROVE  IInv'
<1> DEFINE p == plan[c]
           t == tx[c]
           st == [status[c] EXCEPT ![p.part] = "beforeDeposit"]
<1>1. pc[c] = "before" /\ pc[c] \in Depositing
  BY DEF PrepareDeposit, Depositing
<1>2. /\ p \in Plans /\ p.part \in Parts /\ CallOK(c, "before", p, t, status[c], leaves, view, Items)
      /\ Progress(leaves, c, "before", p, t) /\ Built(c, "deposit", p)
      /\ status[c]["main"] \notin {"beforeSchedule", "afterSchedule"}
  BY <1>1, DepositFacts DEF Depositing
<1>3. /\ t \in [Parts -> TxStates] /\ status[c] \in [Parts -> Phases]
      /\ tx \in [Calls -> [Parts -> TxStates]] /\ status \in [Calls -> [Parts -> Phases]]
  BY DEF IInv, Shape
<1>4. st \in [Parts -> Phases] /\ st["main"] \in {"beforeDeposit", status[c]["main"]}
  BY <1>2, <1>3 DEF Phases, Parts
<1>5. status' = [status EXCEPT ![c] = st] /\ tx' = [tx EXCEPT ![c] = t]
  BY <1>3 DEF PrepareDeposit, Tell
<1>6. UNCHANGED <<leaves, spent, view, scheduled, executed, dropped>>
  BY DEF PrepareDeposit
<1> HIDE DEF st
<1>7. CallOK(c, "before", p, t, st, leaves, view, Items)
  <2>1. Told(leaves, c, "before", t, status[c], view)
    BY <1>2 DEF CallOK
  <2>2. Told(leaves, c, "before", t, st, view)
    BY <1>2, <1>4, <2>1 DEF Told
  <2> QED
    BY <1>2, <2>2, Retold
<1>8. CASE Goto(c, "deposit", p)
  <2>1. Progress(leaves, c, "deposit", p, t)
    BY <1>2 DEF Progress, Depositing, Matched
  <2>2. "deposit" \notin InTree /\ "before" \in NotHanded /\ "deposit" \in Labels \ {"scheduling", "done", "failed"}
    BY DEF InTree, Matched, NotHanded, Labels
  <2>3. CallOK(c, "deposit", p, t, st, leaves, view, Items)
    BY <1>2, <1>7, <2>1, <2>2, Relabelled
  <2> QED
    BY <1>2, <1>3, <1>4, <1>5, <1>6, <1>8, <2>2, <2>3, TellingStep
<1>9. CASE Fail(c)
  <2>1. "before" \in Labels \ {"done"}
    BY DEF Labels
  <2> QED
    BY <1>3, <1>4, <1>5, <1>6, <1>7, <1>9, <2>1, FailTelling
<1> QED
  BY <1>8, <1>9 DEF PrepareDeposit

LEMMA BroadcastOK ==
  ASSUME IInv, NEW c \in Calls, Broadcast(c), UNCHANGED stuckVars
  PROVE  IInv'
<1> DEFINE p == plan[c]
           t == [tx[c] EXCEPT ![p.part] = "pending"]
           st == status[c]
<1>1. pc[c] = "deposit" /\ pc[c] \in Depositing
  BY DEF Broadcast, Depositing
<1>2. /\ p \in Plans /\ p.part \in Parts /\ CallOK(c, "deposit", p, tx[c], st, leaves, view, Items)
      /\ Progress(leaves, c, "deposit", p, tx[c]) /\ Built(c, "sent", p) /\ Asked(p)
      /\ st["main"] \notin {"beforeSchedule", "afterSchedule"}
      /\ Terms(p) /\ \A it \in Items : it.call # c
  BY <1>1, DepositFacts DEF Depositing
<1>3. /\ tx[c] \in [Parts -> TxStates] /\ st \in [Parts -> Phases]
      /\ tx \in [Calls -> [Parts -> TxStates]] /\ status \in [Calls -> [Parts -> Phases]]
  BY DEF IInv, Shape
<1>4. /\ t \in [Parts -> TxStates] /\ t[p.part] = "pending"
      /\ \A part \in Parts : part # p.part => t[part] = tx[c][part]
  BY <1>2, <1>3 DEF TxStates
<1>5. status' = [status EXCEPT ![c] = st] /\ tx' = [tx EXCEPT ![c] = t]
  BY <1>3 DEF Broadcast
<1>6. UNCHANGED <<leaves, spent, view, scheduled, executed, dropped>>
  BY DEF Broadcast
<1>7. tx[c][p.part] = "none"
  BY <1>2 DEF Progress
<1> HIDE DEF t, p, st
<1>8. CallOK(c, "sent", p, t, st, leaves, view, Items)
  <2>1. ASSUME NEW part \in Parts PROVE CoinsOK(leaves, c, p, t, part)
    <3>1. CoinsOK(leaves, c, p, tx[c], part)
      BY <1>2 DEF CallOK, Parts
    <3>2. CASE part = p.part
      BY <1>4, <1>7, <3>1, <3>2 DEF CoinsOK
    <3>3. CASE part # p.part
      BY <1>4, <3>1, <3>3 DEF CoinsOK
    <3> QED
      BY <3>2, <3>3
  <2>2. CoinsOK(leaves, c, p, t, "main") /\ CoinsOK(leaves, c, p, t, "native")
    BY <2>1 DEF Parts
  <2>3. Progress(leaves, c, "sent", p, t)
    BY <1>2, <1>4, <1>7 DEF Progress, Depositing, Matched, Parts
  <2>4. Relayed(leaves, c, "sent", p, t, Items)
    BY <1>2 DEF Relayed, Handed
  <2>5. Told(leaves, c, "sent", t, st, view)
    <3>1. Told(leaves, c, "deposit", tx[c], st, view)
      BY <1>2 DEF CallOK
    <3> QED
      BY <1>2, <1>4, <1>7, <3>1 DEF Told, Parts
  <2>6. "sent" \notin InTree
    BY DEF InTree, Matched
  <2> QED
    BY <1>2, <2>2, <2>3, <2>4, <2>5, <2>6 DEF CallOK
<1>9. CASE Goto(c, "sent", p)
  <2>1. "sent" \in Labels
    BY DEF Labels
  <2> QED
    BY <1>2, <1>3, <1>4, <1>5, <1>6, <1>8, <1>9, <2>1, TellingStep DEF st
<1>10. CASE Fail(c)
  <2>1. "sent" \in Labels \ {"done"}
    BY DEF Labels
  <2> QED
    BY <1>3, <1>4, <1>5, <1>6, <1>8, <1>10, <2>1, FailTelling DEF st, p
<1> QED
  BY <1>9, <1>10 DEF Broadcast, p

LEMMA WaitForTransactionOK ==
  ASSUME IInv, NEW c \in Calls, WaitForTransaction(c), UNCHANGED stuckVars
  PROVE  IInv'
<1> DEFINE p == plan[c]
           t == tx[c]
           st == status[c]
<1>1. pc[c] = "sent" /\ pc[c] \in Depositing /\ ElseSame
  BY DEF WaitForTransaction, Depositing, ElseSame
<1>2. /\ p \in Plans /\ CallOK(c, "sent", p, t, st, leaves, view, Items)
      /\ Progress(leaves, c, "sent", p, t) /\ Built(c, "receipt", p)
  BY <1>1, DepositFacts DEF Depositing
<1>3. CASE t[p.part] = "reverted" /\ Fail(c)
  BY <1>1, <1>3, FailLocal
<1>4. CASE t[p.part] # "reverted" /\ Goto(c, "receipt", p)
  <2>1. t[p.part] = "mined"
    BY <1>4 DEF WaitForTransaction, Decided
  <2>2. Progress(leaves, c, "receipt", p, t)
    BY <1>2, <2>1 DEF Progress, Depositing, Matched
  <2>3. "receipt" \notin InTree /\ "sent" \in NotHanded /\ "receipt" \in Labels \ {"scheduling", "done", "failed"}
    BY DEF InTree, Matched, NotHanded, Labels
  <2>4. CallOK(c, "receipt", p, t, st, leaves, view, Items)
    BY <1>2, <2>2, <2>3, Relabelled
  <2> QED
    BY <1>1, <1>2, <1>4, <2>3, <2>4, QuietLocal
<1> QED
  BY <1>3, <1>4 DEF WaitForTransaction

LEMMA FetchedOK ==
  ASSUME IInv, NEW c \in Calls, Fetched(c), UNCHANGED stuckVars
  PROVE  IInv'
<1> DEFINE p == plan[c]
           t == tx[c]
<1>1. pc[c] = "receipt" /\ pc[c] \in Depositing /\ Goto(c, "decode", p)
  BY DEF Fetched, Depositing
<1>2. /\ p \in Plans /\ p.part \in Parts /\ CallOK(c, "receipt", p, t, status[c], leaves, view, Items)
      /\ Progress(leaves, c, "receipt", p, t) /\ Built(c, "decode", p)
      /\ status[c]["main"] \notin {"beforeSchedule", "afterSchedule"}
  BY <1>1, DepositFacts DEF Depositing
<1>3. /\ t \in [Parts -> TxStates] /\ status[c] \in [Parts -> Phases]
      /\ tx \in [Calls -> [Parts -> TxStates]] /\ status \in [Calls -> [Parts -> Phases]]
  BY DEF IInv, Shape
<1>4. t[p.part] = "mined"
  BY <1>2 DEF Progress
<1>5. tx' = [tx EXCEPT ![c] = t] /\ UNCHANGED <<leaves, spent, view, scheduled, executed, dropped>>
  BY <1>3 DEF Fetched
<1>6. PICK st \in [Parts -> Phases] : /\ status' = [status EXCEPT ![c] = st]
                                      /\ st["main"] = status[c]["main"] \/ (p.part = "main" /\ st["main"] = "afterDeposit")
  <2>1. CASE Tell(c, p.part, "afterDeposit")
    <3> DEFINE st == [status[c] EXCEPT ![p.part] = "afterDeposit"]
    <3>1. st \in [Parts -> Phases] /\ status' = [status EXCEPT ![c] = st]
      BY <1>2, <1>3, <2>1 DEF Tell, Phases
    <3>2. st["main"] = status[c]["main"] \/ (p.part = "main" /\ st["main"] = "afterDeposit")
      BY <1>2, <1>3 DEF Parts
    <3> QED
      BY <3>1, <3>2
  <2>2. CASE UNCHANGED status
    <3>1. status' = [status EXCEPT ![c] = status[c]]
      BY <1>3, <2>2
    <3> QED
      BY <1>3, <3>1
  <2> QED
    BY <2>1, <2>2 DEF Fetched, SafeUpdateDepositAndWithdrawStatus
<1> HIDE DEF p, t
<1>7. CallOK(c, "receipt", p, t, st, leaves, view, Items)
  <2>1. Told(leaves, c, "receipt", t, status[c], view)
    BY <1>2 DEF CallOK
  <2>2. Told(leaves, c, "receipt", t, st, view)
    BY <1>2, <1>4, <1>6, <2>1 DEF Told
  <2> QED
    BY <1>2, <2>2, Retold
<1>8. Progress(leaves, c, "decode", p, t)
  BY <1>2 DEF Progress, Depositing, Matched
<1>9. "decode" \notin InTree /\ "receipt" \in NotHanded /\ "decode" \in Labels \ {"scheduling", "done", "failed"}
  BY DEF InTree, Matched, NotHanded, Labels
<1>10. CallOK(c, "decode", p, t, st, leaves, view, Items)
  BY <1>2, <1>7, <1>8, <1>9, Relabelled
<1> QED
  BY <1>1, <1>2, <1>3, <1>5, <1>6, <1>9, <1>10, TellingStep DEF t

-----------------------------------------------------------------------------
LEMMA MatchDepositsOK ==
  ASSUME IInv, NEW c \in Calls, MatchDeposits(c), UNCHANGED stuckVars
  PROVE  IInv'
<1> DEFINE p == plan[c]
           t == tx[c]
           utxos == DecodeFromReceipt(c, p.part)
           m == MatchRecipientUtxos(Wanted(p), utxos)
           next == [p EXCEPT !.utxos[p.part] = m]
           turn == [next EXCEPT !.part = "native"]
<1>1. pc[c] = "decode" /\ pc[c] \in Depositing /\ ElseSame /\ pc[c] # "done"
  BY DEF MatchDeposits, Depositing, ElseSame
<1>2. /\ p \in Plans /\ p.part \in Parts /\ CallOK(c, "decode", p, t, status[c], leaves, view, Items)
      /\ Progress(leaves, c, "decode", p, t) /\ Asked(p) /\ Terms(p)
      /\ p.items = <<>> /\ leaves \in Seq(LeafType)
  BY <1>1, DepositFacts, CallFacts
<1>3. CASE Fail(c)
  BY <1>1, <1>3, FailLocal
<1>6. \/ Fail(c)
      \/ p.part = "main" /\ NeedsNativeDeposit(p.req) /\ Goto(c, "before", turn)
      \/ ~(p.part = "main" /\ NeedsNativeDeposit(p.req)) /\ Goto(c, "wait", next)
  <2>1. IF utxos = {} THEN Fail(c)
        ELSE IF 0 \in ToSet(m) THEN Fail(c)
        ELSE IF p.part = "main" /\ NeedsNativeDeposit(p.req) THEN Goto(c, "before", turn)
        ELSE Goto(c, "wait", next)
    BY DEF MatchDeposits
  <2> HIDE DEF p, utxos, m, turn, next
  <2> QED
    BY <2>1
<1>4. CASE 0 \notin ToSet(m)
  <2>1. Wanted(p) = WantedOf(p, p.part)
    BY <1>2 DEF WantedOf, Wanted, Plans
  <2>2. PICK n \in Nat : DOMAIN WantedOf(p, p.part) = 1 .. n
    BY <1>2, WantedNat
  <2>3. /\ m \in Seq(Nat) /\ DOMAIN m = DOMAIN WantedOf(p, p.part)
        /\ \A i \in DOMAIN WantedOf(p, p.part) :
             m[i] \in CoinsOf(leaves, c, p.part) /\ leaves[m[i]].amt = WantedOf(p, p.part)[i]
        /\ \A i, j \in DOMAIN WantedOf(p, p.part) : m[i] = m[j] => i = j
    BY <1>2, <1>4, <2>1, <2>2, MatchGives
  <2> HIDE DEF m, p
  <2>4. p.utxos \in [Parts -> Seq(Nat)]
    BY <1>2 DEF Plans
  <2>5. /\ next \in Plans /\ next.req = p.req /\ next.fee = p.fee /\ next.part = p.part
        /\ next.items = p.items
        /\ next.utxos[p.part] = m
        /\ \A x \in Parts : x # p.part => next.utxos[x] = p.utxos[x]
    BY <1>2, <2>3, <2>4 DEF Plans
  <2> HIDE DEF next
  <2>6. /\ turn \in Plans /\ turn.req = p.req /\ turn.fee = p.fee /\ turn.part = "native"
        /\ turn.items = p.items /\ turn.utxos = next.utxos
    BY <2>5 DEF Plans, Parts
  <2> HIDE DEF turn
  <2>7. "before" \notin InTree /\ "wait" \notin InTree /\ "decode" \in NotHanded
        /\ "before" \in Labels \ {"scheduling", "done"} /\ "wait" \in Labels \ {"scheduling", "done"}
        /\ "before" \in Labels /\ "wait" \in Labels
    BY DEF InTree, Matched, NotHanded, Labels
  <2>8. Built(c, "before", turn) /\ Built(c, "wait", next)
    BY <1>2, <2>5, <2>6 DEF Built
  <2>9. MatchedOK(leaves, c, next, p.part)
    <3>1. WantedOf(next, p.part) = WantedOf(p, p.part)
      BY <1>2, <2>5, WantedSame
    <3> QED
      BY <2>3, <2>5, <3>1 DEF MatchedOK
  <2>10. CASE p.part = "main" /\ NeedsNativeDeposit(p.req) /\ Goto(c, "before", turn)
    <3>1. MatchedOK(leaves, c, turn, "main")
      BY <2>5, <2>6, <2>9, <2>10, MatchedSame DEF Parts
    <3>2. turn.utxos["native"] = <<>> /\ t["main"] = "mined" /\ t["native"] = "none"
      BY <1>2, <2>5, <2>6, <2>10 DEF Progress, Depositing, Parts
    <3>3. NeedsNativeDeposit(turn.req) /\ Asked(turn)
      BY <1>2, <2>6, <2>10 DEF Asked
    <3>4. Progress(leaves, c, "before", turn, t)
      BY <2>6, <3>1, <3>2, <3>3 DEF Progress, Depositing, Matched
    <3>5. CallOK(c, "before", turn, t, status[c], leaves, view, Items)
      BY <1>2, <2>6, <2>7, <2>8, <3>4, Reworked
    <3> QED
      BY <1>1, <2>6, <2>7, <2>10, <3>5, QuietLocal
  <2>11. CASE ~(p.part = "main" /\ NeedsNativeDeposit(p.req)) /\ Goto(c, "wait", next)
    <3>1. /\ t["main"] = "mined" /\ MatchedOK(leaves, c, next, "main")
          /\ NeedsNativeDeposit(p.req) => MatchedOK(leaves, c, next, "native")
          /\ ~NeedsNativeDeposit(p.req) => next.utxos["native"] = <<>>
      <4>1. CASE p.part = "main"
        BY <1>2, <2>5, <2>9, <2>11, <4>1 DEF Progress, Depositing, Parts
      <4>2. CASE p.part = "native"
        <5>1. t["main"] = "mined" /\ NeedsNativeDeposit(p.req) /\ MatchedOK(leaves, c, p, "main")
          BY <1>2, <4>2 DEF Progress, Depositing
        <5>2. next.utxos["main"] = p.utxos["main"]
          BY <2>5, <4>2 DEF Parts
        <5>3. MatchedOK(leaves, c, next, "main")
          BY <1>2, <2>5, <5>1, <5>2, MatchedSame DEF Parts
        <5> QED
          BY <2>9, <4>2, <5>1, <5>3
      <4> QED
        BY <1>2, <4>1, <4>2 DEF Parts
    <3>2. Asked(next) /\ next.req = p.req
      BY <1>2, <2>5 DEF Asked
    <3>3. Progress(leaves, c, "wait", next, t)
      BY <2>5, <3>1, <3>2 DEF Progress, Depositing, Matched
    <3>4. CallOK(c, "wait", next, t, status[c], leaves, view, Items)
      BY <1>2, <2>5, <2>7, <2>8, <3>3, Reworked
    <3> QED
      BY <1>1, <2>5, <2>7, <2>11, <3>4, QuietLocal
  <2> QED
    BY <1>3, <1>6, <2>10, <2>11
<1>5. CASE 0 \in ToSet(m)
  <2>1. Fail(c)
    BY <1>5 DEF MatchDeposits
  <2> QED
    BY <1>3, <2>1
<1> QED
  BY <1>4, <1>5

-----------------------------------------------------------------------------
\* What is known of a call whose deposits are matched.
LEMMA MatchedFacts ==
  ASSUME IInv, NEW c \in Calls, pc[c] \in Matched
  PROVE  /\ plan[c] \in Plans /\ CallOK(c, pc[c], plan[c], tx[c], status[c], leaves, view, Items)
         /\ Progress(leaves, c, pc[c], plan[c], tx[c]) /\ Asked(plan[c]) /\ Terms(plan[c])
         /\ AllMatched(leaves, c, plan[c]) /\ tx[c]["main"] = "mined"
         /\ CoinsOf(leaves, c, "main") \in SUBSET Deposited(plan[c])
         /\ Deposited(plan[c]) \in SUBSET (Nat \ {0}) /\ IsFiniteSet(Deposited(plan[c]))
         /\ Len(plan[c].req.amts) \in Nat \ {0}
<1> DEFINE p == plan[c]
           t == tx[c]
<1>1. p \in Plans /\ CallOK(c, pc[c], p, t, status[c], leaves, view, Items) /\ leaves \in Seq(LeafType)
  BY CallFacts DEF CallAt
<1>2. /\ Progress(leaves, c, pc[c], p, t) /\ Terms(p)
      /\ CoinsOK(leaves, c, p, t, "main") /\ CoinsOK(leaves, c, p, t, "native")
  BY <1>1 DEF CallOK
<1>3. pc[c] \notin {"idle", "failed"} /\ pc[c] # "failed"
  BY DEF Matched
<1>4. Asked(p)
  BY <1>1, <1>2, <1>3 DEF Progress, CallOK
<1> HIDE DEF p, t
<1>5. /\ AllMatched(leaves, c, p) /\ t["main"] = "mined"
      /\ ~NeedsNativeDeposit(p.req) => p.utxos["native"] = <<>>
  BY <1>2 DEF Progress, AllMatched
<1>6. ToSet(p.utxos["main"]) = CoinsOf(leaves, c, "main")
  BY <1>1, <1>2, <1>5, MatchedAll DEF AllMatched, Parts
<1>7. ToSet(p.utxos["native"]) \in SUBSET CoinsOf(leaves, c, "native")
  <2>1. CASE NeedsNativeDeposit(p.req)
    BY <1>1, <1>2, <1>5, <2>1, MatchedAll DEF AllMatched, Parts
  <2>2. CASE ~NeedsNativeDeposit(p.req)
    <3>1. ToSet(<<>>) = {}
      BY DEF ToSet
    <3> QED
      BY <1>5, <2>2, <3>1
  <2> QED
    BY <2>1, <2>2
<1>8. \A part : CoinsOf(leaves, c, part) \in SUBSET (Nat \ {0}) /\ IsFiniteSet(CoinsOf(leaves, c, part))
  BY <1>1, CoinsNat
<1>9. /\ CoinsOf(leaves, c, "main") \in SUBSET Deposited(p)
      /\ Deposited(p) \in SUBSET (Nat \ {0})
  BY <1>6, <1>7, <1>8 DEF Deposited
<1>10. IsFiniteSet(Deposited(p))
  <2>1. IsFiniteSet(ToSet(p.utxos["native"]))
    BY <1>7, <1>8, FS_Subset
  <2> QED
    BY <1>6, <1>8, <2>1, FS_Union DEF Deposited
<1>11. Len(p.req.amts) \in Nat \ {0}
  <2>1. p.req.amts \in Seq(Int)
    BY <1>1, RequestFacts
  <2> QED
    BY <1>4, <2>1 DEF Asked
<1> QED
  BY <1>1, <1>2, <1>4, <1>5, <1>9, <1>10, <1>11 DEF p, t

LEMMA WaitForDepositedOK ==
  ASSUME IInv, NEW c \in Calls, NEW v, WaitForDepositedUtxosInMerkleTree(c, v), UNCHANGED stuckVars
  PROVE  IInv'
<1> DEFINE p == plan[c]
           t == tx[c]
           st == status[c]
           gave == (p.tries + 1 = MaxTries)
           q == [p EXCEPT !.tries = @ + 1]
<1>1. pc[c] = "wait" /\ v \in view .. Len(leaves) /\ view' = v /\ pc[c] \in Matched
  BY DEF WaitForDepositedUtxosInMerkleTree, Matched
<1>2. /\ p \in Plans /\ CallOK(c, "wait", p, t, st, leaves, view, Items)
      /\ Progress(leaves, c, "wait", p, t) /\ Asked(p) /\ Terms(p)
      /\ Deposited(p) \in SUBSET (Nat \ {0}) /\ IsFiniteSet(Deposited(p))
      /\ Len(p.req.amts) \in Nat \ {0}
  BY <1>1, MatchedFacts
<1>3. /\ leaves \in Seq(LeafType) /\ view \in Nat /\ Len(leaves) \in Nat
      /\ t \in [Parts -> TxStates] /\ st \in [Parts -> Phases]
      /\ tx \in [Calls -> [Parts -> TxStates]] /\ status \in [Calls -> [Parts -> Phases]]
  BY CallFacts DEF IInv, Shape
<1>4. v \in Nat /\ view <= v /\ v <= Len(leaves)
  BY <1>1, <1>3
<1>5. /\ status' = [status EXCEPT ![c] = st] /\ tx' = [tx EXCEPT ![c] = t]
      /\ UNCHANGED <<leaves, spent, scheduled, executed, dropped>>
  BY <1>3 DEF WaitForDepositedUtxosInMerkleTree
<1>6. CallOK(c, "wait", p, t, st, leaves, v, Items)
  <2>1. Longer(leaves, leaves) /\ SameCoins(leaves, leaves, c)
    BY <1>3, LongerSame
  <2>2. \A it : it.call = c => (it \in Items <=> it \in Items)
    OBVIOUS
  <2> QED
    BY <1>2, <1>3, <1>4, <2>1, <2>2, CallKeeps
<1>7. p.items = <<>>
  BY <1>2 DEF CallOK, Built
<1>8. "wait" \in NotHanded /\ "wait" \notin InTree /\ "failed" \notin InTree /\ "failed" \in Labels \ {"scheduling", "done"}
      /\ "wait" \in Labels \ {"scheduling", "done"} /\ "batch" \in Labels \ {"scheduling", "done", "failed"}
      /\ "failed" \in Labels /\ "wait" \in Labels /\ "batch" \in Labels
  BY DEF NotHanded, InTree, Matched, Labels
<1>9. CASE Deposited(p) \subseteq LastLeaves(v)
  <2>1. Goto(c, "batch", p)
    BY <1>9 DEF WaitForDepositedUtxosInMerkleTree, AreAllDepositedUtxosInLastLeaves
  <2>2. Deposited(p) \subseteq 1 .. v
    BY <1>9 DEF LastLeaves
  <2> HIDE DEF p, t, st
  <2>3. Progress(leaves, c, "batch", p, t)
    BY <1>2 DEF Progress, Depositing, Matched
  <2>4. Built(c, "batch", p)
    BY <1>2, <1>7 DEF Built
  <2>5. CallOK(c, "batch", p, t, st, leaves, v, Items)
    BY <1>2, <1>6, <1>8, <2>2, <2>3, <2>4, Relabelled
  <2>6. pc' = [pc EXCEPT ![c] = "batch"] /\ plan' = [plan EXCEPT ![c] = p]
    BY <2>1 DEF Goto
  <2> QED
    BY <1>1, <1>2, <1>3, <1>4, <1>5, <1>8, <2>5, <2>6, LocalStep
<1>10. CASE ~(Deposited(p) \subseteq LastLeaves(v))
  <2>1. Goto(c, IF gave THEN "failed" ELSE "wait", q)
    BY <1>10 DEF WaitForDepositedUtxosInMerkleTree, AreAllDepositedUtxosInLastLeaves
  <2>2. gave \in BOOLEAN /\ p.tries + 1 \in Nat
    BY <1>2 DEF Plans
  <2> HIDE DEF p, t, st, gave
  <2>3. /\ q \in Plans /\ q.req = p.req /\ q.fee = p.fee /\ q.utxos = p.utxos /\ q.part = p.part
        /\ q.items = p.items
    BY <1>2, <1>4, <2>2 DEF Plans
  <2> HIDE DEF q
  <2>4. Deposited(q) = Deposited(p)
    BY <2>3 DEF Deposited
  <2>6. Asked(q)
    BY <1>2, <2>3 DEF Asked
  <2>7. CASE gave
    <3>1. Progress(leaves, c, "failed", q, t)
      BY <2>6 DEF Progress, Depositing, Matched
    <3>2. Built(c, "failed", q)
      BY <1>7, <2>3 DEF Built
    <3>3. CallOK(c, "failed", q, t, st, leaves, v, Items)
      BY <1>2, <1>6, <1>8, <2>3, <3>1, <3>2, Reworked
    <3>4. pc' = [pc EXCEPT ![c] = "failed"] /\ plan' = [plan EXCEPT ![c] = q]
      BY <2>1, <2>7 DEF Goto
    <3> QED
      BY <1>1, <1>3, <1>4, <1>5, <1>8, <2>3, <3>3, <3>4, LocalStep
  <2>8. CASE ~gave
    <3>0. \A part \in Parts : MatchedOK(leaves, c, p, part) => MatchedOK(leaves, c, q, part)
      BY <1>2, <2>3, MatchedSame
    <3>1. Progress(leaves, c, "wait", q, t)
      BY <1>2, <2>3, <2>6, <3>0 DEF Progress, Depositing, Matched, Parts
    <3>2. Built(c, "wait", q)
      BY <1>7, <2>3 DEF Built
    <3>3. CallOK(c, "wait", q, t, st, leaves, v, Items)
      BY <1>2, <1>6, <1>8, <2>3, <2>8, <3>1, <3>2, Reworked
    <3>4. pc' = [pc EXCEPT ![c] = "wait"] /\ plan' = [plan EXCEPT ![c] = q]
      BY <2>1, <2>8 DEF Goto
    <3> QED
      BY <1>1, <1>3, <1>4, <1>5, <1>8, <2>3, <3>3, <3>4, LocalStep
  <2> QED
    BY <2>7, <2>8
<1> QED
  BY <1>9, <1>10

-----------------------------------------------------------------------------
LEMMA ProveItemOK ==
  ASSUME IInv, NEW c \in Calls, ProveItem(c), UNCHANGED stuckVars
  PROVE  IInv'
<1> DEFINE p == plan[c]
           t == tx[c]
           n == Len(p.items)
           item == BatchItem(c, n + 1)
           q == [p EXCEPT !.items = Append(@, item)]
           lab == IF Len(q.items) = Len(p.req.amts) THEN "schedule" ELSE "batch"
<1>1. pc[c] = "batch" /\ pc[c] \in Matched /\ ElseSame /\ Goto(c, lab, q)
  BY DEF ProveItem, Matched, ElseSame
<1>2. /\ p \in Plans /\ CallOK(c, "batch", p, t, status[c], leaves, view, Items)
      /\ Progress(leaves, c, "batch", p, t) /\ Asked(p) /\ Terms(p)
      /\ AllMatched(leaves, c, p)
  BY <1>1, MatchedFacts
<1>3. leaves \in Seq(LeafType) /\ p.items \in Seq(ItemType) /\ p.req.amts \in Seq(Int)
  BY <1>2, CallFacts, RequestFacts DEF Plans
<1>4. Built(c, "batch", p) /\ Deposited(p) \subseteq 1 .. view
  BY <1>2 DEF CallOK, InTree, Matched
<1>5. n \in Nat /\ n < Len(p.req.amts) /\ Len(p.req.amts) \in Nat /\ DOMAIN p.req.amts = 1 .. Len(p.req.amts)
  BY <1>3, <1>4 DEF Built
<1>6. n + 1 \in DOMAIN p.req.amts
  BY <1>5
<1> HIDE DEF p
<1>7. item = ItemOf(p, c, n + 1)
  BY <1>2, <1>6, BatchItemIs DEF p
<1>8. item \in ItemType
  BY <1>2, <1>3, <1>6, <1>7, ItemOfGood
<1> HIDE DEF item
<1>9. Append(p.items, item) \in Seq(ItemType)
  BY <1>3, <1>8
<1>10. /\ q \in Plans /\ q.req = p.req /\ q.fee = p.fee /\ q.utxos = p.utxos /\ q.part = p.part
       /\ q.items = Append(p.items, item)
  BY <1>2, <1>9 DEF Plans
<1> HIDE DEF q
<1>11. Deposited(q) = Deposited(p)
  BY <1>10 DEF Deposited
<1>12. \A i : ItemOf(q, c, i) = ItemOf(p, c, i)
  BY <1>10 DEF ItemOf, NeedsNative
<1>13. lab \in {"batch", "schedule"} /\ lab \in Labels \ {"scheduling", "done"} /\ "batch" \in NotHanded /\ lab \in Labels
  BY DEF Labels, NotHanded
<1>14. Built(c, lab, q)
  <2>1. Len(q.items) = n + 1 /\ DOMAIN q.items = 1 .. n + 1 /\ DOMAIN p.items = 1 .. n
    BY <1>3, <1>5, <1>10
  <2>2. ASSUME NEW i \in DOMAIN q.items PROVE q.items[i] = ItemOf(q, c, i)
    <3>1. CASE i \in 1 .. n
      <4>1. q.items[i] = p.items[i]
        BY <1>3, <1>10, <3>1
      <4>2. p.items[i] = ItemOf(p, c, i)
        BY <1>4, <2>1, <3>1 DEF Built
      <4> QED
        BY <1>12, <4>1, <4>2
    <3>2. CASE i = n + 1
      <4>1. q.items[n + 1] = item
        BY <1>3, <1>10
      <4> QED
        BY <1>7, <1>12, <3>2, <4>1
    <3> QED
      BY <1>5, <2>1, <3>1, <3>2
  <2>3. /\ lab = "batch" => Len(q.items) < Len(q.req.amts)
        /\ lab = "schedule" => Len(q.items) = Len(q.req.amts)
    BY <1>5, <1>10, <2>1
  <2> QED
    BY <1>13, <2>2, <2>3 DEF Built
<1>15. Progress(leaves, c, lab, q, t)
  <2>1. \A part \in Parts : MatchedOK(leaves, c, p, part) => MatchedOK(leaves, c, q, part)
    BY <1>2, <1>10, MatchedSame
  <2>2. Asked(q)
    BY <1>2, <1>10 DEF Asked
  <2> HIDE DEF lab
  <2> QED
    BY <1>2, <1>10, <1>13, <2>1, <2>2 DEF Progress, Depositing, Matched, Parts
<1> HIDE DEF lab
<1>16. CallOK(c, lab, q, t, status[c], leaves, view, Items)
  BY <1>2, <1>4, <1>10, <1>11, <1>13, <1>14, <1>15, Reworked
<1> QED
  BY <1>1, <1>10, <1>13, <1>16, QuietLocal

LEMMA RequestFailsOK ==
  ASSUME IInv, NEW c \in Calls, RequestFails(c), UNCHANGED stuckVars
  PROVE  IInv'
<1>1. pc[c] # "done" /\ Fail(c) /\ ElseSame
  BY DEF RequestFails, ElseSame
<1> QED
  BY <1>1, FailLocal

LEMMA ScheduledOK ==
  ASSUME IInv, NEW c \in Calls, Scheduled(c), UNCHANGED stuckVars
  PROVE  IInv'
<1> DEFINE p == plan[c]
           t == tx[c]
<1>1. pc[c] = "scheduling" /\ pc[c] \in Matched /\ pc[c] # "done"
  BY DEF Scheduled, Matched
<1>2. /\ p \in Plans /\ CallOK(c, "scheduling", p, t, status[c], leaves, view, Items)
      /\ Progress(leaves, c, "scheduling", p, t) /\ t["main"] = "mined"
      /\ CoinsOf(leaves, c, "main") \in SUBSET Deposited(p)
  BY <1>1, MatchedFacts
<1>3. /\ t \in [Parts -> TxStates] /\ status[c] \in [Parts -> Phases] /\ view \in Nat
      /\ tx \in [Calls -> [Parts -> TxStates]] /\ status \in [Calls -> [Parts -> Phases]]
  BY DEF IInv, Shape
<1>4. UNCHANGED <<leaves, spent, view, scheduled, executed, dropped>> /\ tx' = [tx EXCEPT ![c] = t]
  BY <1>3 DEF Scheduled
<1>5. CASE Fail(c) /\ UNCHANGED status
  <2>1. ElseSame
    BY <1>5 DEF Scheduled, ElseSame
  <2> QED
    BY <1>1, <1>5, <2>1, FailLocal
<1>6. CASE Goto(c, "done", p) /\ SafeUpdateDepositAndWithdrawStatus(c, "main", "afterSchedule")
  <2>1. PICK st \in [Parts -> Phases] : /\ status' = [status EXCEPT ![c] = st]
                                        /\ st["main"] \in {status[c]["main"], "afterSchedule"}
    <3>1. CASE Tell(c, "main", "afterSchedule")
      <4> DEFINE st == [status[c] EXCEPT !["main"] = "afterSchedule"]
      <4>1. st \in [Parts -> Phases] /\ st["main"] = "afterSchedule"
        BY <1>3 DEF Phases, Parts
      <4>2. status' = [status EXCEPT ![c] = st]
        BY <1>3, <3>1 DEF Tell
      <4> QED
        BY <4>1, <4>2
    <3>2. CASE UNCHANGED status
      <4>1. status' = [status EXCEPT ![c] = status[c]]
        BY <1>3, <3>2
      <4> QED
        BY <1>3, <4>1
    <3> QED
      BY <1>6, <3>1, <3>2 DEF SafeUpdateDepositAndWithdrawStatus
  <2> HIDE DEF p, t
  <2>2. /\ Terms(p) /\ CoinsOK(leaves, c, p, t, "main") /\ CoinsOK(leaves, c, p, t, "native")
        /\ Deposited(p) \subseteq 1 .. view /\ Built(c, "scheduling", p)
        /\ Relayed(leaves, c, "scheduling", p, t, Items)
        /\ Told(leaves, c, "scheduling", t, status[c], view)
    BY <1>2 DEF CallOK, InTree, Matched
  <2>3. Progress(leaves, c, "done", p, t)
    BY <1>2 DEF Progress, Depositing, Matched
  <2>4. Built(c, "done", p)
    BY <2>2 DEF Built
  <2>5. Relayed(leaves, c, "done", p, t, Items)
    BY <2>2 DEF Relayed, Handed
  <2>6. \A k \in CoinsOf(leaves, c, "main") : k <= view
    BY <1>2, <1>3, <2>2
  <2>7. Told(leaves, c, "done", t, st, view)
    BY <1>2, <2>1, <2>2, <2>6 DEF Told, Handed
  <2>8. CallOK(c, "done", p, t, st, leaves, view, Items)
    BY <1>2, <2>2, <2>3, <2>4, <2>5, <2>7 DEF CallOK
  <2>9. "done" \in Labels
    BY DEF Labels
  <2> QED
    BY <1>2, <1>3, <1>4, <1>6, <2>1, <2>8, <2>9, TellingStep
<1> QED
  BY <1>5, <1>6 DEF Scheduled

-----------------------------------------------------------------------------
\* What the relayer makes of its withdrawals does not concern the loops.
LEMMA LedgerSame ==
  ASSUME IInv, UNCHANGED <<leaves, spent, executed, dropped>>, UNCHANGED stuckVars
  PROVE  LoopsOK' /\ Ledger' /\ RefusedOnlyIfRecovered'
<1>1. UNCHANGED <<known, lpc, lplan, ltx, withdrawn, faults>>
  BY DEF stuckVars
<1>2. LoopsOK'
  <2>1. LoopsOK
    BY DEF IInv
  <2> QED
    BY <1>1, <2>1 DEF LoopsOK
<1>3. Paid' = Paid /\ Recovered' = Recovered
  BY <1>1 DEF Paid, Recovered
<1>4. Ledger'
  <2>1. Ledger
    BY DEF IInv
  <2> QED
    BY <1>1, <1>3, <2>1 DEF Ledger
<1>5. RefusedOnlyIfRecovered'
  <2>1. RefusedOnlyIfRecovered
    BY DEF IInv
  <2> QED
    BY <1>3, <2>1 DEF RefusedOnlyIfRecovered
<1> QED
  BY <1>2, <1>4, <1>5

LEMMA ScheduleOK ==
  ASSUME IInv, NEW c \in Calls, Schedule(c), UNCHANGED stuckVars
  PROVE  IInv'
<1> DEFINE p == plan[c]
           t == tx[c]
           B == ToSet(p.items)
           I2 == Items \cup B
<1>1. pc[c] = "schedule" /\ pc[c] \in Matched /\ Goto(c, "scheduling", p)
  BY DEF Schedule, Matched
<1>2. /\ p \in Plans /\ CallOK(c, "schedule", p, t, status[c], leaves, view, Items)
      /\ Progress(leaves, c, "schedule", p, t) /\ t["main"] = "mined"
      /\ CoinsOf(leaves, c, "main") \in SUBSET Deposited(p)
      /\ Terms(p) /\ Asked(p) /\ AllMatched(leaves, c, p)
  BY <1>1, MatchedFacts
<1>3. /\ t \in [Parts -> TxStates] /\ status[c] \in [Parts -> Phases] /\ view \in Nat
      /\ tx \in [Calls -> [Parts -> TxStates]] /\ status \in [Calls -> [Parts -> Phases]]
      /\ pc \in [Calls -> Labels] /\ plan \in [Calls -> Plans]
      /\ leaves \in Seq(LeafType) /\ view <= Len(leaves)
      /\ lpc \in [Loops -> {"idle", "reset", "select", "fee", "pad", "send", "sent"}]
      /\ lplan \in [Loops -> LoopPlans] /\ ltx \in [Loops -> TxStates]
  BY DEF IInv, Shape
<1>4. /\ UNCHANGED <<leaves, spent, view, tx, executed, dropped>>
      /\ scheduled' = scheduled \cup B
  BY DEF Schedule
<1>5. PICK st \in [Parts -> Phases] : /\ status' = [status EXCEPT ![c] = st]
                                      /\ st["main"] \in {status[c]["main"], "beforeSchedule"}
  <2>1. CASE Tell(c, "main", "beforeSchedule")
    <3> DEFINE st == [status[c] EXCEPT !["main"] = "beforeSchedule"]
    <3>1. st \in [Parts -> Phases] /\ st["main"] = "beforeSchedule"
      BY <1>3 DEF Phases, Parts
    <3>2. status' = [status EXCEPT ![c] = st]
      BY <1>3, <2>1 DEF Tell
    <3> QED
      BY <3>1, <3>2
  <2>2. CASE UNCHANGED status
    <3>1. status' = [status EXCEPT ![c] = status[c]]
      BY <1>3, <2>2
    <3> QED
      BY <1>3, <3>1
  <2> QED
    BY <2>1, <2>2 DEF Schedule, SafeUpdateDepositAndWithdrawStatus
<1>6. Items' = I2
  BY <1>4 DEF Items
<1>7. pc' = [pc EXCEPT ![c] = "scheduling"] /\ plan' = [plan EXCEPT ![c] = p]
  BY <1>1 DEF Goto
<1> HIDE DEF p, t
<1>8. /\ CoinsOK(leaves, c, p, t, "main") /\ CoinsOK(leaves, c, p, t, "native")
      /\ Deposited(p) \subseteq 1 .. view /\ Built(c, "schedule", p)
      /\ Relayed(leaves, c, "schedule", p, t, Items)
      /\ Told(leaves, c, "schedule", t, status[c], view)
  BY <1>2 DEF CallOK, InTree, Matched
<1>9. \A it \in Items : it.call # c
  BY <1>8 DEF Relayed, Handed
<1>10. /\ \A it \in B : \E i \in DOMAIN p.req.amts : it = ItemOf(p, c, i)
       /\ \A i \in DOMAIN p.req.amts : ItemOf(p, c, i) \in B
  <2>1. p.items \in Seq(ItemType) /\ p.req.amts \in Seq(Int)
    BY <1>2, RequestFacts DEF Plans
  <2>2. DOMAIN p.items = DOMAIN p.req.amts /\ \A i \in DOMAIN p.items : p.items[i] = ItemOf(p, c, i)
    BY <1>8, <2>1 DEF Built
  <2> QED
    BY <2>2 DEF ToSet
<1>11. ASSUME NEW i \in DOMAIN p.req.amts
       PROVE  /\ ItemOf(p, c, i) \in ItemType /\ ItemGood(leaves, c, p, ItemOf(p, c, i))
              /\ ItemOf(p, c, i).call = c /\ ItemOf(p, c, i).to = i
  BY <1>2, <1>3, ItemOfGood
<1>12. \A it \in B : it.call = c /\ it \in ItemType /\ ItemGood(leaves, c, p, it)
  BY <1>10, <1>11
<1>13. CallOK(c, "scheduling", p, t, st, leaves, view, I2)
  <2>1. Progress(leaves, c, "scheduling", p, t)
    BY <1>2 DEF Progress, Depositing, Matched
  <2>2. Built(c, "scheduling", p)
    BY <1>8 DEF Built
  <2>3. Relayed(leaves, c, "scheduling", p, t, I2)
    <3>1. \A it \in I2 : it.call = c => ItemGood(leaves, c, p, it)
      BY <1>9, <1>12
    <3>2. \A i \in DOMAIN p.req.amts : \E it \in I2 : it.call = c /\ it.to = i
      BY <1>10, <1>11
    <3> HIDE DEF I2
    <3> QED
      BY <1>2, <3>1, <3>2 DEF Relayed, Handed
  <2>4. \A k \in CoinsOf(leaves, c, "main") : k <= view
    BY <1>2, <1>3, <1>8
  <2>5. Told(leaves, c, "scheduling", t, st, view)
    BY <1>2, <1>5, <1>8, <2>4 DEF Told, Handed
  <2> HIDE DEF I2
  <2> QED
    BY <1>2, <1>8, <2>1, <2>2, <2>3, <2>5 DEF CallOK
<1>14. CallsOK'
  <2>1. ASSUME NEW d \in Calls
        PROVE  CallOK(d, pc'[d], plan'[d], tx'[d], status'[d], leaves, view, I2)
    <3>1. CASE d = c
      <4>1. pc'[d] = "scheduling" /\ plan'[d] = p /\ tx'[d] = t /\ status'[d] = st
        BY <1>3, <1>4, <1>5, <1>7, <3>1 DEF t
      <4> QED
        BY <1>13, <3>1, <4>1
    <3>2. CASE d # c
      <4>1. pc'[d] = pc[d] /\ plan'[d] = plan[d] /\ tx'[d] = tx[d] /\ status'[d] = status[d]
        BY <1>3, <1>4, <1>5, <1>7, <3>2
      <4>2. CallOK(d, pc[d], plan[d], tx[d], status[d], leaves, view, Items)
        BY DEF IInv, CallsOK
      <4>3. Longer(leaves, leaves) /\ SameCoins(leaves, leaves, d)
        BY <1>3, LongerSame
      <4>4. \A it : it.call = d => (it \in I2 <=> it \in Items)
        BY <1>12, <3>2
      <4>5. view <= view
        BY <1>3
      <4> HIDE DEF I2
      <4>6. CallOK(d, pc[d], plan[d], tx[d], status[d], leaves, view, I2)
        BY <1>3, <4>2, <4>3, <4>4, <4>5, CallKeeps
      <4> QED
        BY <4>1, <4>6
    <3> QED
      BY <3>1, <3>2
  <2> HIDE DEF I2
  <2> QED
    BY <1>4, <1>6, <2>1 DEF CallsOK
<1>15. RelayerOK'
  <2>1. /\ Items \in SUBSET ItemType /\ Apart(Items)
        /\ scheduled \cap executed = {} /\ scheduled \cap dropped = {} /\ executed \cap dropped = {}
    BY DEF IInv, RelayerOK
  <2>2. I2 \in SUBSET ItemType
    BY <1>12, <2>1
  <2>3. Apart(I2)
    <3>1. SUFFICES ASSUME NEW a \in I2, NEW b \in I2, a.call = b.call,
                          a.to = b.to \/ a.utxos \cap b.utxos # {}
                   PROVE  a = b
      BY DEF Apart
    <3>2. CASE a \in Items
      <4>1. b \in Items
        BY <1>9, <1>12, <3>1, <3>2
      <4> QED
        BY <2>1, <3>1, <3>2, <4>1 DEF Apart
    <3>3. CASE a \in B
      <4>1. b \in B
        BY <1>9, <1>12, <3>1, <3>3
      <4>2. PICK i \in DOMAIN p.req.amts : a = ItemOf(p, c, i)
        BY <1>10, <3>3
      <4>3. PICK j \in DOMAIN p.req.amts : b = ItemOf(p, c, j)
        BY <1>10, <4>1
      <4>4. CASE a.to = b.to
        BY <1>11, <4>2, <4>3, <4>4
      <4>5. CASE a.utxos \cap b.utxos # {}
        BY <1>2, <4>2, <4>3, <4>5, ItemsApart
      <4> QED
        BY <3>1, <4>4, <4>5
    <3> QED
      BY <3>2, <3>3
  <2>4. B \cap Items = {}
    BY <1>9, <1>12
  <2>5. scheduled' \cap executed' = {} /\ scheduled' \cap dropped' = {} /\ executed' \cap dropped' = {}
    BY <1>4, <2>1, <2>4 DEF Items
  <2> HIDE DEF I2
  <2> QED
    BY <1>6, <2>2, <2>3, <2>5 DEF RelayerOK
<1>16. Shape'
  <2>1. UNCHANGED <<lpc, lplan, ltx>>
    BY DEF stuckVars
  <2>2. pc' \in [Calls -> Labels] /\ plan' \in [Calls -> Plans] /\ status' \in [Calls -> [Parts -> Phases]]
    BY <1>2, <1>3, <1>5, <1>7 DEF Labels
  <2> QED
    BY <1>3, <1>4, <2>1, <2>2 DEF Shape
<1>17. LoopsOK' /\ Ledger' /\ RefusedOnlyIfRecovered'
  BY <1>4, LedgerSame
<1> QED
  BY <1>14, <1>15, <1>16, <1>17 DEF IInv

-----------------------------------------------------------------------------
(***************************************************************************)
(* Steps of the relayer and of the contract.                               *)
(***************************************************************************)
\* A withdrawal spends leaves of its own call only.
LEMMA ItemLeaves ==
  ASSUME IInv, NEW it \in Items, NEW k \in it.utxos
  PROVE  it.call \in Calls /\ k \in DOMAIN leaves /\ leaves[k].call = it.call
<1>1. it \in ItemType
  BY DEF IInv, RelayerOK
<1>2. it.call \in Calls
  BY <1>1 DEF ItemType
<1>3. CallOK(it.call, pc[it.call], plan[it.call], tx[it.call], status[it.call], leaves, view, Items)
  BY <1>2 DEF IInv, CallsOK
<1>4. ItemGood(leaves, it.call, plan[it.call], it)
  BY <1>3 DEF CallOK, Relayed
<1>5. k \in CoinsOf(leaves, it.call, "main") \/ k \in CoinsOf(leaves, it.call, "native")
  BY <1>4 DEF ItemGood
<1> QED
  BY <1>2, <1>5 DEF CoinsOf

\* Withdrawals that share a UTXO are the same.
LEMMA ItemsDistinct ==
  ASSUME IInv, NEW a \in Items, NEW b \in Items, a.utxos \cap b.utxos # {}
  PROVE  a = b
<1>1. PICK k : k \in a.utxos /\ k \in b.utxos
  OBVIOUS
<1>2. a.call = b.call
  BY <1>1, ItemLeaves
<1> QED
  BY <1>2 DEF IInv, RelayerOK, Apart

LEMMA ExecuteOK ==
  ASSUME IInv, NEW it \in scheduled, Execute(it), UNCHANGED stuckVars
  PROVE  IInv'
<1>1. /\ UNCHANGED <<leaves, view, pc, plan, tx, status>>
      /\ UNCHANGED <<known, lpc, lplan, ltx, withdrawn, faults>>
      /\ scheduled' = scheduled \ {it}
  BY DEF Execute, stuckVars
<1>2. /\ scheduled \cap executed = {} /\ scheduled \cap dropped = {} /\ executed \cap dropped = {}
      /\ Items \in SUBSET ItemType /\ Apart(Items)
  BY DEF IInv, RelayerOK
<1>3. \/ /\ it.utxos \cap spent = {} /\ spent' = spent \cup it.utxos
         /\ executed' = executed \cup {it} /\ dropped' = dropped
      \/ /\ it.utxos \cap spent # {} /\ spent' = spent
         /\ executed' = executed /\ dropped' = dropped \cup {it}
  BY DEF Execute
<1>4. Items' = Items
  BY <1>1, <1>3 DEF Items
<1>5. Shape'
  <2>1. Shape
    BY DEF IInv
  <2> QED
    BY <1>1, <2>1 DEF Shape
<1>6. CallsOK'
  <2>1. CallsOK
    BY DEF IInv
  <2> QED
    BY <1>1, <1>4, <2>1 DEF CallsOK
<1>7. RelayerOK'
  <2>1. scheduled' \cap executed' = {} /\ scheduled' \cap dropped' = {} /\ executed' \cap dropped' = {}
    BY <1>1, <1>2, <1>3
  <2> QED
    BY <1>2, <1>4, <2>1 DEF RelayerOK
<1>8. LoopsOK'
  <2>1. LoopsOK
    BY DEF IInv
  <2> QED
    BY <1>1, <2>1 DEF LoopsOK
<1>9. Recovered' = Recovered
  BY <1>1 DEF Recovered
<1>10. /\ spent = Paid \cup Recovered /\ Paid \cap Recovered = {}
       /\ \A x \in withdrawn : Takes(leaves, x.ids, x.pays, x.fee, x.left)
       /\ \A x, y \in withdrawn : x # y => x.ids \cap y.ids = {}
       /\ \A e \in dropped : e.utxos \cap Recovered # {}
  BY DEF IInv, Ledger, RefusedOnlyIfRecovered
<1>11. Ledger'
  <2>1. spent' = Paid' \cup Recovered /\ Paid' \cap Recovered = {}
    <3>1. CASE it.utxos \cap spent = {}
      <4>1. executed' = executed \cup {it} /\ spent' = spent \cup it.utxos
        BY <1>3, <3>1
      <4>2. Paid' = Paid \cup it.utxos
        BY <4>1 DEF Paid
      <4> QED
        BY <1>10, <3>1, <4>1, <4>2
    <3>2. CASE it.utxos \cap spent # {}
      <4>1. executed' = executed /\ spent' = spent
        BY <1>3, <3>2
      <4>2. Paid' = Paid
        BY <4>1 DEF Paid
      <4> QED
        BY <1>10, <4>1, <4>2
    <3> QED
      BY <3>1, <3>2
  <2> QED
    BY <1>1, <1>9, <1>10, <2>1 DEF Ledger
<1>12. RefusedOnlyIfRecovered'
  <2>1. CASE it.utxos \cap spent = {}
    <3>1. dropped' = dropped
      BY <1>3, <2>1
    <3> QED
      BY <1>9, <1>10, <3>1 DEF RefusedOnlyIfRecovered
  <2>2. CASE it.utxos \cap spent # {}
    <3>1. dropped' = dropped \cup {it}
      BY <1>3, <2>2
    <3>2. it.utxos \cap Paid = {}
      <4>1. SUFFICES ASSUME NEW k \in it.utxos, k \in Paid PROVE FALSE
        OBVIOUS
      <4>2. PICK e \in executed : k \in e.utxos
        BY <4>1 DEF Paid
      <4>3. e \in Items /\ it \in Items /\ e.utxos \cap it.utxos # {}
        BY <4>2 DEF Items
      <4>4. e = it
        BY <4>3, ItemsDistinct
      <4> QED
        BY <1>2, <4>4
    <3>3. it.utxos \cap Recovered # {}
      BY <1>10, <2>2, <3>2
    <3> QED
      BY <1>9, <1>10, <3>1, <3>3 DEF RefusedOnlyIfRecovered
  <2> QED
    BY <2>1, <2>2
<1> QED
  BY <1>5, <1>6, <1>7, <1>8, <1>11, <1>12 DEF IInv

LEMMA RevertDepositOK ==
  ASSUME IInv, NEW c \in Calls, NEW part \in Parts, RevertDeposit(c, part), UNCHANGED stuckVars
  PROVE  IInv'
<1> DEFINE p == plan[c]
           t == [tx[c] EXCEPT ![part] = "reverted"]
           lab == pc[c]
           st == status[c]
<1>1. /\ lab \in Labels /\ p \in Plans /\ tx[c] \in [Parts -> TxStates] /\ st \in [Parts -> Phases]
      /\ CallOK(c, lab, p, tx[c], st, leaves, view, Items)
      /\ view \in Nat /\ view <= Len(leaves)
  BY CallFacts DEF CallAt
<1>2. /\ tx \in [Calls -> [Parts -> TxStates]] /\ status \in [Calls -> [Parts -> Phases]]
      /\ pc \in [Calls -> Labels] /\ plan \in [Calls -> Plans]
  BY DEF IInv, Shape
<1>3. /\ tx[c][part] = "pending" /\ tx' = [tx EXCEPT ![c] = t]
      /\ UNCHANGED <<leaves, spent, view, pc, plan, status, scheduled, executed, dropped>>
  BY <1>2 DEF RevertDeposit
<1>4. /\ pc' = [pc EXCEPT ![c] = lab] /\ plan' = [plan EXCEPT ![c] = p]
      /\ status' = [status EXCEPT ![c] = st]
  BY <1>2, <1>3
<1>5. /\ t \in [Parts -> TxStates] /\ t[part] = "reverted"
      /\ \A x \in Parts : x # part => t[x] = tx[c][x]
  BY <1>1 DEF TxStates
<1> HIDE DEF p, t, lab, st
<1>6. \A x \in Parts : /\ t[x] = "mined" <=> tx[c][x] = "mined"
                       /\ t[x] = "none" <=> tx[c][x] = "none"
  BY <1>3, <1>5
<1>7. CallOK(c, lab, p, t, st, leaves, view, Items)
  <2>1. CoinsOK(leaves, c, p, t, "main") /\ CoinsOK(leaves, c, p, t, "native")
    <3>1. CoinsOK(leaves, c, p, tx[c], "main") /\ CoinsOK(leaves, c, p, tx[c], "native")
      BY <1>1 DEF CallOK
    <3> QED
      BY <1>6, <3>1 DEF CoinsOK, Parts
  <2>2. Progress(leaves, c, lab, p, t)
    <3>1. Progress(leaves, c, lab, p, tx[c])
      BY <1>1 DEF CallOK
    <3>2. p.part \in Parts
      BY <1>1 DEF Plans
    <3> QED
      BY <1>6, <3>1, <3>2 DEF Progress, Parts
  <2>3. Relayed(leaves, c, lab, p, t, Items)
    <3>1. Relayed(leaves, c, lab, p, tx[c], Items)
      BY <1>1 DEF CallOK
    <3> QED
      BY <1>6, <3>1 DEF Relayed, Parts
  <2>4. Told(leaves, c, lab, t, st, view)
    <3>1. Told(leaves, c, lab, tx[c], st, view)
      BY <1>1 DEF CallOK
    <3> QED
      BY <1>6, <3>1 DEF Told, Parts
  <2> QED
    BY <1>1, <2>1, <2>2, <2>3, <2>4 DEF CallOK
<1>8. view' = view /\ view' \in Nat /\ view <= view' /\ view' <= Len(leaves)
  BY <1>1, <1>3
<1>9. CallOK(c, lab, p, t, st, leaves, view', Items)
  BY <1>7, <1>8
<1>10. UNCHANGED <<leaves, spent, scheduled, executed, dropped>>
  BY <1>3
<1> QED
  BY <1>1, <1>3, <1>4, <1>5, <1>8, <1>9, <1>10, LocalStep

-----------------------------------------------------------------------------
LEMMA TakesGrow ==
  ASSUME NEW L, NEW L2, Longer(L, L2), NEW ids, NEW pays, NEW fee, NEW left,
         Takes(L, ids, pays, fee, left)
  PROVE  Takes(L2, ids, pays, fee, left)
<1> DEFINE f == [k \in DOMAIN L |-> L[k].amt]
           g == [k \in DOMAIN L2 |-> L2[k].amt]
<1>1. /\ ids \in SUBSET {k \in DOMAIN L : L[k].call \in Calls} /\ IsFiniteSet(ids)
      /\ Cardinality(ids) \in 1 .. MaxInput /\ pays \in Int /\ pays > 0
      /\ SumFunctionOnSet(f, ids) = pays + fee + left
  BY DEF Takes
<1>2. \A k \in DOMAIN L : L2[k] = L[k] /\ k \in DOMAIN L2
  BY LongerFacts DEF Longer
<1>3. \A k \in ids : f[k] = g[k]
  BY <1>1, <1>2
<1>4. ids \in SUBSET {k \in DOMAIN L2 : L2[k].call \in Calls}
  BY <1>1, <1>2
<1> HIDE DEF f, g
<1>5. SumFunctionOnSet(g, ids) = pays + fee + left
  BY <1>1, <1>3, SumEq
<1> QED
  BY <1>1, <1>4, <1>5 DEF Takes, g

LEMMA LoopGrow ==
  ASSUME NEW L, NEW L2, Longer(L, L2), NEW lab, NEW p, NEW t, LoopOK(lab, p, t, L)
  PROVE  LoopOK(lab, p, t, L2)
<1>1. Takes(L, Ids(ToSet(p.ins)), p.total - p.fee, p.fee, p.left)
        => Takes(L2, Ids(ToSet(p.ins)), p.total - p.fee, p.fee, p.left)
  BY TakesGrow
<1> QED
  BY <1>1 DEF LoopOK

\* New leaves do not concern the relayer and the loops.
LEMMA GrownRest ==
  ASSUME IInv, Longer(leaves, leaves'), UNCHANGED <<spent, scheduled, executed, dropped>>,
         UNCHANGED stuckVars
  PROVE  RelayerOK' /\ LoopsOK' /\ Ledger' /\ RefusedOnlyIfRecovered'
<1>1. UNCHANGED <<known, lpc, lplan, ltx, withdrawn, faults>>
  BY DEF stuckVars
<1>2. RelayerOK'
  <2>1. RelayerOK
    BY DEF IInv
  <2> QED
    BY <2>1 DEF RelayerOK, Items
<1>3. LoopsOK'
  <2>1. \A w \in Loops : LoopOK(lpc[w], lplan[w], ltx[w], leaves)
    BY DEF IInv, LoopsOK
  <2>2. \A w \in Loops : LoopOK(lpc[w], lplan[w], ltx[w], leaves')
    BY <2>1, LoopGrow
  <2> QED
    BY <1>1, <2>2 DEF LoopsOK
<1>4. Paid' = Paid /\ Recovered' = Recovered
  BY <1>1 DEF Paid, Recovered
<1>5. Ledger'
  <2>1. /\ spent = Paid \cup Recovered /\ Paid \cap Recovered = {}
        /\ \A x \in withdrawn : Takes(leaves, x.ids, x.pays, x.fee, x.left)
        /\ \A x, y \in withdrawn : x # y => x.ids \cap y.ids = {}
    BY DEF IInv, Ledger
  <2>2. \A x \in withdrawn : Takes(leaves', x.ids, x.pays, x.fee, x.left)
    BY <2>1, TakesGrow
  <2> QED
    BY <1>1, <1>4, <2>1, <2>2 DEF Ledger
<1>6. RefusedOnlyIfRecovered'
  <2>1. RefusedOnlyIfRecovered
    BY DEF IInv
  <2> QED
    BY <1>4, <2>1 DEF RefusedOnlyIfRecovered
<1> QED
  BY <1>2, <1>3, <1>5, <1>6

LEMMA OthersInsertOK ==
  ASSUME IInv, OthersInsert, UNCHANGED stuckVars
  PROVE  IInv'
<1> DEFINE x == [call |-> "other", part |-> "main", slot |-> 0, amt |-> 1]
<1>1. x \in LeafType /\ x.call = "other" /\ "other" \notin Calls
  BY RequestAssumption DEF LeafType, Parts
<1>2. leaves' = Append(leaves, x) /\ UNCHANGED <<spent, view, pc, plan, tx, status, scheduled, executed, dropped>>
  BY DEF OthersInsert
<1>3. Shape
  BY DEF IInv
<1>4. leaves \in Seq(LeafType) /\ view \in Nat /\ view <= Len(leaves)
  BY <1>3 DEF Shape
<1> HIDE DEF x
<1>5. leaves' \in Seq(LeafType) /\ Longer(leaves, leaves') /\ \A c \in Calls : SameCoins(leaves, leaves', c)
  BY <1>1, <1>2, <1>4, LongerAppend
<1>6. view <= Len(leaves')
  BY <1>2, <1>4
<1>7. Shape'
  <2>1. UNCHANGED <<lpc, lplan, ltx>>
    BY DEF stuckVars
  <2> QED
    BY <1>2, <1>3, <1>5, <1>6, <2>1 DEF Shape
<1>8. CallsOK'
  <2>1. ASSUME NEW d \in Calls
        PROVE  CallOK(d, pc[d], plan[d], tx[d], status[d], leaves', view, Items)
    <3>1. CallOK(d, pc[d], plan[d], tx[d], status[d], leaves, view, Items)
      BY DEF IInv, CallsOK
    <3>2. \A it : it.call = d => (it \in Items <=> it \in Items)
      OBVIOUS
    <3>3. view <= view
      BY <1>4
    <3> QED
      BY <1>4, <1>5, <3>1, <3>2, <3>3, CallKeeps
  <2>2. Items' = Items
    BY <1>2 DEF Items
  <2> QED
    BY <1>2, <2>1, <2>2 DEF CallsOK
<1>9. RelayerOK' /\ LoopsOK' /\ Ledger' /\ RefusedOnlyIfRecovered'
  BY <1>2, <1>5, GrownRest
<1> QED
  BY <1>7, <1>8, <1>9 DEF IInv

-----------------------------------------------------------------------------
\* A deposit appends leaves N of call c and one part.
OfPart(N, c, part) == \A k \in 1 .. Len(N) : N[k].call = c /\ N[k].part = part

Minted(L, L2, N, c, part) ==
  /\ L2 \in Seq(LeafType) /\ Longer(L, L2)
  /\ \A d : d # c => SameCoins(L, L2, d)
  /\ \A x : x # part => CoinsOf(L2, c, x) = CoinsOf(L, c, x)
  /\ \A k \in CoinsOf(L2, c, part) : k \in CoinsOf(L, c, part) \/ k - Len(L) \in 1 .. Len(N)
  /\ \A k \in 1 .. Len(N) : Len(L) + k \in CoinsOf(L2, c, part) /\ L2[Len(L) + k] = N[k]

LEMMA LongerConcat ==
  ASSUME NEW L, L \in Seq(LeafType), NEW N, N \in Seq(LeafType), NEW c, NEW part,
         OfPart(N, c, part)
  PROVE  Minted(L, L \o N, N, c, part)
<1> DEFINE M == L \o N
           l == Len(L)
           n == Len(N)
<1>1. /\ M \in Seq(LeafType) /\ Len(M) = l + n /\ l \in Nat /\ n \in Nat
      /\ \A i \in 1 .. l + n : M[i] = IF i <= l THEN L[i] ELSE N[i - l]
  BY ConcatProperties
<1>2. DOMAIN L = 1 .. l /\ DOMAIN M = 1 .. l + n
  BY <1>1
<1> HIDE DEF M, l, n
<1>3. \A k \in 1 .. l : M[k] = L[k]
  BY <1>1
<1>4. ASSUME NEW k \in 1 .. n PROVE l + k \in DOMAIN M /\ M[l + k] = N[k]
  <2>1. l + k \in 1 .. l + n /\ ~(l + k <= l) /\ (l + k) - l = k
    BY <1>1
  <2> QED
    BY <1>1, <1>2, <2>1
<1>5. ASSUME NEW k \in DOMAIN M, k \notin DOMAIN L PROVE k - l \in 1 .. n /\ M[k] = N[k - l]
  <2>1. k \in 1 .. l + n /\ ~(k <= l) /\ k - l \in 1 .. n
    BY <1>1, <1>2, <1>5
  <2> QED
    BY <1>1, <2>1
<1>6. Longer(L, M)
  BY <1>1, <1>2, <1>3 DEF Longer, l
<1>7. \A k \in 1 .. n : N[k].call = c /\ N[k].part = part
  BY DEF n, OfPart
<1>8. \A k \in DOMAIN L : k \in DOMAIN M /\ M[k] = L[k]
  BY <1>1, <1>2, <1>3
<1>9. \A d : d # c => SameCoins(L, M, d)
  BY <1>5, <1>7 DEF SameCoins
<1>10. \A x : x # part => CoinsOf(M, c, x) = CoinsOf(L, c, x)
  BY <1>5, <1>7, <1>8 DEF CoinsOf
<1>11. \A k \in CoinsOf(M, c, part) : k \in CoinsOf(L, c, part) \/ k - l \in 1 .. n
  BY <1>5, <1>8 DEF CoinsOf
<1>12. \A k \in 1 .. n : l + k \in CoinsOf(M, c, part) /\ M[l + k] = N[k]
  BY <1>4, <1>7 DEF CoinsOf
<1> QED
  BY <1>1, <1>6, <1>9, <1>10, <1>11, <1>12 DEF M, l, n, Minted

\* An order of the slots has each of them once.
LEMMA CreatedFacts ==
  ASSUME NEW w, IsFiniteSet(DOMAIN w), NEW zeros \in BOOLEAN, NEW slots \in Created(w, zeros)
  PROVE  \E n \in Nat : /\ slots \in [1 .. n -> DOMAIN w]
                        /\ \A i, j \in 1 .. n : slots[i] = slots[j] => i = j
                        /\ \A i \in DOMAIN w : w[i] > 0 => \E k \in 1 .. n : slots[k] = i
<1> DEFINE S == {i \in DOMAIN w : zeros \/ w[i] > 0}
           n == Cardinality(S)
           D == 1 .. n
<1>1. S \in SUBSET DOMAIN w
  OBVIOUS
<1>2. IsFiniteSet(S) /\ n \in Nat
  BY <1>1, FS_Subset, FS_CardinalityType
<1>3. slots \in [D -> S] /\ \A i, j \in D : i # j => slots[i] # slots[j]
  BY DEF Created, SetToSeqs
<1>4. IsFiniteSet(D) /\ Cardinality(D) = n
  <2>1. 1 \in Int /\ n \in Int
    BY <1>2
  <2> HIDE DEF n
  <2>2. IsFiniteSet(1 .. n) /\ Cardinality(1 .. n) = IF 1 > n THEN 0 ELSE n - 1 + 1
    BY <2>1, FS_Interval
  <2> QED
    BY <1>2, <2>2
<1>5. slots \in Injection(D, S)
  <2> HIDE DEF D, S
  <2> QED
    BY <1>3 DEF Injection, IsInjective
<1>6. slots \in Surjection(D, S)
  <2> HIDE DEF D, S
  <2> QED
    BY <1>2, <1>4, <1>5, FS_Injection DEF n
<1>7. \A i \in S : \E k \in D : slots[k] = i
  <2> HIDE DEF D, S
  <2> QED
    BY <1>6 DEF Surjection
<1>8. slots \in [D -> DOMAIN w]
  <2> HIDE DEF D
  <2> QED
    BY <1>1, <1>3
<1>9. \A i \in DOMAIN w : w[i] > 0 => \E k \in 1 .. n : slots[k] = i
  <2>1. \A i \in DOMAIN w : w[i] > 0 => i \in S
    OBVIOUS
  <2> HIDE DEF S
  <2> QED
    BY <1>7, <2>1
<1>10. \A i, j \in 1 .. n : slots[i] = slots[j] => i = j
  BY <1>3
<1> HIDE DEF n, S
<1> QED
  BY <1>2, <1>8, <1>9, <1>10

LEMMA MineDepositOK ==
  ASSUME IInv, NEW c \in Calls, NEW part \in Parts, NEW zeros \in BOOLEAN,
         NEW slots \in Created(PartOf(c, part), zeros), MineDeposit(c, part, slots), UNCHANGED stuckVars
  PROVE  IInv'
<1> DEFINE p == plan[c]
           t == [tx[c] EXCEPT ![part] = "mined"]
           lab == pc[c]
           st == status[c]
           w == WantedOf(p, part)
           N == [k \in DOMAIN slots |-> [call |-> c, part |-> part, slot |-> slots[k], amt |-> w[slots[k]]]]
           L == leaves
           L2 == leaves'
<1>1. /\ lab \in Labels /\ p \in Plans /\ tx[c] \in [Parts -> TxStates] /\ st \in [Parts -> Phases]
      /\ CallOK(c, lab, p, tx[c], st, L, view, Items)
      /\ L \in Seq(LeafType) /\ Len(L) \in Nat /\ view \in Nat /\ view <= Len(L)
  BY CallFacts DEF CallAt
<1>2. /\ tx \in [Calls -> [Parts -> TxStates]] /\ status \in [Calls -> [Parts -> Phases]]
      /\ pc \in [Calls -> Labels] /\ plan \in [Calls -> Plans]
      /\ lpc \in [Loops -> {"idle", "reset", "select", "fee", "pad", "send", "sent"}]
      /\ lplan \in [Loops -> LoopPlans] /\ ltx \in [Loops -> TxStates]
  BY DEF IInv, Shape
<1>3. PartOf(c, part) = w
  BY DEF PartOf, WantedOf
<1>4. /\ tx[c][part] = "pending" /\ tx' = [tx EXCEPT ![c] = t] /\ L2 = L \o N
      /\ UNCHANGED <<spent, view, pc, plan, status, scheduled, executed, dropped>>
  BY <1>2, <1>3 DEF MineDeposit
<1>5. /\ t \in [Parts -> TxStates] /\ t[part] = "mined"
      /\ \A x \in Parts : x # part => t[x] = tx[c][x]
  BY <1>1 DEF TxStates
<1>6. Terms(p)
  BY <1>1 DEF CallOK
<1> HIDE DEF p, t, lab, st
<1>7. /\ \A i \in DOMAIN w : w[i] \in Nat
      /\ DOMAIN w \in SUBSET Nat /\ IsFiniteSet(DOMAIN w)
  BY <1>1, <1>6, WantedNat
<1> HIDE DEF w
<1>8. PICK n \in Nat : /\ slots \in [1 .. n -> DOMAIN w]
                       /\ \A i, j \in 1 .. n : slots[i] = slots[j] => i = j
                       /\ \A i \in DOMAIN w : w[i] > 0 => \E k \in 1 .. n : slots[k] = i
  BY <1>3, <1>7, CreatedFacts
<1>9. N \in Seq(LeafType) /\ Len(N) = n
  <2>1. \A k \in 1 .. n : slots[k] \in DOMAIN w /\ slots[k] \in Nat /\ w[slots[k]] \in Nat
    BY <1>7, <1>8
  <2>2. \A k \in 1 .. n : [call |-> c, part |-> part, slot |-> slots[k], amt |-> w[slots[k]]] \in LeafType
    BY <2>1 DEF LeafType
  <2>3. N = [k \in 1 .. n |-> [call |-> c, part |-> part, slot |-> slots[k], amt |-> w[slots[k]]]]
    BY <1>8
  <2>4. N \in [1 .. n -> LeafType]
    BY <2>2, <2>3
  <2> HIDE DEF N
  <2> QED
    BY <2>4, SeqDef, LenProperties
<1>10. \A k \in 1 .. n : N[k].call = c /\ N[k].part = part /\ N[k].slot = slots[k] /\ N[k].amt = w[slots[k]]
  BY <1>8
<1> HIDE DEF N
<1>11. /\ L2 \in Seq(LeafType) /\ Longer(L, L2)
       /\ \A d : d # c => SameCoins(L, L2, d)
       /\ \A x : x # part => CoinsOf(L2, c, x) = CoinsOf(L, c, x)
       /\ \A k \in CoinsOf(L2, c, part) : k \in CoinsOf(L, c, part) \/ k - Len(L) \in 1 .. n
       /\ \A k \in 1 .. n : /\ Len(L) + k \in CoinsOf(L2, c, part)
                            /\ L2[Len(L) + k] = N[k]
  <2>1. OfPart(N, c, part)
    BY <1>9, <1>10 DEF OfPart
  <2> HIDE DEF L, L2
  <2>2. Minted(L, L \o N, N, c, part)
    BY <1>1, <1>9, <2>1, LongerConcat
  <2>3. Minted(L, L2, N, c, part)
    BY <1>4, <2>2
  <2> QED
    BY <1>9, <2>3 DEF Minted
<1> HIDE DEF L, L2
<1>12. \A k \in DOMAIN L : L2[k] = L[k]
  BY <1>11 DEF Longer
<1>13. CoinsOf(L, c, part) = {}
  BY <1>1, <1>4 DEF CallOK, CoinsOK, Parts
<1>14. \A x \in Parts : /\ t[x] = "none" => tx[c][x] = "none"
                        /\ x # part => t[x] = tx[c][x]
                        /\ tx[c][x] = "mined" => t[x] = "mined"
                        /\ tx[c][x] = "none" => t[x] = "none"
  BY <1>4, <1>5
<1>15. CallOK(c, lab, p, t, st, L2, view, Items)
  <2>1. ASSUME NEW x \in Parts PROVE CoinsOK(L2, c, p, t, x)
    <3>1. CASE x # part
      <4>1. CoinsOf(L2, c, x) = CoinsOf(L, c, x)
        BY <1>11, <3>1
      <4>2. \A k \in CoinsOf(L, c, x) : L2[k] = L[k]
        BY <1>12 DEF CoinsOf
      <4>3. CoinsOK(L, c, p, tx[c], x)
        BY <1>1 DEF CallOK, Parts
      <4>4. t[x] = tx[c][x]
        BY <1>14, <3>1
      <4> QED
        BY <4>1, <4>2, <4>3, <4>4 DEF CoinsOK
    <3>2. CASE x = part
      <4> DEFINE C == CoinsOf(L2, c, part)
      <4>0. Len(L) \in Nat
        BY <1>1
      <4>1. ASSUME NEW k \in C
            PROVE  /\ k - Len(L) \in 1 .. n /\ k \in Int
                   /\ L2[k].slot = slots[k - Len(L)] /\ L2[k].amt = w[slots[k - Len(L)]]
        <5>1. k \in DOMAIN L2 /\ k - Len(L) \in 1 .. n
          BY <1>11, <1>13 DEF CoinsOf
        <5>2. k \in Int
          BY <1>11, <5>1
        <5>3. Len(L) + (k - Len(L)) = k
          BY <4>0, <5>2
        <5>4. L2[Len(L) + (k - Len(L))] = N[k - Len(L)]
          BY <1>11, <5>1
        <5>5. L2[k] = N[k - Len(L)]
          BY <5>3, <5>4
        <5> QED
          BY <1>10, <5>1, <5>2, <5>5
      <4>2. \A k \in C : L2[k].slot \in DOMAIN w /\ L2[k].amt = w[L2[k].slot]
        BY <1>8, <4>1
      <4>3. ASSUME NEW k \in C, NEW m \in C, L2[k].slot = L2[m].slot PROVE k = m
        <5>1. k - Len(L) = m - Len(L)
          BY <1>8, <4>1, <4>3
        <5> QED
          BY <4>0, <4>1, <5>1
      <4>4. ASSUME NEW i \in DOMAIN w, w[i] > 0 PROVE \E k \in C : L2[k].slot = i
        <5>1. PICK k \in 1 .. n : slots[k] = i
          BY <1>8, <4>4
        <5>2. Len(L) + k \in C /\ L2[Len(L) + k] = N[k]
          BY <1>11
        <5> QED
          BY <1>10, <5>1, <5>2
      <4> HIDE DEF C
      <4> QED
        BY <1>5, <3>2, <4>2, <4>3, <4>4 DEF CoinsOK, C, w
    <3> QED
      BY <3>1, <3>2
  <2>2. CoinsOK(L2, c, p, t, "main") /\ CoinsOK(L2, c, p, t, "native")
    BY <2>1 DEF Parts
  <2>3. Progress(L2, c, lab, p, t)
    <3>1. Progress(L, c, lab, p, tx[c])
      BY <1>1 DEF CallOK
    <3>2. p.part \in Parts
      BY <1>1 DEF Plans
    <3>3. \A x : MatchedOK(L, c, p, x) => MatchedOK(L2, c, p, x)
      BY <1>11, MatchedGrow
    <3>4. tx[c][part] # "none" /\ tx[c][part] # "mined"
      BY <1>4
    <3> QED
      BY <1>14, <3>1, <3>2, <3>3, <3>4 DEF Progress, Parts
  <2>4. Relayed(L2, c, lab, p, t, Items)
    <3>1. Relayed(L, c, lab, p, tx[c], Items)
      BY <1>1 DEF CallOK
    <3>2. \A it : ItemGood(L, c, p, it) => ItemGood(L2, c, p, it)
      BY <1>11, ItemGrow
    <3> QED
      BY <1>14, <3>1, <3>2 DEF Relayed, Parts
  <2>5. Told(L2, c, lab, t, st, view)
    <3>1. Told(L, c, lab, tx[c], st, view)
      BY <1>1 DEF CallOK
    <3>2. CASE part = "main"
      BY <1>4, <1>5, <3>1, <3>2 DEF Told
    <3>3. CASE part # "main"
      <4>1. CoinsOf(L2, c, "main") = CoinsOf(L, c, "main")
        BY <1>11, <3>3
      <4> QED
        BY <1>14, <3>1, <3>3, <4>1 DEF Told, Parts
    <3> QED
      BY <3>2, <3>3
  <2> QED
    BY <1>1, <2>2, <2>3, <2>4, <2>5 DEF CallOK
<1>16. CallsOK'
  <2>1. ASSUME NEW d \in Calls
        PROVE  CallOK(d, pc[d], plan[d], tx'[d], status[d], L2, view, Items)
    <3>1. CASE d = c
      <4>1. tx'[d] = t
        BY <1>2, <1>4, <3>1
      <4> QED
        BY <1>15, <3>1, <4>1 DEF p, lab, st
    <3>2. CASE d # c
      <4>1. tx'[d] = tx[d]
        BY <1>2, <1>4, <3>2
      <4>2. CallOK(d, pc[d], plan[d], tx[d], status[d], L, view, Items)
        BY DEF IInv, CallsOK, L
      <4>3. Longer(L, L2) /\ SameCoins(L, L2, d)
        BY <1>11, <3>2
      <4>4. \A it : it.call = d => (it \in Items <=> it \in Items)
        OBVIOUS
      <4>5. view <= view /\ view \in Nat
        BY <1>1
      <4>6. CallOK(d, pc[d], plan[d], tx[d], status[d], L2, view, Items)
        BY <4>2, <4>3, <4>4, <4>5, CallKeeps
      <4> QED
        BY <4>1, <4>6
    <3> QED
      BY <3>1, <3>2
  <2>2. Items' = Items
    BY <1>4 DEF Items
  <2> QED
    BY <1>4, <2>1, <2>2 DEF CallsOK, L2
<1>17. Shape'
  <2>1. UNCHANGED <<lpc, lplan, ltx>>
    BY DEF stuckVars
  <2>2. tx' \in [Calls -> [Parts -> TxStates]]
    BY <1>2, <1>4, <1>5
  <2>3. view <= Len(L2)
    <3>1. Len(L2) \in Nat /\ Len(L) <= Len(L2)
      BY <1>11 DEF Longer
    <3> QED
      BY <1>1, <3>1
  <2> QED
    BY <1>1, <1>2, <1>4, <1>11, <2>1, <2>2, <2>3 DEF Shape, L2
<1>18. RelayerOK' /\ LoopsOK' /\ Ledger' /\ RefusedOnlyIfRecovered'
  <2>1. Longer(leaves, leaves')
    BY <1>11 DEF L, L2
  <2> QED
    BY <1>4, <2>1, GrownRest
<1> QED
  BY <1>16, <1>17, <1>18 DEF IInv

-----------------------------------------------------------------------------
(***************************************************************************)
(* Steps of the loops.                                                     *)
(***************************************************************************)
LoopLabels == {"idle", "reset", "select", "fee", "pad", "send", "sent"}

LEMMA LoopFacts ==
  ASSUME IInv, NEW w \in Loops
  PROVE  /\ LoopOK(lpc[w], lplan[w], ltx[w], leaves)
         /\ lpc[w] \in LoopLabels /\ lplan[w] \in LoopPlans /\ ltx[w] \in TxStates
         /\ lpc \in [Loops -> LoopLabels] /\ lplan \in [Loops -> LoopPlans] /\ ltx \in [Loops -> TxStates]
         /\ leaves \in Seq(LeafType) /\ view \in Nat /\ Len(leaves) \in Nat /\ view <= Len(leaves)
BY DEF IInv, Shape, LoopsOK, LoopLabels

\* A step of one loop that leaves the chain alone.
LEMMA LoopLocal ==
  ASSUME IInv, NEW w \in Loops, NEW lab \in LoopLabels, NEW p \in LoopPlans, NEW t \in TxStates,
         LGoto(w, lab, p), ltx' = [ltx EXCEPT ![w] = t],
         view' \in Nat, view <= view', view' <= Len(leaves),
         UNCHANGED <<leaves, spent, pc, plan, tx, status, scheduled, executed, dropped, withdrawn>>,
         LoopOK(lab, p, t, leaves)
  PROVE  IInv'
<1>1. /\ lpc \in [Loops -> LoopLabels] /\ lplan \in [Loops -> LoopPlans] /\ ltx \in [Loops -> TxStates]
      /\ leaves \in Seq(LeafType) /\ view \in Nat
  BY LoopFacts
<1>2. lpc' = [lpc EXCEPT ![w] = lab] /\ lplan' = [lplan EXCEPT ![w] = p]
  BY DEF LGoto
<1>3. Shape'
  <2>1. Shape
    BY DEF IInv
  <2>2. lpc' \in [Loops -> LoopLabels] /\ lplan' \in [Loops -> LoopPlans] /\ ltx' \in [Loops -> TxStates]
    BY <1>1, <1>2
  <2> QED
    BY <2>1, <2>2 DEF Shape, LoopLabels
<1>4. Items' = Items /\ Paid' = Paid /\ Recovered' = Recovered
  BY DEF Items, Paid, Recovered
<1>5. CallsOK'
  <2>1. ASSUME NEW d \in Calls
        PROVE  CallOK(d, pc[d], plan[d], tx[d], status[d], leaves, view', Items)
    <3>1. CallOK(d, pc[d], plan[d], tx[d], status[d], leaves, view, Items)
      BY DEF IInv, CallsOK
    <3>2. Longer(leaves, leaves) /\ SameCoins(leaves, leaves, d)
      BY <1>1, LongerSame
    <3>3. \A it : it.call = d => (it \in Items <=> it \in Items)
      OBVIOUS
    <3> QED
      BY <1>1, <3>1, <3>2, <3>3, CallKeeps
  <2> QED
    BY <1>4, <2>1 DEF CallsOK
<1>6. RelayerOK'
  <2>1. RelayerOK
    BY DEF IInv
  <2> QED
    BY <2>1 DEF RelayerOK, Items
<1>7. LoopsOK'
  <2>1. ASSUME NEW x \in Loops PROVE LoopOK(lpc'[x], lplan'[x], ltx'[x], leaves)
    <3>1. CASE x = w
      <4>1. lpc'[x] = lab /\ lplan'[x] = p /\ ltx'[x] = t
        BY <1>1, <1>2, <3>1
      <4> QED
        BY <4>1
    <3>2. CASE x # w
      <4>1. lpc'[x] = lpc[x] /\ lplan'[x] = lplan[x] /\ ltx'[x] = ltx[x]
        BY <1>1, <1>2, <3>2
      <4>2. LoopOK(lpc[x], lplan[x], ltx[x], leaves)
        BY LoopFacts
      <4> QED
        BY <4>1, <4>2
    <3> QED
      BY <3>1, <3>2
  <2> QED
    BY <2>1 DEF LoopsOK
<1>8. Ledger'
  <2>1. Ledger
    BY DEF IInv
  <2> QED
    BY <1>4, <2>1 DEF Ledger
<1>9. RefusedOnlyIfRecovered'
  <2>1. RefusedOnlyIfRecovered
    BY DEF IInv
  <2> QED
    BY <1>4, <2>1 DEF RefusedOnlyIfRecovered
<1> QED
  BY <1>3, <1>5, <1>6, <1>7, <1>8, <1>9 DEF IInv

\* A step that does not look at the servers either.
LEMMA LoopQuiet ==
  ASSUME IInv, NEW w \in Loops, NEW lab \in LoopLabels, NEW p \in LoopPlans, NEW t \in TxStates,
         LGoto(w, lab, p), ltx' = [ltx EXCEPT ![w] = t], UNCHANGED sendVars, UNCHANGED withdrawn,
         LoopOK(lab, p, t, leaves)
  PROVE  IInv'
<1>1. UNCHANGED <<leaves, spent, view, pc, plan, tx, status, scheduled, executed, dropped>>
  BY DEF sendVars
<1>2. view' \in Nat /\ view <= view' /\ view' <= Len(leaves)
  BY <1>1, LoopFacts
<1> QED
  BY <1>1, <1>2, LoopLocal

LEMMA NoLoopType == \A part \in Parts : /\ [NoLoop EXCEPT !.part = part] \in LoopPlans
                                        /\ NoLoop \in LoopPlans
<1>1. NoId \in Id
  BY DEF NoId, Id
<1>2. Pad \in [id : Id, amt : Nat]
  BY <1>1 DEF Pad
<1>3. <<Pad, Pad>> \in Seq([id : Id, amt : Nat])
  <2> HIDE DEF Pad
  <2> QED
    BY <1>2
<1> QED
  BY <1>3 DEF NoLoop, LoopPlans, Parts

LEMMA ReturnOK ==
  ASSUME IInv, NEW w \in Loops, Return(w), NEW t \in TxStates, t # "pending",
         ltx' = [ltx EXCEPT ![w] = t], UNCHANGED sendVars, UNCHANGED withdrawn
  PROVE  IInv'
<1>1. NoLoop \in LoopPlans /\ "idle" \in LoopLabels
  BY NoLoopType DEF Parts, LoopLabels
<1>2. LoopOK("idle", NoLoop, t, leaves)
  BY DEF LoopOK
<1>3. LGoto(w, "idle", NoLoop)
  BY DEF Return
<1> QED
  BY <1>1, <1>2, <1>3, LoopQuiet

LEMMA StartOK ==
  ASSUME IInv, NEW w \in Loops, NEW part \in Parts, Start(w, part)
  PROVE  IInv'
<1> DEFINE p == [NoLoop EXCEPT !.part = part]
<1>1. p \in LoopPlans /\ "reset" \in LoopLabels /\ "none" \in TxStates
  BY NoLoopType DEF LoopLabels, TxStates
<1>2. /\ LGoto(w, "reset", p) /\ ltx' = [ltx EXCEPT ![w] = "none"]
      /\ UNCHANGED sendVars /\ UNCHANGED withdrawn
  BY DEF Start
<1> HIDE DEF p
<1>3. LoopOK("reset", p, "none", leaves)
  BY DEF LoopOK
<1> QED
  BY <1>1, <1>2, <1>3, LoopQuiet

LEMMA ResetOK ==
  ASSUME IInv, NEW w \in Loops, NEW v, NEW fresh, Reset(w, v, fresh)
  PROVE  IInv'
<1>1. /\ lpc[w] = "reset" /\ v \in view .. Len(leaves) /\ view' = v
      /\ LGoto(w, "select", lplan[w])
      /\ UNCHANGED <<leaves, spent, pc, plan, tx, status, scheduled, executed, dropped, withdrawn>>
      /\ ltx' = ltx
  BY DEF Reset
<1>2. /\ LoopOK("reset", lplan[w], ltx[w], leaves) /\ lplan[w] \in LoopPlans /\ ltx[w] \in TxStates
      /\ ltx \in [Loops -> TxStates] /\ view \in Nat /\ Len(leaves) \in Nat
  BY <1>1, LoopFacts
<1>3. view' \in Nat /\ view <= view' /\ view' <= Len(leaves)
  BY <1>1, <1>2
<1>4. LoopOK("select", lplan[w], ltx[w], leaves)
  BY <1>2 DEF LoopOK
<1>5. ltx' = [ltx EXCEPT ![w] = ltx[w]] /\ "select" \in LoopLabels
  BY <1>1, <1>2 DEF LoopLabels
<1> QED
  BY <1>1, <1>2, <1>3, <1>4, <1>5, LoopLocal

-----------------------------------------------------------------------------
\* What is stuck is stock to choose from.
StuckPlaces(part) == {j \in 1 .. view : /\ leaves[j].call \in Calls /\ leaves[j].part = part
                                        /\ leaves[j].amt > 0 /\ j \notin known /\ j \notin Booked}

LEMMA StuckStock ==
  ASSUME IInv, NEW part, NEW U, U = StuckUtxos(part)
  PROVE  /\ Stock(U)
         /\ \A u \in U : /\ u.id \in Id /\ u.id # NoId /\ u.id[1] \in DOMAIN leaves
                         /\ leaves[u.id[1]].call \in Calls /\ leaves[u.id[1]].amt = u.amt
         /\ \A u, v \in U : u.id[1] = v.id[1] => u = v
<1> DEFINE K == StuckPlaces(part)
           h == [k \in K |-> [id |-> <<k, <<1, 1>>>>, amt |-> leaves[k].amt]]
<1>1. leaves \in Seq(LeafType) /\ view \in Nat /\ Len(leaves) \in Nat /\ view <= Len(leaves)
  BY DEF IInv, Shape
<1>2. U = {h[k] : k \in K}
  BY DEF StuckUtxos, StuckPlaces
<1>3. IsFiniteSet(1 .. view)
  BY <1>1, FS_Interval
<1>4. K \in SUBSET (1 .. view)
  BY DEF StuckPlaces
<1>5. IsFiniteSet(K)
  BY <1>3, <1>4, FS_Subset
<1>6. IsFiniteSet(U)
  <2> HIDE DEF h, K
  <2> QED
    BY <1>2, <1>5, FiniteImage
<1>7. \A k \in K : k \in DOMAIN leaves /\ leaves[k].call \in Calls /\ leaves[k].amt > 0 /\ leaves[k] \in LeafType
  BY <1>1, <1>4 DEF StuckPlaces
<1>8. \A k \in K : k \in Nat /\ k # 0 /\ leaves[k].amt \in Nat \ {0}
  BY <1>1, <1>4, <1>7 DEF LeafType
<1> HIDE DEF K
<1>9. ASSUME NEW u \in U
      PROVE  /\ u.id \in Id /\ u.amt \in Nat \ {0} /\ u = [id |-> u.id, amt |-> u.amt]
             /\ u.id[1] \in K /\ u = h[u.id[1]] /\ u.id # NoId
             /\ leaves[u.id[1]].amt = u.amt
  <2>1. PICK k \in K : u = h[k]
    BY <1>2
  <2>2. u = [id |-> <<k, <<1, 1>>>>, amt |-> leaves[k].amt]
    BY <2>1
  <2>3. u.id = <<k, <<1, 1>>>> /\ u.id[1] = k /\ u.amt = leaves[k].amt
    BY <2>2
  <2>4. <<k, <<1, 1>>>> \in Id
    BY <1>8 DEF Id
  <2>5. <<k, <<1, 1>>>> # NoId
    BY <1>8 DEF NoId
  <2> QED
    BY <1>8, <2>1, <2>2, <2>3, <2>4, <2>5
<1> HIDE DEF h
<1>10. \A u, v \in U : u.id[1] = v.id[1] => u = v
  <2>1. SUFFICES ASSUME NEW u \in U, NEW v \in U, u.id[1] = v.id[1] PROVE u = v
    OBVIOUS
  <2>2. u = h[u.id[1]] /\ v = h[v.id[1]]
    BY <1>9
  <2> QED
    BY <2>1, <2>2
<1>11. Stock(U)
  <2>1. \A u, v \in U : u.id = v.id => u = v
    BY <1>10
  <2> QED
    BY <1>6, <1>9, <2>1 DEF Stock
<1> QED
  BY <1>7, <1>9, <1>10, <1>11

LEMMA StockPart ==
  ASSUME NEW U, Stock(U), NEW V \in SUBSET U
  PROVE  Stock(V)
<1>1. IsFiniteSet(V)
  BY FS_Subset DEF Stock
<1> QED
  BY <1>1 DEF Stock

LEMMA RowNat ==
  ASSUME NEW U, Stock(U), NEW row, Filled(row, U)
  PROVE  TotalAmount(row) \in Nat
<1> DEFINE f == [j \in DOMAIN row |-> row[j].amt]
<1>1. IsFiniteSet(DOMAIN row) /\ \A j \in DOMAIN row : row[j].amt \in Nat
  BY RowPlaces
<1>2. \A j \in DOMAIN row : f[j] \in Nat
  BY <1>1
<1> HIDE DEF f
<1>3. SumFunctionOnSet(f, DOMAIN row) \in Nat
  BY <1>1, <1>2, SumNat
<1> QED
  BY <1>3 DEF TotalAmount, f

LEMMA SelectStuckOK ==
  ASSUME IInv, NEW w \in Loops, SelectStuck(w)
  PROVE  IInv'
<1> DEFINE p == lplan[w]
           U == UnspentOnChain(StuckUtxos(p.part))
           row == SortAndPadUtxos(U)
           n == IF Len(row) > MaxInput THEN MaxInput ELSE Len(row)
           total == CountStuckUtxoAmount(PositiveStuckUtxosForToken(p.part))
           q == [p EXCEPT !.total = total]
<1>1. lpc[w] = "select" /\ UNCHANGED sendVars /\ UNCHANGED <<ltx, withdrawn>>
  BY DEF SelectStuck
<1>2. IF total = 0 THEN Return(w) ELSE LGoto(w, "fee", q)
  BY DEF SelectStuck
<1>3. /\ LoopOK("select", p, ltx[w], leaves) /\ p \in LoopPlans /\ ltx[w] \in TxStates
      /\ ltx \in [Loops -> TxStates]
  BY <1>1, LoopFacts
<1>4. ltx[w] # "pending" /\ ltx' = [ltx EXCEPT ![w] = ltx[w]] /\ "fee" \in LoopLabels
  BY <1>1, <1>3 DEF LoopOK, LoopLabels
<1>5. total \in Nat
  <2>1. Stock(StuckUtxos(p.part))
    BY StuckStock
  <2>2. U \in SUBSET StuckUtxos(p.part)
    BY DEF UnspentOnChain
  <2>3. Stock(U)
    BY <2>1, <2>2, StockPart
  <2>4. total = TotalAmount(SubSeq(row, 1, n))
    BY DEF CountStuckUtxoAmount, PositiveStuckUtxosForToken, SortAndCapStuckUtxos
  <2> HIDE DEF U, total
  <2>5. /\ Filled(row, U) /\ Len(row) \in Nat
        /\ Len(row) = MinInput \/ Len(row) >= MaxInput
    BY <2>3, FilledSortAndPad
  <2> HIDE DEF row
  <2>6. n \in 1 .. Len(row)
    BY <2>5, Limits
  <2>7. Filled(SubSeq(row, 1, n), U)
    BY <2>3, <2>5, <2>6, FilledCut
  <2> QED
    BY <2>3, <2>4, <2>7, RowNat
<1> HIDE DEF total, p
<1>6. CASE total = 0
  BY <1>1, <1>2, <1>3, <1>4, <1>6, ReturnOK
<1>7. CASE total # 0
  <2>1. q \in LoopPlans /\ q.total = total
    BY <1>3, <1>5 DEF LoopPlans
  <2> HIDE DEF q
  <2>2. LoopOK("fee", q, ltx[w], leaves)
    BY <1>4, <1>5, <1>7, <2>1 DEF LoopOK
  <2> QED
    BY <1>1, <1>2, <1>3, <1>4, <1>7, <2>1, <2>2, LoopQuiet
<1> QED
  BY <1>6, <1>7

LEMMA StuckFeeOK ==
  ASSUME IInv, NEW w \in Loops, NEW fee \in StuckFees, StuckFee(w, fee)
  PROVE  IInv'
<1> DEFINE p == lplan[w]
           q == [p EXCEPT !.fee = fee]
<1>1. lpc[w] = "fee" /\ UNCHANGED sendVars /\ UNCHANGED <<ltx, withdrawn>>
  BY DEF StuckFee
<1>2. IF LeavesNothing(p, fee) THEN Return(w) ELSE LGoto(w, "pad", q)
  BY DEF StuckFee
<1>3. /\ LoopOK("fee", p, ltx[w], leaves) /\ p \in LoopPlans /\ ltx[w] \in TxStates
      /\ ltx \in [Loops -> TxStates]
  BY <1>1, LoopFacts
<1>4. ltx[w] # "pending" /\ ltx' = [ltx EXCEPT ![w] = ltx[w]] /\ "pad" \in LoopLabels /\ p.total > 0
  BY <1>1, <1>3 DEF LoopOK, LoopLabels
<1>5. fee \in Nat
  BY StuckAssumption
<1> HIDE DEF p
<1>6. CASE LeavesNothing(p, fee)
  BY <1>1, <1>2, <1>3, <1>4, <1>6, ReturnOK
<1>7. CASE ~LeavesNothing(p, fee)
  <2>1. q \in LoopPlans /\ q.total = p.total /\ q.fee = fee
    BY <1>3, <1>5 DEF LoopPlans
  <2> HIDE DEF q
  <2>2. q.total > 0
    BY <1>4, <2>1
  <2>3. q.total - q.fee > 0
    <3>1. p.total \in Nat
      BY <1>3 DEF LoopPlans
    <3> QED
      BY <1>5, <1>7, <2>1, <3>1 DEF LeavesNothing
  <2>4. LoopOK("pad", q, ltx[w], leaves)
    BY <1>4, <2>2, <2>3 DEF LoopOK
  <2> QED
    BY <1>1, <1>2, <1>3, <1>4, <1>7, <2>1, <2>4, LoopQuiet
<1> QED
  BY <1>6, <1>7

-----------------------------------------------------------------------------
\* What the inputs of a loop's transaction are worth.
LEMMA InputsTaken ==
  ASSUME NEW L, NEW U, Stock(U),
         \A u \in U : /\ u.id \in Id /\ u.id # NoId /\ u.id[1] \in DOMAIN L
                      /\ L[u.id[1]].call \in Calls /\ L[u.id[1]].amt = u.amt,
         \A u, v \in U : u.id[1] = v.id[1] => u = v,
         NEW row, Filled(row, U), Len(row) <= MaxInput, TotalAmount(row) > 0
  PROVE  /\ Ids(ToSet(row)) \in SUBSET {k \in DOMAIN L : L[k].call \in Calls}
         /\ IsFiniteSet(Ids(ToSet(row))) /\ Cardinality(Ids(ToSet(row))) \in 1 .. MaxInput
         /\ SumFunctionOnSet([k \in DOMAIN L |-> L[k].amt], Ids(ToSet(row))) = TotalAmount(row)
<1> DEFINE T == Taken(row)
           h == [j \in T |-> row[j].id[1]]
           f == [j \in DOMAIN row |-> row[j].amt]
           g == [k \in DOMAIN L |-> L[k].amt]
           S == {h[j] : j \in T}
<1>1. /\ DOMAIN row = 1 .. Len(row) /\ Len(row) \in Nat
      /\ IsFiniteSet(DOMAIN row) /\ IsFiniteSet(T) /\ T \in SUBSET DOMAIN row
      /\ \A j \in DOMAIN row : row[j].amt \in Nat
      /\ \A j \in T : row[j] \in U
      /\ \A j, k \in T : row[j].id = row[k].id => j = k
  BY RowPlaces
<1>2. Ids(ToSet(row)) = S
  <2>1. ASSUME NEW j \in DOMAIN row PROVE j \in T <=> row[j].id # NoId
    <3>1. row[j] \in U \cup {Pad}
      BY <1>1 DEF Filled
    <3>2. \A u \in U : u.id # NoId /\ u.amt # 0
      BY DEF Stock
    <3>3. Pad.id = NoId /\ Pad.amt = 0
      BY DEF Pad
    <3> QED
      BY <3>1, <3>2, <3>3 DEF Taken
  <2>2. \A j \in T : h[j] = row[j].id[1] /\ j \in DOMAIN row
    BY <1>1
  <2> HIDE DEF h, T
  <2>3. ToSet(row) = {row[j] : j \in DOMAIN row}
    BY DEF ToSet
  <2>4. ASSUME NEW x \in Ids(ToSet(row)) PROVE x \in S
    <3>1. PICK u \in ToSet(row) : u.id # NoId /\ x = u.id[1]
      BY DEF Ids
    <3>2. PICK j \in DOMAIN row : u = row[j]
      BY <2>3, <3>1
    <3> QED
      BY <2>1, <2>2, <3>1, <3>2
  <2>5. ASSUME NEW j \in T PROVE h[j] \in Ids(ToSet(row))
    <3>1. row[j] \in ToSet(row) /\ row[j].id # NoId
      BY <2>1, <2>2, <2>3
    <3> QED
      BY <2>2, <3>1 DEF Ids
  <2> QED
    BY <2>4, <2>5
<1>3. \A j, k \in T : h[j] = h[k] => j = k
  <2>1. SUFFICES ASSUME NEW j \in T, NEW k \in T, h[j] = h[k] PROVE j = k
    OBVIOUS
  <2>2. row[j] = row[k]
    BY <1>1, <2>1
  <2> QED
    BY <1>1, <2>2
<1>4. \A j \in T : f[j] \in Int /\ g[h[j]] = f[j]
  BY <1>1
<1>5. \A j \in T : h[j] \in {k \in DOMAIN L : L[k].call \in Calls}
  BY <1>1
<1>6. TotalAmount(row) = SumFunctionOnSet(f, T)
  <2>1. \A j \in DOMAIN row : row[j].amt \in Int
    BY <1>1
  <2> HIDE DEF T, f
  <2> QED
    BY <1>1, <2>1, RowTaken DEF T, f
<1> HIDE DEF T, f, g, h
<1>7. SumFunctionOnSet(g, S) = SumFunctionOnSet(f, T)
  <2>1. IsFiniteSet(T)
    BY <1>1
  <2> QED
    BY <1>3, <1>4, <2>1, SumMap
<1>8. IsFiniteSet(S)
  BY <1>1, FiniteImage
<1>9. S # {}
  <2>1. CASE S = {}
    <3>1. SumFunctionOnSet(g, S) = 0
      BY <2>1, SumEmpty
    <3> HIDE DEF S
    <3> QED
      BY <1>6, <1>7, <3>1
  <2> QED
    BY <2>1
<1>10. Cardinality(S) <= Cardinality(T)
  <2> DEFINE e == [j \in T |-> h[j]]
  <2>1. e \in Surjection(T, S)
    BY DEF Surjection
  <2> HIDE DEF e, S
  <2> QED
    BY <1>1, <2>1, FS_Surjection
<1>11. Cardinality(T) <= Cardinality(DOMAIN row)
  BY <1>1, FS_Subset
<1>12. Cardinality(DOMAIN row) = Len(row)
  <2>1. 1 \in Int /\ Len(row) \in Int
    BY <1>1
  <2>2. Cardinality(1 .. Len(row)) = IF 1 > Len(row) THEN 0 ELSE Len(row) - 1 + 1
    BY <2>1, FS_Interval
  <2> QED
    BY <1>1, <2>2
<1>13. Cardinality(S) \in Nat /\ Cardinality(T) \in Nat /\ Cardinality(S) # 0
  BY <1>1, <1>8, <1>9, FS_CardinalityType, FS_EmptySet
<1>14. S \in SUBSET {k \in DOMAIN L : L[k].call \in Calls}
  BY <1>5
<1> HIDE DEF S
<1>15. Cardinality(S) \in 1 .. MaxInput
  BY <1>1, <1>10, <1>11, <1>12, <1>13, Limits
<1>16. SumFunctionOnSet(g, S) = TotalAmount(row)
  BY <1>6, <1>7
<1> QED
  BY <1>2, <1>8, <1>14, <1>15, <1>16 DEF g

LEMMA PaddedRow ==
  ASSUME NEW n \in Nat, 1 \in 1 .. n, NEW S, \A i \in 1 .. n : Stock(S[i]), NEW rows, DOMAIN rows = 1 .. n,
         \A i \in 1 .. n : rows[i] = SortAndPadUtxos(S[i]), NEW all, all = AddPaddingToUtxos(rows)
  PROVE  Filled(all[1], S[1]) /\ Len(all[1]) <= MaxInput
<1>1. /\ DOMAIN all = 1 .. n
      /\ \A i \in 1 .. n : Filled(all[i], S[i])
      /\ \/ \A i \in 1 .. n : Len(all[i]) = MinInput /\ Cardinality(S[i]) <= MinInput
         \/ \A i \in 1 .. n : Len(all[i]) = MaxInput
  BY FilledPadding
<1>2. 1 \in 1 .. n
  OBVIOUS
<1>3. Filled(all[1], S[1]) /\ (Len(all[1]) = MinInput \/ Len(all[1]) = MaxInput)
  BY <1>1, <1>2
<1> QED
  BY <1>3, Limits

LEMMA OneRow ==
  ASSUME NEW U, Stock(U)
  PROVE  /\ Filled(AddPaddingToUtxos(<<SortAndPadUtxos(U)>>)[1], U)
         /\ Len(AddPaddingToUtxos(<<SortAndPadUtxos(U)>>)[1]) <= MaxInput
<1> DEFINE S == <<U>>
           rows == <<SortAndPadUtxos(U)>>
           all == AddPaddingToUtxos(rows)
<1>1. 1 \in Nat /\ 1 \in 1 .. 1 /\ \A i \in 1 .. 1 : Stock(S[i])
  OBVIOUS
<1>2. DOMAIN rows = 1 .. 1 /\ \A i \in 1 .. 1 : rows[i] = SortAndPadUtxos(S[i])
  OBVIOUS
<1>3. S[1] = U
  OBVIOUS
<1> HIDE DEF S, rows
<1>4. Filled(all[1], S[1]) /\ Len(all[1]) <= MaxInput
  BY <1>1, <1>2, PaddedRow
<1> QED
  BY <1>3, <1>4 DEF rows

LEMMA StuckInputsOK ==
  ASSUME IInv, NEW w \in Loops, NEW change, change = -(lplan[w].total - lplan[w].fee) - lplan[w].fee,
         GetStuckInputAndOutputUtxos(w, change)
  PROVE  IInv'
<1> DEFINE p == lplan[w]
           U == StuckUtxos(p.part)
           rows == << SortAndPadUtxos(U) >>
           ins == AddPaddingToUtxos(rows)[1]
           left == TotalAmount(ins) + change
           q == [p EXCEPT !.ins = ins, !.left = left]
<1>1. lpc[w] = "pad" /\ UNCHANGED sendVars /\ UNCHANGED <<ltx, withdrawn>>
  BY DEF GetStuckInputAndOutputUtxos
<1>2. IF OverLimit(rows, <<change>>) \/ InsufficientFunds(ins, change) THEN Return(w)
      ELSE LGoto(w, "send", q)
  BY DEF GetStuckInputAndOutputUtxos
<1>3. /\ LoopOK("pad", p, ltx[w], leaves) /\ p \in LoopPlans /\ ltx[w] \in TxStates
      /\ ltx \in [Loops -> TxStates]
  BY <1>1, LoopFacts
<1>4. /\ ltx[w] # "pending" /\ ltx' = [ltx EXCEPT ![w] = ltx[w]] /\ "send" \in LoopLabels
      /\ p.total > 0 /\ p.total - p.fee > 0
  BY <1>1, <1>3 DEF LoopOK, LoopLabels
<1>5. p.total \in Nat /\ p.fee \in Nat
  BY <1>3 DEF LoopPlans
<1>6. change = -p.total /\ change \in Int
  BY <1>5
<1> HIDE DEF p
<1>7. /\ Stock(U)
      /\ \A u \in U : /\ u.id \in Id /\ u.id # NoId /\ u.id[1] \in DOMAIN leaves
                      /\ leaves[u.id[1]].call \in Calls /\ leaves[u.id[1]].amt = u.amt
      /\ \A u, v \in U : u.id[1] = v.id[1] => u = v
  BY StuckStock
<1> HIDE DEF U
<1>8. Filled(ins, U) /\ Len(ins) <= MaxInput
  BY <1>7, OneRow
<1> HIDE DEF ins
<1>9. TotalAmount(ins) \in Nat
  BY <1>7, <1>8, RowNat
<1>10. CASE Return(w)
  BY <1>1, <1>3, <1>4, <1>10, ReturnOK
<1>11. CASE ~InsufficientFunds(ins, change) /\ LGoto(w, "send", q)
  <2>1. left \in Nat /\ left = TotalAmount(ins) - p.total
    BY <1>4, <1>5, <1>6, <1>9, <1>11 DEF InsufficientFunds
  <2>2. TotalAmount(ins) > 0
    BY <1>4, <1>5, <1>9, <2>1
  <2>3. /\ Ids(ToSet(ins)) \in SUBSET {k \in DOMAIN leaves : leaves[k].call \in Calls}
        /\ IsFiniteSet(Ids(ToSet(ins))) /\ Cardinality(Ids(ToSet(ins))) \in 1 .. MaxInput
        /\ SumFunctionOnSet([k \in DOMAIN leaves |-> leaves[k].amt], Ids(ToSet(ins))) = TotalAmount(ins)
    BY <1>7, <1>8, <2>2, InputsTaken
  <2>4. ins \in Seq([id : Id, amt : Nat])
    <3>1. Pad \in [id : Id, amt : Nat]
      BY DEF Pad, NoId, Id
    <3>2. \A u \in U : u \in [id : Id, amt : Nat]
      BY <1>7 DEF Stock
    <3>3. ins \in Seq(U \cup {Pad})
      BY <1>8 DEF Filled
    <3> DEFINE B == [id : Id, amt : Nat]
    <3> HIDE DEF B
    <3>4. \A u \in U \cup {Pad} : u \in B
      BY <3>1, <3>2 DEF B
    <3>5. Len(ins) \in Nat /\ ins \in [1 .. Len(ins) -> U \cup {Pad}]
      BY <3>3
    <3>6. ins \in [1 .. Len(ins) -> B]
      BY <3>4, <3>5
    <3>7. ins \in Seq(B)
      BY <3>5, <3>6, SeqDef
    <3> QED
      BY <3>7 DEF B
  <2> HIDE DEF left
  <2>5. q \in LoopPlans /\ q.total = p.total /\ q.fee = p.fee /\ q.ins = ins /\ q.left = left
    BY <1>3, <2>1, <2>4 DEF LoopPlans
  <2> HIDE DEF q
  <2>6. p.total - p.fee \in Int /\ TotalAmount(ins) = (p.total - p.fee) + p.fee + left
    BY <1>5, <1>9, <2>1
  <2>7. Takes(leaves, Ids(ToSet(ins)), p.total - p.fee, p.fee, left)
    BY <1>4, <2>3, <2>6 DEF Takes
  <2>8. LoopOK("send", q, ltx[w], leaves)
    BY <1>4, <2>5, <2>7 DEF LoopOK
  <2> QED
    BY <1>1, <1>3, <1>4, <1>11, <2>5, <2>8, LoopQuiet
<1> HIDE DEF q, rows
<1> QED
  BY <1>2, <1>10, <1>11

LEMMA WithdrawStuckOK ==
  ASSUME IInv, NEW w \in Loops, WithdrawSingleStuckToken(w) \/ WithdrawSingleStuckTokenSolana(w)
  PROVE  IInv'
<1>1. CASE WithdrawSingleStuckToken(w)
  BY <1>1, StuckInputsOK DEF WithdrawSingleStuckToken, StuckChange
<1>2. CASE WithdrawSingleStuckTokenSolana(w)
  BY <1>2, StuckInputsOK DEF WithdrawSingleStuckTokenSolana, SolanaStuckChange
<1> QED
  BY <1>1, <1>2

LEMMA SendStuckOK ==
  ASSUME IInv, NEW w \in Loops, SendStuck(w)
  PROVE  IInv'
<1> DEFINE p == lplan[w]
<1>1. /\ lpc[w] = "send" /\ UNCHANGED sendVars /\ UNCHANGED withdrawn
      /\ ltx' = [ltx EXCEPT ![w] = "pending"]
      /\ LGoto(w, "sent", p) \/ LGoto(w, "idle", p)
  BY DEF SendStuck
<1>2. LoopOK("send", p, ltx[w], leaves) /\ p \in LoopPlans
  BY <1>1, LoopFacts
<1>3. "sent" \in LoopLabels /\ "idle" \in LoopLabels /\ "pending" \in TxStates
  BY DEF LoopLabels, TxStates
<1> HIDE DEF p
<1>4. LoopOK("sent", p, "pending", leaves) /\ LoopOK("idle", p, "pending", leaves)
  BY <1>2 DEF LoopOK
<1> QED
  BY <1>1, <1>2, <1>3, <1>4, LoopQuiet

LEMMA WaitForStuckOK ==
  ASSUME IInv, NEW w \in Loops, WaitForStuck(w)
  PROVE  IInv'
<1> DEFINE p == [NoLoop EXCEPT !.part = lplan[w].part]
<1>1. /\ UNCHANGED sendVars /\ UNCHANGED withdrawn /\ ltx' = [ltx EXCEPT ![w] = "none"]
      /\ LGoto(w, "reset", p) \/ Return(w)
  BY DEF WaitForStuck
<1>2. lplan[w].part \in Parts
  BY LoopFacts DEF LoopPlans
<1>3. p \in LoopPlans /\ "reset" \in LoopLabels /\ "none" \in TxStates
  BY <1>2, NoLoopType DEF LoopLabels, TxStates
<1> HIDE DEF p
<1>4. LoopOK("reset", p, "none", leaves)
  BY DEF LoopOK
<1> QED
  BY <1>1, <1>3, <1>4, LoopQuiet, ReturnOK

LEMMA LoopRequestFailsOK ==
  ASSUME IInv, NEW w \in Loops, LoopRequestFails(w)
  PROVE  IInv'
<1>1. /\ lpc[w] \in {"reset", "select", "fee", "pad", "send"} /\ Return(w)
      /\ UNCHANGED sendVars /\ UNCHANGED <<ltx, withdrawn>>
  BY DEF LoopRequestFails
<1>2. /\ LoopOK(lpc[w], lplan[w], ltx[w], leaves) /\ ltx[w] \in TxStates /\ ltx \in [Loops -> TxStates]
  BY LoopFacts
<1>3. ltx[w] # "pending" /\ ltx' = [ltx EXCEPT ![w] = ltx[w]]
  BY <1>1, <1>2 DEF LoopOK
<1> QED
  BY <1>1, <1>2, <1>3, ReturnOK

LEMMA RevertStuckOK ==
  ASSUME IInv, NEW w \in Loops, RevertStuck(w)
  PROVE  IInv'
<1>1. /\ ltx[w] = "pending" /\ ltx' = [ltx EXCEPT ![w] = "reverted"]
      /\ UNCHANGED sendVars /\ UNCHANGED <<lpc, lplan, withdrawn>>
  BY DEF RevertStuck
<1>2. /\ LoopOK(lpc[w], lplan[w], ltx[w], leaves) /\ lpc[w] \in LoopLabels /\ lplan[w] \in LoopPlans
      /\ lpc \in [Loops -> LoopLabels] /\ lplan \in [Loops -> LoopPlans]
  BY LoopFacts
<1>3. LGoto(w, lpc[w], lplan[w])
  BY <1>1, <1>2 DEF LGoto
<1>4. LoopOK(lpc[w], lplan[w], "reverted", leaves) /\ "reverted" \in TxStates
  BY <1>1, <1>2 DEF LoopOK, TxStates
<1> QED
  BY <1>1, <1>2, <1>3, <1>4, LoopQuiet

LEMMA SettleStuckOK ==
  ASSUME IInv, NEW w \in Loops, SettleStuck(w)
  PROVE  IInv'
<1> DEFINE p == lplan[w]
           ids == Ids(ToSet(p.ins))
           x == [ids |-> ids, pays |-> p.total - p.fee, fee |-> p.fee, left |-> p.left]
           leaf == [call |-> "user", part |-> p.part, slot |-> 0, amt |-> p.left]
<1>1. /\ ltx[w] = "pending"
      /\ UNCHANGED <<view, pc, plan, tx, status, scheduled, executed, dropped, known, lpc, lplan, faults>>
      /\ \/ /\ ids \cap spent = {} /\ spent' = spent \cup ids /\ withdrawn' = withdrawn \cup {x}
            /\ leaves' = (IF p.left = 0 THEN leaves ELSE Append(leaves, leaf))
            /\ ltx' = [ltx EXCEPT ![w] = "mined"]
         \/ ltx' = [ltx EXCEPT ![w] = "reverted"] /\ UNCHANGED <<leaves, spent, withdrawn>>
  BY DEF SettleStuck
<1>2. /\ LoopOK(lpc[w], p, "pending", leaves) /\ lpc[w] \in LoopLabels /\ p \in LoopPlans
      /\ lpc \in [Loops -> LoopLabels] /\ lplan \in [Loops -> LoopPlans] /\ ltx \in [Loops -> TxStates]
      /\ leaves \in Seq(LeafType) /\ view \in Nat /\ Len(leaves) \in Nat /\ view <= Len(leaves)
  BY <1>1, LoopFacts
<1>3. "reverted" \in TxStates /\ "mined" \in TxStates
  BY DEF TxStates
<1>4. CASE ltx' = [ltx EXCEPT ![w] = "reverted"] /\ UNCHANGED <<leaves, spent, withdrawn>>
  <2>1. LGoto(w, lpc[w], p)
    BY <1>1, <1>2 DEF LGoto
  <2>2. UNCHANGED sendVars /\ UNCHANGED withdrawn
    BY <1>1, <1>4 DEF sendVars
  <2> HIDE DEF p
  <2>3. LoopOK(lpc[w], p, "reverted", leaves)
    BY <1>2 DEF LoopOK
  <2> QED
    BY <1>2, <1>3, <1>4, <2>1, <2>2, <2>3, LoopQuiet
<1>5. CASE /\ ids \cap spent = {} /\ spent' = spent \cup ids /\ withdrawn' = withdrawn \cup {x}
           /\ leaves' = (IF p.left = 0 THEN leaves ELSE Append(leaves, leaf))
           /\ ltx' = [ltx EXCEPT ![w] = "mined"]
  <2>1. leaf \in LeafType /\ leaf.call = "user" /\ "user" \notin Calls
    BY <1>2, RequestAssumption DEF LeafType, LoopPlans
  <2>2. /\ x.ids = ids /\ x.pays = p.total - p.fee /\ x.fee = p.fee /\ x.left = p.left
    OBVIOUS
  <2>3. Takes(leaves, ids, p.total - p.fee, p.fee, p.left)
    BY <1>2 DEF LoopOK
  <2>4. Takes(leaves, x.ids, x.pays, x.fee, x.left)
    BY <2>2, <2>3
  <2> HIDE DEF leaf, x, ids
  <2>5. leaves' \in Seq(LeafType) /\ Longer(leaves, leaves') /\ \A c \in Calls : SameCoins(leaves, leaves', c)
    <3>1. CASE p.left = 0
      <4>1. leaves' = leaves
        BY <1>5, <3>1
      <4> QED
        BY <1>2, <4>1, LongerSame
    <3>2. CASE p.left # 0
      <4>1. leaves' = Append(leaves, leaf)
        BY <1>5, <3>2
      <4> QED
        BY <1>2, <2>1, <4>1, LongerAppend
    <3> QED
      BY <3>1, <3>2
  <2>6. view <= Len(leaves')
    <3>1. Len(leaves') \in Nat /\ Len(leaves) <= Len(leaves')
      BY <2>5 DEF Longer
    <3> QED
      BY <1>2, <3>1
  <2>7. Shape'
    <3>1. Shape
      BY DEF IInv
    <3>2. ltx' \in [Loops -> TxStates]
      BY <1>2, <1>3, <1>5
    <3> QED
      BY <1>1, <2>5, <2>6, <3>1, <3>2 DEF Shape
  <2>8. Items' = Items /\ Paid' = Paid
    BY <1>1 DEF Items, Paid
  <2>9. CallsOK'
    <3>1. ASSUME NEW d \in Calls
          PROVE  CallOK(d, pc[d], plan[d], tx[d], status[d], leaves', view, Items)
      <4>1. CallOK(d, pc[d], plan[d], tx[d], status[d], leaves, view, Items)
        BY DEF IInv, CallsOK
      <4>2. \A it : it.call = d => (it \in Items <=> it \in Items)
        OBVIOUS
      <4>3. view <= view
        BY <1>2
      <4> QED
        BY <1>2, <2>5, <4>1, <4>2, <4>3, CallKeeps
    <3> QED
      BY <1>1, <2>8, <3>1 DEF CallsOK
  <2>10. RelayerOK'
    <3>1. RelayerOK
      BY DEF IInv
    <3> QED
      BY <1>1, <3>1 DEF RelayerOK, Items
  <2>11. LoopsOK'
    <3>1. ASSUME NEW z \in Loops PROVE LoopOK(lpc[z], lplan[z], ltx'[z], leaves')
      <4>1. LoopOK(lpc[z], lplan[z], ltx[z], leaves)
        BY LoopFacts
      <4>2. LoopOK(lpc[z], lplan[z], ltx[z], leaves')
        BY <2>5, <4>1, LoopGrow
      <4>3. CASE z = w
        <5>1. ltx'[z] = "mined"
          BY <1>2, <1>5, <4>3
        <5> QED
          BY <4>2, <5>1 DEF LoopOK
      <4>4. CASE z # w
        <5>1. ltx'[z] = ltx[z]
          BY <1>2, <1>5, <4>4
        <5> QED
          BY <4>2, <5>1
      <4> QED
        BY <4>3, <4>4
    <3> QED
      BY <1>1, <3>1 DEF LoopsOK
  <2>12. Recovered' = Recovered \cup ids
    BY <1>5, <2>2 DEF Recovered
  <2>13. /\ spent = Paid \cup Recovered /\ Paid \cap Recovered = {}
         /\ \A y \in withdrawn : Takes(leaves, y.ids, y.pays, y.fee, y.left)
         /\ \A y, z \in withdrawn : y # z => y.ids \cap z.ids = {}
         /\ \A e \in dropped : e.utxos \cap Recovered # {}
    BY DEF IInv, Ledger, RefusedOnlyIfRecovered
  <2>14. Ledger'
    <3>1. spent' = Paid \cup Recovered' /\ Paid \cap Recovered' = {}
      BY <1>5, <2>12, <2>13
    <3>2. \A y \in withdrawn' : Takes(leaves', y.ids, y.pays, y.fee, y.left)
      <4>1. \A y \in withdrawn' : Takes(leaves, y.ids, y.pays, y.fee, y.left)
        BY <1>5, <2>4, <2>13
      <4> QED
        BY <2>5, <4>1, TakesGrow
    <3>3. \A y \in withdrawn : y.ids \cap ids = {}
      <4>1. \A y \in withdrawn : y.ids \in SUBSET Recovered
        BY DEF Recovered
      <4> QED
        BY <1>5, <2>13, <4>1
    <3>4. \A y, z \in withdrawn' : y # z => y.ids \cap z.ids = {}
      BY <1>5, <2>2, <2>13, <3>3
    <3> QED
      BY <2>8, <3>1, <3>2, <3>4 DEF Ledger
  <2>15. RefusedOnlyIfRecovered'
    BY <1>1, <2>12, <2>13 DEF RefusedOnlyIfRecovered
  <2> QED
    BY <2>7, <2>9, <2>10, <2>11, <2>14, <2>15 DEF IInv
<1> QED
  BY <1>1, <1>4, <1>5

-----------------------------------------------------------------------------
(***************************************************************************)
(* The invariant.                                                          *)
(***************************************************************************)
LEMMA IInvInit == StuckInit => IInv
<1> SUFFICES ASSUME StuckInit PROVE IInv
  OBVIOUS
<1>1. /\ leaves = <<>> /\ spent = {} /\ view = 0
      /\ pc = [c \in Calls |-> "idle"] /\ plan = [c \in Calls |-> NoPlan]
      /\ tx = [c \in Calls |-> [x \in Parts |-> "none"]]
      /\ status = [c \in Calls |-> [x \in Parts |-> "none"]]
      /\ scheduled = {} /\ executed = {} /\ dropped = {}
      /\ withdrawn = {} /\ lpc = [w \in Loops |-> "idle"]
      /\ lplan = [w \in Loops |-> NoLoop] /\ ltx = [w \in Loops |-> "none"]
  BY DEF StuckInit, Init
<1>2. Items = {} /\ Paid = {} /\ Recovered = {}
  BY <1>1 DEF Items, Paid, Recovered
<1>3. Shape
  <2>1. NoPlan \in Plans /\ NoLoop \in LoopPlans
    BY NoPlanType, NoLoopType DEF Parts
  <2>2. <<>> \in Seq(LeafType) /\ Len(<<>>) = 0
    OBVIOUS
  <2>3. [x \in Parts |-> "none"] \in [Parts -> TxStates] /\ [x \in Parts |-> "none"] \in [Parts -> Phases]
    BY DEF TxStates, Phases
  <2>4. "idle" \in Labels /\ "none" \in TxStates
    BY DEF Labels, TxStates
  <2> QED
    BY <1>1, <2>1, <2>2, <2>3, <2>4 DEF Shape
<1>4. CallsOK
  <2> DEFINE t == [x \in Parts |-> "none"]
  <2>1. SUFFICES ASSUME NEW c \in Calls PROVE CallOK(c, "idle", NoPlan, t, t, <<>>, 0, {})
    BY <1>1, <1>2 DEF CallsOK
  <2>2. t["main"] = "none" /\ t["native"] = "none"
    BY DEF Parts
  <2>3. /\ NoPlan.req.amts = <<>> /\ NoPlan.req.kind = "none" /\ NoPlan.fee.rate = 0
        /\ NoPlan.part = "main" /\ NoPlan.items = <<>>
    BY DEF NoPlan, NoRequest, ZeroFee
  <2> HIDE DEF t
  <2>4. Terms(NoPlan)
    BY <2>3 DEF Terms, Asked
  <2>5. \A x : CoinsOf(<<>>, c, x) = {}
    BY DEF CoinsOf
  <2>6. CoinsOK(<<>>, c, NoPlan, t, "main") /\ CoinsOK(<<>>, c, NoPlan, t, "native")
    BY <2>2, <2>5 DEF CoinsOK
  <2>7. Progress(<<>>, c, "idle", NoPlan, t)
    BY <2>2, <2>3 DEF Progress, Depositing, Matched, Parts
  <2>8. Built(c, "idle", NoPlan)
    BY <2>3 DEF Built
  <2>9. Relayed(<<>>, c, "idle", NoPlan, t, {})
    BY DEF Relayed, Handed
  <2>10. Told(<<>>, c, "idle", t, t, 0)
    BY <2>2 DEF Told
  <2>11. "idle" \notin InTree
    BY DEF InTree, Matched
  <2> QED
    BY <2>3, <2>4, <2>6, <2>7, <2>8, <2>9, <2>10, <2>11 DEF CallOK
<1>5. RelayerOK
  BY <1>1, <1>2 DEF RelayerOK, Apart
<1>6. LoopsOK
  BY <1>1 DEF LoopsOK, LoopOK
<1>7. Ledger
  BY <1>1, <1>2 DEF Ledger
<1>8. RefusedOnlyIfRecovered
  BY <1>1 DEF RefusedOnlyIfRecovered
<1> QED
  BY <1>3, <1>4, <1>5, <1>6, <1>7, <1>8 DEF IInv

LEMMA CallStepOK ==
  ASSUME IInv, NEW c \in Calls, CallStep(c), UNCHANGED stuckVars
  PROVE  IInv'
<1>1. CASE \E hasAddress, inTime \in BOOLEAN : NearQuotes(c, hasAddress, inTime)
  BY <1>1, NearQuotesOK
<1>2. CASE ResolveFee(c)
  BY <1>2, ResolveFeeOK
<1>3. CASE PrepareDeposit(c)
  BY <1>3, PrepareDepositOK
<1>4. CASE HinkalDepositOnChainUtxos(c) \/ HinkalSolanaMultiPaymentDeposit(c)
  BY <1>4, BroadcastOK DEF HinkalDepositOnChainUtxos, HinkalSolanaMultiPaymentDeposit
<1>5. CASE WaitForTransaction(c)
  BY <1>5, WaitForTransactionOK
<1>6. CASE FetchTransactionReceiptWithRetry(c) \/ FetchTransactionWithRetry(c)
  BY <1>6, FetchedOK DEF FetchTransactionReceiptWithRetry, FetchTransactionWithRetry
<1>7. CASE MatchDeposits(c)
  BY <1>7, MatchDepositsOK
<1>8. CASE \E v \in view .. Len(leaves) : WaitForDepositedUtxosInMerkleTree(c, v)
  BY <1>8, WaitForDepositedOK
<1>9. CASE ProveItem(c)
  BY <1>9, ProveItemOK
<1>10. CASE Schedule(c)
  BY <1>10, ScheduleOK
<1>11. CASE Scheduled(c)
  BY <1>11, ScheduledOK
<1> QED
  BY <1>1, <1>2, <1>3, <1>4, <1>5, <1>6, <1>7, <1>8, <1>9, <1>10, <1>11 DEF CallStep

LEMMA SendNextOK ==
  ASSUME IInv, SendNext, UNCHANGED stuckVars
  PROVE  IInv'
<1>1. CASE OthersInsert
  BY <1>1, OthersInsertOK
<1>2. CASE \E it \in scheduled : Execute(it)
  BY <1>2, ExecuteOK
<1>3. ASSUME NEW c \in Calls, \E r \in Requests : OneChain(r) /\ Begin(c, r) PROVE IInv'
  BY <1>3, BeginOK
<1>4. ASSUME NEW c \in Calls, CallStep(c) PROVE IInv'
  BY <1>4, CallStepOK
<1>5. ASSUME NEW c \in Calls, RequestFails(c) PROVE IInv'
  BY <1>5, RequestFailsOK
<1>6. ASSUME NEW c \in Calls, ContractStep(c) PROVE IInv'
  <2>1. PICK part \in Parts :
          \/ RevertDeposit(c, part)
          \/ \E zeros \in BOOLEAN : \E slots \in Created(PartOf(c, part), zeros) : MineDeposit(c, part, slots)
    BY <1>6 DEF ContractStep
  <2>2. CASE RevertDeposit(c, part)
    BY <2>2, RevertDepositOK
  <2>3. CASE \E zeros \in BOOLEAN : \E slots \in Created(PartOf(c, part), zeros) : MineDeposit(c, part, slots)
    BY <2>3, MineDepositOK
  <2> QED
    BY <2>1, <2>2, <2>3
<1> QED
  BY <1>1, <1>2, <1>3, <1>4, <1>5, <1>6 DEF SendNext

LEMMA LoopStepOK ==
  ASSUME IInv, NEW w \in Loops, LoopStep(w)
  PROVE  IInv'
<1>1. CASE \E v \in view .. Len(leaves), fresh \in BOOLEAN : Reset(w, v, fresh)
  BY <1>1, ResetOK
<1>2. CASE SelectStuck(w)
  BY <1>2, SelectStuckOK
<1>3. CASE \E fee \in StuckFees : StuckFee(w, fee)
  BY <1>3, StuckFeeOK
<1>4. CASE WithdrawSingleStuckToken(w) \/ WithdrawSingleStuckTokenSolana(w)
  BY <1>4, WithdrawStuckOK
<1>5. CASE SendStuck(w)
  BY <1>5, SendStuckOK
<1>6. CASE WaitForStuck(w)
  BY <1>6, WaitForStuckOK
<1> QED
  BY <1>1, <1>2, <1>3, <1>4, <1>5, <1>6 DEF LoopStep

LEMMA IInvNext == IInv /\ [Next]_vars => IInv'
<1> SUFFICES ASSUME IInv, [Next]_vars PROVE IInv'
  OBVIOUS
<1>1. CASE SendNext /\ UNCHANGED stuckVars
  BY <1>1, SendNextOK
<1>2. ASSUME NEW w \in Loops, \E part \in Parts : Start(w, part) PROVE IInv'
  BY <1>2, StartOK
<1>3. ASSUME NEW w \in Loops, LoopStep(w) PROVE IInv'
  BY <1>3, LoopStepOK
<1>4. ASSUME NEW w \in Loops, LoopRequestFails(w) PROVE IInv'
  BY <1>4, LoopRequestFailsOK
<1>5. ASSUME NEW w \in Loops, SettleStuck(w) PROVE IInv'
  BY <1>5, SettleStuckOK
<1>6. ASSUME NEW w \in Loops, RevertStuck(w) PROVE IInv'
  BY <1>6, RevertStuckOK
<1>7. CASE UNCHANGED vars
  <2>1. UNCHANGED stuckVars /\ UNCHANGED <<leaves, spent, view, pc, plan, tx, status, scheduled, executed, dropped>>
    BY <1>7 DEF vars, sendVars
  <2>2. UNCHANGED <<lpc, lplan, ltx>>
    BY <2>1 DEF stuckVars
  <2>3. Shape'
    <3>1. Shape
      BY DEF IInv
    <3> QED
      BY <2>1, <2>2, <3>1 DEF Shape
  <2>4. CallsOK'
    <3>1. CallsOK /\ Items' = Items
      BY <2>1 DEF IInv, Items
    <3> QED
      BY <2>1, <3>1 DEF CallsOK
  <2>5. RelayerOK' /\ LoopsOK' /\ Ledger' /\ RefusedOnlyIfRecovered'
    BY <2>1, RestSame
  <2> QED
    BY <2>3, <2>4, <2>5 DEF IInv
<1> QED
  BY <1>1, <1>2, <1>3, <1>4, <1>5, <1>6, <1>7 DEF Next

\* The invariant holds throughout.
THEOREM Invariance == Spec => []IInv
<1>1. IInv /\ [Next]_vars => IInv'
  BY IInvNext
<1> QED
  BY IInvInit, <1>1, PTL DEF Spec

-----------------------------------------------------------------------------
(***************************************************************************)
(* The properties.                                                         *)
(***************************************************************************)
\* Every coin is accounted for once: unspent, paid to a recipient, or taken
\* out by a loop with its fee and what it left (SettleStuck, Execute).
THEOREM CoinsAlwaysAccounted == Spec => []CoinsAccounted
<1>1. IInv => CoinsAccounted
  <2> SUFFICES ASSUME IInv PROVE CoinsAccounted
    OBVIOUS
  <2>1. Ledger
    BY DEF IInv
  <2>2. \A x \in withdrawn : Takes(leaves, x.ids, x.pays, x.fee, x.left)
    BY <2>1 DEF Ledger
  <2>3. \A x \in withdrawn :
          /\ SumFunctionOnSet(Amounts, x.ids) = x.pays + x.fee + x.left
          /\ x.pays > 0 /\ Cardinality(x.ids) \in 1 .. MaxInput
    BY <2>2 DEF Takes, Amounts
  <2> QED
    BY <2>1, <2>3 DEF Ledger, CoinsAccounted
<1> QED
  BY <1>1, Invariance, PTL

\* The contract refuses a withdrawal of the relayer only when a loop took its
\* UTXO for stuck (GetInputUtxoAndBalanceOfStuckUtxos).
THEOREM RefusedOnlyIfRecoveredAlways == Spec => []RefusedOnlyIfRecovered
<1>1. IInv => RefusedOnlyIfRecovered
  BY DEF IInv
<1> QED
  BY <1>1, Invariance, PTL

\* The coin of payment j of a mined deposit.
LEMMA CoinFacts ==
  ASSUME IInv, NEW c \in Calls, tx[c]["main"] = "mined", NEW j \in DOMAIN plan[c].req.amts
  PROVE  /\ Coin(c, j) \in CoinsOf(leaves, c, "main") /\ leaves[Coin(c, j)].slot = j
         /\ \A k \in CoinsOf(leaves, c, "main") : leaves[k].slot = j => k = Coin(c, j)
<1> DEFINE p == plan[c]
           C == CoinsOf(leaves, c, "main")
           Fits(k) == k \in C /\ leaves[k].slot = j
<1>1. p \in Plans /\ CallOK(c, pc[c], p, tx[c], status[c], leaves, view, Items)
  BY CallFacts DEF CallAt
<1>2. Terms(p) /\ CoinsOK(leaves, c, p, tx[c], "main")
  BY <1>1 DEF CallOK
<1>3. j \in DOMAIN WantedOf(p, "main") /\ WantedOf(p, "main")[j] > 0
  BY <1>1, <1>2, WantedFacts
<1>4. \E k : Fits(k)
  BY <1>2, <1>3 DEF CoinsOK
<1>5. \A k : Fits(k) <=> k \in Own /\ leaves[k].call = c /\ leaves[k].part = "main" /\ leaves[k].slot = j
  BY DEF CoinsOf, Own
<1>6. Fits(Coin(c, j))
  BY <1>4, <1>5 DEF Coin
<1>7. \A k, m \in C : leaves[k].slot = leaves[m].slot => k = m
  BY <1>2 DEF CoinsOK
<1> QED
  BY <1>6, <1>7

\* The status server and the caller are told what is so: the deposit is mined,
\* the coins are in the tree, the relayer has the whole batch (CallDepositAndWithdrawUpdate).
THEOREM StatusNeverAheadAlways == Spec => []StatusNeverAhead
<1>1. IInv => StatusNeverAhead
  <2> SUFFICES ASSUME IInv, NEW c \in Calls
               PROVE  /\ status[c]["main"] = "afterDeposit" => tx[c]["main"] = "mined"
                      /\ status[c]["main"] \in {"beforeSchedule", "afterSchedule"} =>
                           \A j \in DOMAIN plan[c].req.amts : Coin(c, j) <= view
                      /\ status[c]["main"] = "afterSchedule" \/ pc[c] = "done" => HasBatch(c)
    BY DEF StatusNeverAhead
  <2> DEFINE p == plan[c]
  <2>1. /\ p \in Plans /\ CallOK(c, pc[c], p, tx[c], status[c], leaves, view, Items)
        /\ leaves \in Seq(LeafType)
    BY CallFacts DEF CallAt
  <2>2. /\ Told(leaves, c, pc[c], tx[c], status[c], view) /\ Terms(p)
        /\ Relayed(leaves, c, pc[c], p, tx[c], Items)
    BY <2>1 DEF CallOK
  <2>3. status[c]["main"] = "afterDeposit" => tx[c]["main"] = "mined"
    BY <2>2 DEF Told
  <2>4. ASSUME status[c]["main"] \in {"beforeSchedule", "afterSchedule"}, NEW j \in DOMAIN p.req.amts
        PROVE  Coin(c, j) <= view
    <3>1. tx[c]["main"] = "mined" /\ \A k \in CoinsOf(leaves, c, "main") : k <= view
      BY <2>2, <2>4 DEF Told
    <3>2. Coin(c, j) \in CoinsOf(leaves, c, "main")
      BY <3>1, CoinFacts
    <3> QED
      BY <3>1, <3>2
  <2>5. status[c]["main"] = "afterSchedule" => pc[c] = "done"
    BY <2>2 DEF Told
  <2>6. ASSUME pc[c] = "done" PROVE HasBatch(c)
    <3> SUFFICES ASSUME NEW i \in DOMAIN p.req.amts
                 PROVE  \E it \in Items :
                          /\ it.call = c /\ it.to = i
                          /\ NeedsNativeDeposit(p.req) =>
                               SumFunctionOnSet(Amounts, {k \in it.utxos : leaves[k].part = "native"})
                                 = p.req.natives[i]
      BY DEF HasBatch
    <3>1. PICK it \in Items : it.call = c /\ it.to = i
      BY <2>2, <2>6 DEF Relayed, Handed
    <3> DEFINE N == {k \in it.utxos : leaves[k].part = "native"}
    <3>2. SUFFICES ASSUME NeedsNativeDeposit(p.req) PROVE SumFunctionOnSet(Amounts, N) = p.req.natives[i]
      BY <3>1
    <3>3. ItemGood(leaves, c, p, it)
      BY <2>2, <3>1 DEF Relayed
    <3>4. PICK m \in CoinsOf(leaves, c, "main") :
            \/ ~NeedsNative(p, i) /\ it.utxos = {m}
            \/ /\ NeedsNative(p, i)
               /\ \E n \in CoinsOf(leaves, c, "native") :
                    leaves[n].amt = p.req.natives[i] /\ it.utxos = {m, n}
      BY <3>1, <3>3 DEF ItemGood
    <3>5. leaves[m].part = "main"
      BY DEF CoinsOf
    <3>6. i \in DOMAIN p.req.natives /\ p.req.natives[i] \in Nat
      <4>1. Len(p.req.natives) = Len(p.req.amts)
        BY <2>1, <3>2, RequestFacts DEF NeedsNativeDeposit
      <4> QED
        BY <2>1, <2>2, <4>1, WantedFacts
    <3>7. CASE ~NeedsNative(p, i) /\ it.utxos = {m}
      <4>1. N = {}
        BY <3>5, <3>7
      <4>2. SumFunctionOnSet(Amounts, N) = 0
        BY <4>1, SumEmpty
      <4>3. ~(p.req.natives[i] > 0)
        BY <3>2, <3>7 DEF NeedsNative, NeedsNativeDeposit
      <4>4. p.req.natives[i] = 0
        BY <3>6, <4>3
      <4> QED
        BY <4>2, <4>4
    <3>8. CASE NeedsNative(p, i) /\ \E n \in CoinsOf(leaves, c, "native") :
                 leaves[n].amt = p.req.natives[i] /\ it.utxos = {m, n}
      <4>1. PICK n \in CoinsOf(leaves, c, "native") :
              leaves[n].amt = p.req.natives[i] /\ it.utxos = {m, n}
        BY <3>8
      <4>2. leaves[n].part = "native" /\ n \in DOMAIN leaves
        BY DEF CoinsOf
      <4>3. N = {n}
        BY <3>5, <4>1, <4>2
      <4>4. Amounts[n] = p.req.natives[i] /\ Amounts[n] \in Int
        BY <3>6, <4>1, <4>2 DEF Amounts
      <4>5. SumFunctionOnSet(Amounts, {n}) = Amounts[n]
        BY <4>4, SumSingle
      <4> QED
        BY <4>3, <4>4, <4>5
    <3> QED
      BY <3>4, <3>7, <3>8
  <2> QED
    BY <2>3, <2>4, <2>5, <2>6
<1> QED
  BY <1>1, Invariance, PTL

-----------------------------------------------------------------------------
(***************************************************************************)
(* The flows and the loops implement Payments.                             *)
(***************************************************************************)
\* The parts of the refinement mapping, with the state as parameters: L the
\* leaves, S the nullifiers, X the withdrawals that were made.
CoinAt(L, c, j) == CHOOSE k \in {m \in DOMAIN L : L[m].call \in Calls} :
                     L[k].call = c /\ L[k].part = "main" /\ L[k].slot = j

PaidBy(X) == UNION {it.utxos : it \in X}

StageAt(L, t, S, X, c, j) ==
  IF t["main"] # "mined" THEN "wallet"
  ELSE IF CoinAt(L, c, j) \in PaidBy(X) THEN "paid"
  ELSE IF CoinAt(L, c, j) \in S THEN "recovered" ELSE "pool"

Earned(X, c, i) == SumFunctionOnSet([it \in X |-> it.pays], {it \in X : it.call = c /\ it.to = i})

ReportAt(lab) == IF lab \in {"done", "failed"} THEN lab ELSE "none"

LEMMA MappingIs ==
  /\ Asks = [c \in Calls |-> plan[c].req.amts]
  /\ Stages = [c \in Calls |-> [j \in DOMAIN plan[c].req.amts |->
                 StageAt(leaves, tx[c], spent, executed, c, j)]]
  /\ Gains = [c \in Calls |-> [i \in DOMAIN plan[c].req.amts |-> Earned(executed, c, i)]]
  /\ Reports = [c \in Calls |-> ReportAt(pc[c])]
<1>1. Asks = [c \in Calls |-> plan[c].req.amts]
  BY DEF Asks
<1>2. Stages = [c \in Calls |-> [j \in DOMAIN plan[c].req.amts |->
                  StageAt(leaves, tx[c], spent, executed, c, j)]]
  BY DEF Stages, StageOf, StageAt, Coin, CoinAt, Own, Paid, PaidBy
<1>3. Gains = [c \in Calls |-> [i \in DOMAIN plan[c].req.amts |-> Earned(executed, c, i)]]
  BY DEF Gains, Received, Earned
<1>4. Reports = [c \in Calls |-> ReportAt(pc[c])]
  BY DEF Reports, ReportAt
<1> QED
  BY <1>1, <1>2, <1>3, <1>4

LEMMA MappingIsNext ==
  /\ Asks' = [c \in Calls |-> plan'[c].req.amts]
  /\ Stages' = [c \in Calls |-> [j \in DOMAIN plan'[c].req.amts |->
                  StageAt(leaves', tx'[c], spent', executed', c, j)]]
  /\ Gains' = [c \in Calls |-> [i \in DOMAIN plan'[c].req.amts |-> Earned(executed', c, i)]]
  /\ Reports' = [c \in Calls |-> ReportAt(pc'[c])]
<1>1. Asks' = [c \in Calls |-> plan'[c].req.amts]
  BY DEF Asks
<1>2. Stages' = [c \in Calls |-> [j \in DOMAIN plan'[c].req.amts |->
                   StageAt(leaves', tx'[c], spent', executed', c, j)]]
  BY DEF Stages, StageOf, StageAt, Coin, CoinAt, Own, Paid, PaidBy
<1>3. Gains' = [c \in Calls |-> [i \in DOMAIN plan'[c].req.amts |-> Earned(executed', c, i)]]
  BY DEF Gains, Received, Earned
<1>4. Reports' = [c \in Calls |-> ReportAt(pc'[c])]
  BY DEF Reports, ReportAt
<1> QED
  BY <1>1, <1>2, <1>3, <1>4

\* The coin of a payment once the deposit is mined.
IsCoin(L, c, j, k) == k \in CoinsOf(L, c, "main") /\ L[k].slot = j

LEMMA CoinAtFacts ==
  ASSUME NEW L, NEW c \in Calls, NEW p \in Plans, NEW t, Terms(p), CoinsOK(L, c, p, t, "main"),
         t["main"] = "mined", NEW j \in DOMAIN p.req.amts
  PROVE  IsCoin(L, c, j, CoinAt(L, c, j)) /\ \A k : IsCoin(L, c, j, k) => k = CoinAt(L, c, j)
<1> DEFINE C == CoinsOf(L, c, "main")
           Fits(k) == k \in C /\ L[k].slot = j
<1>1. j \in DOMAIN WantedOf(p, "main") /\ WantedOf(p, "main")[j] > 0
  BY WantedFacts
<1>2. \E k : Fits(k)
  BY <1>1 DEF CoinsOK
<1>3. \A k : Fits(k) <=> /\ k \in {m \in DOMAIN L : L[m].call \in Calls}
                         /\ L[k].call = c /\ L[k].part = "main" /\ L[k].slot = j
  BY DEF CoinsOf
<1>4. Fits(CoinAt(L, c, j))
  BY <1>2, <1>3 DEF CoinAt
<1>5. \A k, m \in C : L[k].slot = L[m].slot => k = m
  BY DEF CoinsOK
<1> QED
  BY <1>4, <1>5 DEF IsCoin

\* A coin keeps its place, and with it its stage, when the tree grows and
\* neither the nullifiers nor the withdrawals that were made touch it.
LEMMA StageKept ==
  ASSUME NEW c \in Calls, NEW p \in Plans, Terms(p), NEW j \in DOMAIN p.req.amts,
         NEW L, NEW t, CoinsOK(L, c, p, t, "main"), NEW S, NEW X,
         NEW q \in Plans, Terms(q), q.req = p.req,
         NEW L2, NEW t2, CoinsOK(L2, c, q, t2, "main"), NEW S2, NEW X2,
         Longer(L, L2), t["main"] = "mined" <=> t2["main"] = "mined",
         \A k \in CoinsOf(L, c, "main") : /\ k \in PaidBy(X2) <=> k \in PaidBy(X)
                                          /\ k \in S2 <=> k \in S
  PROVE  StageAt(L2, t2, S2, X2, c, j) = StageAt(L, t, S, X, c, j)
<1>1. CASE t["main"] # "mined"
  BY <1>1 DEF StageAt
<1>2. CASE t["main"] = "mined"
  <2>0. IsCoin(L, c, j, CoinAt(L, c, j)) /\ \A k : IsCoin(L2, c, j, k) => k = CoinAt(L2, c, j)
    BY <1>2, CoinAtFacts
  <2>1. CoinAt(L, c, j) \in CoinsOf(L, c, "main") /\ L[CoinAt(L, c, j)].slot = j
    BY <2>0 DEF IsCoin
  <2>2. \A k \in CoinsOf(L2, c, "main") : L2[k].slot = j => k = CoinAt(L2, c, j)
    BY <2>0 DEF IsCoin
  <2>3. CoinAt(L, c, j) \in CoinsOf(L2, c, "main")
    BY <2>1, LongerFacts
  <2>4. L2[CoinAt(L, c, j)] = L[CoinAt(L, c, j)]
    BY <2>1 DEF Longer, CoinsOf
  <2>5. CoinAt(L2, c, j) = CoinAt(L, c, j)
    BY <2>1, <2>2, <2>3, <2>4
  <2> QED
    BY <1>2, <2>1, <2>5 DEF StageAt
<1> QED
  BY <1>1, <1>2

\* The mapping at one call, before and after a step.
LEMMA AsksAt ==
  ASSUME NEW c \in Calls
  PROVE  Asks[c] = plan[c].req.amts /\ Asks'[c] = plan'[c].req.amts
BY DEF Asks

LEMMA ReportsAt ==
  ASSUME NEW c \in Calls
  PROVE  Reports[c] = ReportAt(pc[c]) /\ Reports'[c] = ReportAt(pc'[c])
BY DEF Reports, ReportAt

IsRow(f, D) == f = [i \in D |-> f[i]]

LEMMA StagesAt ==
  ASSUME NEW c \in Calls
  PROVE  /\ IsRow(Stages[c], DOMAIN plan[c].req.amts) /\ IsRow(Stages'[c], DOMAIN plan'[c].req.amts)
         /\ \A j \in DOMAIN plan[c].req.amts : Stages[c][j] = StageAt(leaves, tx[c], spent, executed, c, j)
         /\ \A j \in DOMAIN plan'[c].req.amts :
              Stages'[c][j] = StageAt(leaves', tx'[c], spent', executed', c, j)
<1>1. Stages[c] = [j \in DOMAIN plan[c].req.amts |-> StageAt(leaves, tx[c], spent, executed, c, j)]
  BY MappingIs
<1>2. Stages'[c] = [j \in DOMAIN plan'[c].req.amts |->
                      StageAt(leaves', tx'[c], spent', executed', c, j)]
  BY MappingIsNext
<1>3. /\ IsRow(Stages[c], DOMAIN plan[c].req.amts)
      /\ \A j \in DOMAIN plan[c].req.amts : Stages[c][j] = StageAt(leaves, tx[c], spent, executed, c, j)
  BY <1>1 DEF IsRow
<1>4. /\ IsRow(Stages'[c], DOMAIN plan'[c].req.amts)
      /\ \A j \in DOMAIN plan'[c].req.amts :
           Stages'[c][j] = StageAt(leaves', tx'[c], spent', executed', c, j)
  BY <1>2 DEF IsRow
<1> QED
  BY <1>3, <1>4

LEMMA GainsAt ==
  ASSUME NEW c \in Calls
  PROVE  /\ IsRow(Gains[c], DOMAIN plan[c].req.amts) /\ IsRow(Gains'[c], DOMAIN plan'[c].req.amts)
         /\ \A i \in DOMAIN plan[c].req.amts : Gains[c][i] = Earned(executed, c, i)
         /\ \A i \in DOMAIN plan'[c].req.amts : Gains'[c][i] = Earned(executed', c, i)
<1>1. Gains[c] = [i \in DOMAIN plan[c].req.amts |-> Earned(executed, c, i)]
  BY MappingIs
<1>2. Gains'[c] = [i \in DOMAIN plan'[c].req.amts |-> Earned(executed', c, i)]
  BY MappingIsNext
<1>3. /\ IsRow(Gains[c], DOMAIN plan[c].req.amts)
      /\ \A i \in DOMAIN plan[c].req.amts : Gains[c][i] = Earned(executed, c, i)
  BY <1>1 DEF IsRow
<1>4. /\ IsRow(Gains'[c], DOMAIN plan'[c].req.amts)
      /\ \A i \in DOMAIN plan'[c].req.amts : Gains'[c][i] = Earned(executed', c, i)
  BY <1>2 DEF IsRow
<1> QED
  BY <1>3, <1>4

LEMMA RowSame ==
  ASSUME NEW f, NEW g, NEW D, IsRow(f, D), IsRow(g, D), \A i \in D : g[i] = f[i]
  PROVE  g = f
BY DEF IsRow

IsTable(F) == F = [c \in Calls |-> F[c]]

LEMMA MapTables ==
  /\ IsTable(Asks) /\ IsTable(Stages) /\ IsTable(Gains) /\ IsTable(Reports)
  /\ IsTable(Asks') /\ IsTable(Stages') /\ IsTable(Gains') /\ IsTable(Reports')
<1>1. IsTable(Asks) /\ IsTable(Asks')
  BY DEF IsTable, Asks
<1>2. IsTable(Stages) /\ IsTable(Stages')
  <2>1. IsTable(Stages)
    BY DEF IsTable, Stages, StageOf, Coin, Own, Paid
  <2>2. IsTable(Stages')
    BY DEF IsTable, Stages, StageOf, Coin, Own, Paid
  <2> QED
    BY <2>1, <2>2
<1>3. IsTable(Gains) /\ IsTable(Gains')
  BY DEF IsTable, Gains, Received
<1>4. IsTable(Reports) /\ IsTable(Reports')
  BY DEF IsTable, Reports
<1> QED
  BY <1>1, <1>2, <1>3, <1>4

LEMMA TableSame ==
  ASSUME NEW F, NEW G, IsTable(F), IsTable(G), \A c \in Calls : G[c] = F[c]
  PROVE  G = F
BY DEF IsTable

LEMMA TableExcept ==
  ASSUME NEW F, NEW G, IsTable(F), IsTable(G), NEW c \in Calls, NEW v,
         G[c] = v, \A d \in Calls : d # c => G[d] = F[d]
  PROVE  G = [F EXCEPT ![c] = v]
BY DEF IsTable

\* What is known of a call after a step.
LEMMA CallFactsNext ==
  ASSUME IInv', NEW c \in Calls
  PROVE  plan'[c] \in Plans /\ Terms(plan'[c]) /\ CoinsOK(leaves', c, plan'[c], tx'[c], "main")
<1>1. plan'[c] \in Plans /\ CallOK(c, pc'[c], plan'[c], tx'[c], status'[c], leaves', view', Items')
  BY DEF IInv, Shape, CallsOK
<1> QED
  BY <1>1 DEF CallOK

LEMMA CoinsNow ==
  ASSUME IInv, NEW c \in Calls
  PROVE  plan[c] \in Plans /\ Terms(plan[c]) /\ CoinsOK(leaves, c, plan[c], tx[c], "main")
<1>1. plan[c] \in Plans /\ CallOK(c, pc[c], plan[c], tx[c], status[c], leaves, view, Items)
  BY CallFacts DEF CallAt
<1> QED
  BY <1>1 DEF CallOK

SameRequests == \A c \in Calls : plan'[c].req = plan[c].req
SameDeposits == \A c \in Calls : tx'[c]["main"] = "mined" <=> tx[c]["main"] = "mined"

\* The stages of a call whose coins a step leaves alone.
LEMMA StagesSame ==
  ASSUME IInv, IInv', NEW c \in Calls, plan'[c].req = plan[c].req, Longer(leaves, leaves'),
         tx'[c]["main"] = "mined" <=> tx[c]["main"] = "mined",
         \A k \in CoinsOf(leaves, c, "main") : /\ k \in PaidBy(executed') <=> k \in PaidBy(executed)
                                               /\ k \in spent' <=> k \in spent
  PROVE  Stages'[c] = Stages[c]
<1>1. plan[c] \in Plans /\ Terms(plan[c]) /\ CoinsOK(leaves, c, plan[c], tx[c], "main")
  BY CoinsNow
<1>2. plan'[c] \in Plans /\ Terms(plan'[c]) /\ CoinsOK(leaves', c, plan'[c], tx'[c], "main")
  BY CallFactsNext
<1>3. \A j \in DOMAIN plan[c].req.amts :
        StageAt(leaves', tx'[c], spent', executed', c, j) = StageAt(leaves, tx[c], spent, executed, c, j)
  BY <1>1, <1>2, StageKept
<1>4. DOMAIN plan'[c].req.amts = DOMAIN plan[c].req.amts
  OBVIOUS
<1>5. IsRow(Stages[c], DOMAIN plan[c].req.amts) /\ IsRow(Stages'[c], DOMAIN plan[c].req.amts)
  BY <1>4, StagesAt
<1>6. \A j \in DOMAIN plan[c].req.amts : Stages'[c][j] = Stages[c][j]
  BY <1>3, <1>4, StagesAt
<1> QED
  BY <1>5, <1>6, RowSame

\* A step that the promise does not notice.
LEMMA Unnoticed ==
  ASSUME IInv, IInv', SameRequests, SameDeposits, Longer(leaves, leaves'),
         UNCHANGED <<spent, executed>>
  PROVE  Asks' = Asks /\ Stages' = Stages /\ Gains' = Gains
<1>1. ASSUME NEW c \in Calls PROVE Asks'[c] = Asks[c] /\ Stages'[c] = Stages[c] /\ Gains'[c] = Gains[c]
  <2>1. plan'[c].req = plan[c].req /\ (tx'[c]["main"] = "mined" <=> tx[c]["main"] = "mined")
    BY DEF SameRequests, SameDeposits
  <2>2. Stages'[c] = Stages[c]
    BY <2>1, StagesSame
  <2>3. Asks'[c] = Asks[c]
    BY <2>1, AsksAt
  <2>4. Gains'[c] = Gains[c]
    <3>1. executed' = executed /\ DOMAIN plan'[c].req.amts = DOMAIN plan[c].req.amts
      BY <2>1
    <3>2. IsRow(Gains[c], DOMAIN plan[c].req.amts) /\ IsRow(Gains'[c], DOMAIN plan[c].req.amts)
      BY <3>1, GainsAt
    <3>3. \A i \in DOMAIN plan[c].req.amts : Gains'[c][i] = Gains[c][i]
      BY <3>1, GainsAt
    <3> QED
      BY <3>2, <3>3, RowSame
  <2> QED
    BY <2>2, <2>3, <2>4
<1> QED
  BY <1>1, MapTables, TableSame

LEMMA Stutters ==
  ASSUME IInv, IInv', SameRequests, SameDeposits, Longer(leaves, leaves'),
         UNCHANGED <<spent, executed>>, \A c \in Calls : ReportAt(pc'[c]) = ReportAt(pc[c])
  PROVE  [Promise!Next]_(Promise!vars)
<1>1. Asks' = Asks /\ Stages' = Stages /\ Gains' = Gains
  BY Unnoticed
<1>2. \A c \in Calls : Reports'[c] = Reports[c]
  BY ReportsAt
<1>3. Reports' = Reports
  BY <1>2, MapTables, TableSame
<1> QED
  BY <1>1, <1>3 DEF Promise!vars

-----------------------------------------------------------------------------
\* A call ends.
LEMMA Reporting ==
  ASSUME IInv, IInv', NEW c \in Calls, SameRequests, SameDeposits,
         UNCHANGED <<leaves, spent, executed>>, \A d \in Calls : d # c => pc'[d] = pc[d],
         pc[c] \notin {"done", "failed"},
         pc'[c] = "done" => Asked(plan[c]) /\ tx[c]["main"] = "mined"
  PROVE  [Promise!Next]_(Promise!vars)
<1>1. Longer(leaves, leaves')
  <2>1. leaves \in Seq(LeafType)
    BY CallFacts
  <2> QED
    BY <2>1, LongerSame
<1>2. CASE pc'[c] \notin {"done", "failed"}
  <2>1. \A d \in Calls : ReportAt(pc'[d]) = ReportAt(pc[d])
    BY <1>2 DEF ReportAt
  <2> QED
    BY <1>1, <2>1, Stutters
<1>3. CASE pc'[c] \in {"done", "failed"}
  <2> DEFINE r == pc'[c]
  <2>1. Asks' = Asks /\ Stages' = Stages /\ Gains' = Gains
    BY <1>1, Unnoticed
  <2>2. Reports[c] = "none" /\ Reports'[c] = r /\ \A d \in Calls : d # c => Reports'[d] = Reports[d]
    BY <1>3, ReportsAt DEF ReportAt
  <2>3. Reports' = [Reports EXCEPT ![c] = r]
    BY <2>2, MapTables, TableExcept
  <2>4. r = "done" => Asks[c] # <<>> /\ \A j \in DOMAIN Asks[c] : Stages[c][j] # "wallet"
    <3>1. \A j \in DOMAIN Asks[c] : Stages[c][j] = StageAt(leaves, tx[c], spent, executed, c, j)
      BY AsksAt, StagesAt
    <3>2. tx[c]["main"] = "mined" =>
            \A j : StageAt(leaves, tx[c], spent, executed, c, j) # "wallet"
      BY DEF StageAt
    <3> QED
      BY <3>1, <3>2, AsksAt DEF Asked
  <2> HIDE DEF r
  <2>5. r \in {"done", "failed"}
    BY <1>3 DEF r
  <2>6. Promise!Report(c, r)
    BY <2>1, <2>2, <2>3, <2>4, <2>5 DEF Promise!Report
  <2> QED
    BY <2>5, <2>6 DEF Promise!Next
<1> QED
  BY <1>2, <1>3

LEMMA GotoMaps ==
  ASSUME IInv, IInv', NEW c \in Calls, NEW lab, NEW q, Goto(c, lab, q), q.req = plan[c].req,
         UNCHANGED <<leaves, spent, executed>>, SameDeposits,
         pc[c] \notin {"idle", "done", "failed"}, lab = "done" => pc[c] = "scheduling"
  PROVE  [Promise!Next]_(Promise!vars)
<1>1. pc \in [Calls -> Labels] /\ plan \in [Calls -> Plans]
  BY DEF IInv, Shape
<1>2. pc' = [pc EXCEPT ![c] = lab] /\ plan' = [plan EXCEPT ![c] = q]
  BY DEF Goto
<1>3. pc'[c] = lab /\ \A d \in Calls : d # c => pc'[d] = pc[d]
  BY <1>1, <1>2
<1>4. SameRequests
  BY <1>1, <1>2 DEF SameRequests
<1>5. CallOK(c, pc[c], plan[c], tx[c], status[c], leaves, view, Items)
  BY CallFacts DEF CallAt
<1>6. Progress(leaves, c, pc[c], plan[c], tx[c])
  BY <1>5 DEF CallOK
<1>7. pc[c] = "scheduling" => Asked(plan[c]) /\ tx[c]["main"] = "mined"
  BY <1>6 DEF Progress, Matched
<1> QED
  BY <1>3, <1>4, <1>7, Reporting

LEMMA FailMaps ==
  ASSUME IInv, IInv', NEW c \in Calls, Fail(c), UNCHANGED <<leaves, spent, executed>>, SameDeposits,
         pc[c] \notin {"idle", "done", "failed"}
  PROVE  [Promise!Next]_(Promise!vars)
<1>1. Goto(c, "failed", FailedPlan(plan[c]))
  BY DEF Fail, FailedPlan
<1>2. FailedPlan(plan[c]).req = plan[c].req
  BY CallFacts, FailedPlanFacts
<1> QED
  BY <1>1, <1>2, GotoMaps

LEMMA TxUnchanged ==
  ASSUME UNCHANGED tx
  PROVE  SameDeposits
BY DEF SameDeposits

LEMMA BroadcastMaps ==
  ASSUME IInv, IInv', NEW c \in Calls, Broadcast(c)
  PROVE  [Promise!Next]_(Promise!vars)
<1>1. /\ pc[c] = "deposit" /\ tx' = [tx EXCEPT ![c][plan[c].part] = "pending"]
      /\ Goto(c, "sent", plan[c]) \/ Fail(c)
      /\ UNCHANGED <<leaves, spent, executed>>
  BY DEF Broadcast
<1>2. tx[c][plan[c].part] = "none" /\ plan[c].part \in Parts
  <2>1. Progress(leaves, c, pc[c], plan[c], tx[c]) /\ plan[c].part \in Parts
    BY <1>1, DepositFacts DEF Depositing
  <2> QED
    BY <1>1, <2>1 DEF Progress
<1>3. tx \in [Calls -> [Parts -> TxStates]]
  BY DEF IInv, Shape
<1>4. SameDeposits
  BY <1>1, <1>2, <1>3 DEF SameDeposits, Parts
<1> QED
  BY <1>1, <1>4, GotoMaps, FailMaps

LEMMA GoesOn ==
  ASSUME IInv, IInv', NEW c \in Calls, NEW lab, Goto(c, lab, plan[c]) \/ Fail(c),
         UNCHANGED <<leaves, spent, executed>>, UNCHANGED tx,
         pc[c] \notin {"idle", "done", "failed"}, lab = "done" => pc[c] = "scheduling"
  PROVE  [Promise!Next]_(Promise!vars)
<1>1. CASE Goto(c, lab, plan[c])
  BY <1>1, TxUnchanged, GotoMaps
<1>2. CASE Fail(c)
  BY <1>2, TxUnchanged, FailMaps
<1> QED
  BY <1>1, <1>2

LEMMA CallStepMaps ==
  ASSUME IInv, IInv', NEW c \in Calls, CallStep(c)
  PROVE  [Promise!Next]_(Promise!vars)
<1>0. plan[c] \in Plans
  BY CallFacts
<1>1. ASSUME NEW a \in BOOLEAN, NEW b \in BOOLEAN, NearQuotes(c, a, b)
      PROVE  [Promise!Next]_(Promise!vars)
  <2>1. /\ pc[c] = "quotes" /\ (Goto(c, "fee", plan[c]) \/ Fail(c))
        /\ UNCHANGED <<leaves, spent, executed>> /\ UNCHANGED tx
    BY <1>1 DEF NearQuotes
  <2> QED
    BY <2>1, GoesOn
<1>2. CASE ResolveFee(c)
  <2>1. PICK fee : Goto(c, "before", [plan[c] EXCEPT !.fee = fee])
    BY <1>2 DEF ResolveFee
  <2>2. pc[c] = "fee" /\ UNCHANGED <<leaves, spent, executed>> /\ UNCHANGED tx
    BY <1>2 DEF ResolveFee
  <2>3. [plan[c] EXCEPT !.fee = fee].req = plan[c].req
    BY <1>0 DEF Plans
  <2> QED
    BY <2>1, <2>2, <2>3, TxUnchanged, GotoMaps
<1>3. CASE PrepareDeposit(c)
  <2>1. /\ pc[c] = "before" /\ (Goto(c, "deposit", plan[c]) \/ Fail(c))
        /\ UNCHANGED <<leaves, spent, executed>> /\ UNCHANGED tx
    BY <1>3 DEF PrepareDeposit
  <2> QED
    BY <2>1, GoesOn
<1>4. CASE HinkalDepositOnChainUtxos(c) \/ HinkalSolanaMultiPaymentDeposit(c)
  BY <1>4, BroadcastMaps DEF HinkalDepositOnChainUtxos, HinkalSolanaMultiPaymentDeposit
<1>5. CASE WaitForTransaction(c)
  <2>1. /\ pc[c] = "sent" /\ (Goto(c, "receipt", plan[c]) \/ Fail(c))
        /\ UNCHANGED <<leaves, spent, executed>> /\ UNCHANGED tx
    BY <1>5 DEF WaitForTransaction
  <2> QED
    BY <2>1, GoesOn
<1>6. CASE FetchTransactionReceiptWithRetry(c) \/ FetchTransactionWithRetry(c)
  <2>1. /\ pc[c] = "receipt" /\ Goto(c, "decode", plan[c])
        /\ UNCHANGED <<leaves, spent, executed>> /\ UNCHANGED tx
    BY <1>6 DEF FetchTransactionReceiptWithRetry, FetchTransactionWithRetry, Fetched
  <2> QED
    BY <2>1, TxUnchanged, GotoMaps
<1>7. CASE MatchDeposits(c)
  <2> DEFINE p == plan[c]
             matched == MatchRecipientUtxos(Wanted(p), DecodeFromReceipt(c, p.part))
             next == [p EXCEPT !.utxos[p.part] = matched]
             native == [next EXCEPT !.part = "native"]
  <2>1. /\ pc[c] = "decode"
        /\ Goto(c, "before", native) \/ Goto(c, "wait", next) \/ Fail(c)
        /\ UNCHANGED <<leaves, spent, executed>> /\ UNCHANGED tx
    BY <1>7 DEF MatchDeposits
  <2>2. next.req = plan[c].req /\ native.req = plan[c].req
    <3> HIDE DEF matched
    <3> QED
      BY <1>0 DEF Plans
  <2> HIDE DEF next, native
  <2> QED
    BY <2>1, <2>2, TxUnchanged, GotoMaps, FailMaps
<1>8. ASSUME NEW v \in view .. Len(leaves), WaitForDepositedUtxosInMerkleTree(c, v)
      PROVE  [Promise!Next]_(Promise!vars)
  <2> DEFINE lab == IF plan[c].tries + 1 = MaxTries THEN "failed" ELSE "wait"
             q == [plan[c] EXCEPT !.tries = @ + 1]
  <2>1. /\ pc[c] = "wait" /\ (Goto(c, "batch", plan[c]) \/ Goto(c, lab, q))
        /\ UNCHANGED <<leaves, spent, executed>> /\ UNCHANGED tx
    BY <1>8 DEF WaitForDepositedUtxosInMerkleTree
  <2>2. q.req = plan[c].req
    BY <1>0 DEF Plans
  <2>3. lab # "done"
    OBVIOUS
  <2> HIDE DEF q, lab
  <2>4. CASE Goto(c, "batch", plan[c])
    BY <2>1, <2>4, GoesOn
  <2>5. CASE Goto(c, lab, q)
    BY <2>1, <2>2, <2>3, <2>5, TxUnchanged, GotoMaps
  <2> QED
    BY <2>1, <2>4, <2>5
<1>9. CASE ProveItem(c)
  <2> DEFINE q == [plan[c] EXCEPT !.items = Append(@, BatchItem(c, Len(plan[c].items) + 1))]
             lab == IF Len(q.items) = Len(plan[c].req.amts) THEN "schedule" ELSE "batch"
  <2>1. /\ pc[c] = "batch" /\ Goto(c, lab, q) /\ UNCHANGED <<leaves, spent, executed>> /\ UNCHANGED tx
    BY <1>9 DEF ProveItem
  <2>2. lab # "done"
    OBVIOUS
  <2> HIDE DEF lab
  <2>3. q.req = plan[c].req
    BY <1>0 DEF Plans
  <2> HIDE DEF q
  <2> QED
    BY <2>1, <2>2, <2>3, TxUnchanged, GotoMaps
<1>10. CASE Schedule(c)
  <2>1. /\ pc[c] = "schedule" /\ Goto(c, "scheduling", plan[c])
        /\ UNCHANGED <<leaves, spent, executed>> /\ UNCHANGED tx
    BY <1>10 DEF Schedule
  <2> QED
    BY <2>1, TxUnchanged, GotoMaps
<1>11. CASE Scheduled(c)
  <2>1. /\ pc[c] = "scheduling" /\ (Goto(c, "done", plan[c]) \/ Fail(c))
        /\ UNCHANGED <<leaves, spent, executed>> /\ UNCHANGED tx
    BY <1>11 DEF Scheduled
  <2> QED
    BY <2>1, GoesOn
<1> QED
  BY <1>1, <1>2, <1>3, <1>4, <1>5, <1>6, <1>7, <1>8, <1>9, <1>10, <1>11 DEF CallStep

LEMMA RequestFailsMaps ==
  ASSUME IInv, IInv', NEW c \in Calls, RequestFails(c)
  PROVE  [Promise!Next]_(Promise!vars)
<1>1. /\ pc[c] \notin {"idle", "done", "failed"} /\ Fail(c)
      /\ UNCHANGED <<leaves, spent, executed>> /\ UNCHANGED tx
  BY DEF RequestFails
<1> QED
  BY <1>1, TxUnchanged, FailMaps

-----------------------------------------------------------------------------
\* A call starts with a request, or is refused.
LEMMA EnterMaps ==
  ASSUME IInv, IInv', NEW c \in Calls, NEW r, NEW valid \in BOOLEAN, NEW label \in {"fee", "quotes"},
         Enter(c, r, valid, label), valid => r.amts # <<>>
  PROVE  [Promise!Next]_(Promise!vars)
<1>1. /\ pc[c] = "idle" /\ UNCHANGED <<leaves, spent, executed>> /\ UNCHANGED tx
      /\ IF valid THEN Goto(c, label, [NoPlan EXCEPT !.req = r]) ELSE Fail(c)
  BY DEF Enter
<1>2. pc \in [Calls -> Labels] /\ plan \in [Calls -> Plans] /\ plan[c] \in Plans
  BY DEF IInv, Shape
<1>3. CallOK(c, pc[c], plan[c], tx[c], status[c], leaves, view, Items)
  BY CallFacts DEF CallAt
<1>4. plan[c] = NoPlan /\ tx[c]["main"] = "none" /\ \A it \in Items : it.call # c
  <2>1. Progress(leaves, c, pc[c], plan[c], tx[c]) /\ Relayed(leaves, c, pc[c], plan[c], tx[c], Items)
    BY <1>3 DEF CallOK
  <2> QED
    BY <1>1, <2>1 DEF Progress, Relayed, Handed
<1>5. CASE ~valid
  <2>1. pc' = [pc EXCEPT ![c] = "failed"] /\ plan' = [plan EXCEPT ![c] = FailedPlan(plan[c])]
    BY <1>1, <1>5 DEF Fail, Goto, FailedPlan
  <2>2. FailedPlan(plan[c]).req = plan[c].req
    BY <1>2, FailedPlanFacts
  <2>3. SameRequests
    BY <1>2, <2>1, <2>2 DEF SameRequests
  <2>4. pc'[c] = "failed" /\ \A d \in Calls : d # c => pc'[d] = pc[d]
    BY <1>2, <2>1
  <2> QED
    BY <1>1, <2>3, <2>4, TxUnchanged, Reporting
<1>6. CASE valid
  <2> DEFINE q == [NoPlan EXCEPT !.req = r]
             a == r.amts
  <2>1. pc' = [pc EXCEPT ![c] = label] /\ plan' = [plan EXCEPT ![c] = q]
    BY <1>1, <1>6 DEF Goto
  <2>2. q.req = r
    BY DEF NoPlan
  <2> HIDE DEF q
  <2>3. pc'[c] = label /\ plan'[c] = q /\ \A d \in Calls : d # c => pc'[d] = pc[d] /\ plan'[d] = plan[d]
    BY <1>2, <2>1
  <2>4. /\ Asks[c] = <<>> /\ Asks'[c] = a
        /\ \A d \in Calls : d # c => Asks'[d] = Asks[d]
    <3>1. NoPlan.req.amts = <<>>
      BY DEF NoPlan, NoRequest
    <3> QED
      BY <1>4, <2>2, <2>3, <3>1, AsksAt
  <2>5. Asks' = [Asks EXCEPT ![c] = a]
    BY <2>4, MapTables, TableExcept
  <2>6. Reports[c] = "none" /\ \A d \in Calls : Reports'[d] = Reports[d]
    BY <1>1, <2>3, ReportsAt DEF ReportAt
  <2>7. Reports' = Reports
    BY <2>6, MapTables, TableSame
  <2>8. \A d \in Calls : d # c => Stages'[d] = Stages[d] /\ Gains'[d] = Gains[d]
    <3> SUFFICES ASSUME NEW d \in Calls, d # c PROVE Stages'[d] = Stages[d] /\ Gains'[d] = Gains[d]
      OBVIOUS
    <3>1. plan'[d] = plan[d] /\ leaves' = leaves /\ tx' = tx /\ spent' = spent /\ executed' = executed
      BY <1>1, <2>3
    <3>2. IsRow(Stages[d], DOMAIN plan[d].req.amts) /\ IsRow(Stages'[d], DOMAIN plan[d].req.amts)
      BY <3>1, StagesAt
    <3>3. \A j \in DOMAIN plan[d].req.amts : Stages'[d][j] = Stages[d][j]
      BY <3>1, StagesAt
    <3>4. IsRow(Gains[d], DOMAIN plan[d].req.amts) /\ IsRow(Gains'[d], DOMAIN plan[d].req.amts)
      BY <3>1, GainsAt
    <3>5. \A j \in DOMAIN plan[d].req.amts : Gains'[d][j] = Gains[d][j]
      BY <3>1, GainsAt
    <3> QED
      BY <3>2, <3>3, <3>4, <3>5, RowSame
  <2>9. Stages'[c] = [i \in DOMAIN a |-> "wallet"]
    <3>1. IsRow(Stages'[c], DOMAIN a)
      BY <2>2, <2>3, StagesAt
    <3>2. \A j : StageAt(leaves', tx'[c], spent', executed', c, j) = "wallet"
      BY <1>1, <1>4 DEF StageAt
    <3>3. \A j \in DOMAIN a : Stages'[c][j] = "wallet"
      BY <2>2, <2>3, <3>2, StagesAt
    <3> QED
      BY <3>1, <3>3 DEF IsRow
  <2>10. Gains'[c] = [i \in DOMAIN a |-> 0]
    <3>1. IsRow(Gains'[c], DOMAIN a)
      BY <2>2, <2>3, GainsAt
    <3>2. ASSUME NEW i PROVE Earned(executed', c, i) = 0
      <4>1. {it \in executed' : it.call = c /\ it.to = i} = {}
        BY <1>1, <1>4 DEF Items
      <4> QED
        BY <4>1, SumEmpty DEF Earned
    <3>3. \A i \in DOMAIN a : Gains'[c][i] = 0
      BY <2>2, <2>3, <3>2, GainsAt
    <3> QED
      BY <3>1, <3>3 DEF IsRow
  <2>11. Stages' = [Stages EXCEPT ![c] = [i \in DOMAIN a |-> "wallet"]]
    BY <2>8, <2>9, MapTables, TableExcept
  <2>12. Gains' = [Gains EXCEPT ![c] = [i \in DOMAIN a |-> 0]]
    BY <2>8, <2>10, MapTables, TableExcept
  <2>13. a # <<>>
    BY <1>6
  <2> HIDE DEF a
  <2>14. Promise!Ask(c, a)
    BY <2>4, <2>5, <2>6, <2>7, <2>11, <2>12, <2>13 DEF Promise!Ask, Promise!All
  <2>15. Promise!Ask(c, Asks'[c])
    BY <2>4, <2>14
  <2> QED
    BY <2>15 DEF Promise!Next
<1> QED
  BY <1>5, <1>6

LEMMA BeginMaps ==
  ASSUME IInv, IInv', NEW c \in Calls, NEW r \in Requests, Begin(c, r)
  PROVE  [Promise!Next]_(Promise!vars)
<1> DEFINE V == ValidateDepositAndWithdrawArgs(r)
           B == ValidateDepositAndBridgeArgs(r)
<1>1. V \in BOOLEAN /\ (V => r.amts # <<>>)
  BY DEF ValidateDepositAndWithdrawArgs
<1>2. B => r.amts # <<>>
  BY DEF ValidateDepositAndBridgeArgs
<1>3. (r.net = "evm" /\ B) \in BOOLEAN /\ (r.net # "solana" /\ V) \in BOOLEAN
      /\ (r.net = "solana" /\ V) \in BOOLEAN
  BY <1>1
<1> HIDE DEF V, B
<1>4. CASE HinkalDepositAndWithdraw(c, r)
  <2>1. Enter(c, r, r.net # "solana" /\ V, "fee")
    BY <1>4 DEF HinkalDepositAndWithdraw, V
  <2> QED
    BY <1>1, <1>3, <2>1, EnterMaps
<1>5. CASE HinkalSolanaDepositAndWithdraw(c, r)
  <2>1. Enter(c, r, r.net = "solana" /\ V, "fee")
    BY <1>5 DEF HinkalSolanaDepositAndWithdraw, V
  <2> QED
    BY <1>1, <1>3, <2>1, EnterMaps
<1>6. CASE HinkalDepositAndBridge(c, r)
  <2>1. Enter(c, r, r.net = "evm" /\ B, "fee")
    BY <1>6 DEF HinkalDepositAndBridge, B
  <2> QED
    BY <1>2, <1>3, <2>1, EnterMaps
<1>7. CASE HinkalNearDepositAndBridge(c, r)
  <2>1. Enter(c, r, V, "quotes")
    BY <1>7 DEF HinkalNearDepositAndBridge, V
  <2> QED
    BY <1>1, <2>1, EnterMaps
<1> QED
  BY <1>4, <1>5, <1>6, <1>7 DEF Begin

-----------------------------------------------------------------------------
\* Nothing is spent that is not in the tree.
LEMMA SpentInTree ==
  ASSUME IInv
  PROVE  spent \in SUBSET DOMAIN leaves /\ PaidBy(executed) \in SUBSET spent
<1>1. /\ spent = Paid \cup Recovered
      /\ \A x \in withdrawn : Takes(leaves, x.ids, x.pays, x.fee, x.left)
  BY DEF IInv, Ledger
<1>2. Recovered \in SUBSET DOMAIN leaves
  BY <1>1 DEF Recovered, Takes
<1>3. Paid \in SUBSET DOMAIN leaves
  <2> SUFFICES ASSUME NEW it \in executed, NEW k \in it.utxos PROVE k \in DOMAIN leaves
    BY DEF Paid
  <2>1. it \in Items
    BY DEF Items
  <2> QED
    BY <2>1, ItemLeaves
<1>4. PaidBy(executed) = Paid
  BY DEF PaidBy, Paid
<1> QED
  BY <1>1, <1>2, <1>3, <1>4

LEMMA MineGrows ==
  ASSUME IInv, IInv', NEW c \in Calls, NEW part \in Parts, NEW zeros \in BOOLEAN,
         NEW slots \in Created(PartOf(c, part), zeros), MineDeposit(c, part, slots)
  PROVE  Longer(leaves, leaves')
<1> DEFINE w == PartOf(c, part)
           N == [k \in DOMAIN slots |->
                   [call |-> c, part |-> part, slot |-> slots[k], amt |-> w[slots[k]]]]
<1>1. leaves \in Seq(LeafType) /\ leaves' \in Seq(LeafType)
  BY DEF IInv, Shape
<1>2. leaves' = leaves \o N
  BY DEF MineDeposit
<1>3. plan[c] \in Plans /\ Terms(plan[c]) /\ w = WantedOf(plan[c], part)
  BY CoinsNow DEF PartOf, WantedOf
<1>4. IsFiniteSet(DOMAIN w)
  BY <1>3, WantedNat
<1> HIDE DEF w
<1>5. PICK n \in Nat : slots \in [1 .. n -> DOMAIN w]
  BY <1>4, CreatedFacts DEF w
<1>6. N = [k \in 1 .. n |-> N[k]]
  BY <1>5
<1> HIDE DEF N
<1>7. N \in Seq(Range(N))
  BY <1>6, SeqDef DEF Range
<1>8. Len(leaves) <= Len(leaves') /\ \A k \in DOMAIN leaves : leaves'[k] = leaves[k]
  BY <1>1, <1>2, <1>7
<1> QED
  BY <1>1, <1>8 DEF Longer

\* The money of a call leaves the wallet.
LEMMA MineMaps ==
  ASSUME IInv, IInv', NEW c \in Calls, NEW part \in Parts, NEW zeros \in BOOLEAN,
         NEW slots \in Created(PartOf(c, part), zeros), MineDeposit(c, part, slots), UNCHANGED stuckVars
  PROVE  [Promise!Next]_(Promise!vars)
<1>1. /\ tx[c][part] = "pending" /\ tx' = [tx EXCEPT ![c][part] = "mined"]
      /\ UNCHANGED <<spent, executed>> /\ UNCHANGED <<pc, plan>>
  BY DEF MineDeposit
<1>2. tx \in [Calls -> [Parts -> TxStates]]
  BY DEF IInv, Shape
<1>3. Longer(leaves, leaves')
  BY MineGrows
<1>4. SameRequests /\ \A d \in Calls : ReportAt(pc'[d]) = ReportAt(pc[d])
  BY <1>1 DEF SameRequests
<1>5. CASE part # "main"
  <2>1. SameDeposits
    BY <1>1, <1>2, <1>5 DEF SameDeposits, Parts
  <2> QED
    BY <1>1, <1>3, <1>4, <2>1, Stutters
<1>6. CASE part = "main"
  <2> DEFINE a == plan[c].req.amts
  <2>1. tx'[c]["main"] = "mined" /\ tx[c]["main"] = "pending"
        /\ \A d \in Calls : d # c => tx'[d] = tx[d]
    BY <1>1, <1>2, <1>6 DEF Parts
  <2>2. \A d \in Calls : d # c => Stages'[d] = Stages[d]
    BY <1>1, <1>3, <2>1, StagesSame
  <2>3. \A d \in Calls : Asks'[d] = Asks[d] /\ Reports'[d] = Reports[d]
    BY <1>1, AsksAt, ReportsAt
  <2>4. ASSUME NEW d \in Calls PROVE Gains'[d] = Gains[d]
    <3>1. IsRow(Gains[d], DOMAIN plan[d].req.amts) /\ IsRow(Gains'[d], DOMAIN plan[d].req.amts)
      BY <1>1, GainsAt
    <3>2. \A i \in DOMAIN plan[d].req.amts : Gains'[d][i] = Gains[d][i]
      BY <1>1, GainsAt
    <3> QED
      BY <3>1, <3>2, RowSame
  <2>5. Asks' = Asks /\ Gains' = Gains /\ Reports' = Reports
    BY <2>3, <2>4, MapTables, TableSame
  <2>6. Asks[c] = a
    BY AsksAt
  <2>7. a # <<>>
    <3>1. CallOK(c, pc[c], plan[c], tx[c], status[c], leaves, view, Items)
      BY CallFacts DEF CallAt
    <3>2. Progress(leaves, c, pc[c], plan[c], tx[c])
      BY <3>1 DEF CallOK
    <3> QED
      BY <1>1, <3>2 DEF Progress, Asked
  <2>8. Stages[c] = [i \in DOMAIN a |-> "wallet"]
    <3>1. IsRow(Stages[c], DOMAIN a)
      BY StagesAt
    <3>2. \A j : StageAt(leaves, tx[c], spent, executed, c, j) = "wallet"
      BY <2>1 DEF StageAt
    <3>3. \A j \in DOMAIN a : Stages[c][j] = "wallet"
      BY <3>2, StagesAt
    <3> QED
      BY <3>1, <3>3 DEF IsRow
  <2>9. Stages'[c] = [i \in DOMAIN a |-> "pool"]
    <3>1. IsRow(Stages'[c], DOMAIN a)
      BY <1>1, StagesAt
    <3>2. ASSUME NEW j \in DOMAIN a PROVE StageAt(leaves', tx'[c], spent', executed', c, j) = "pool"
      <4> DEFINE k == CoinAt(leaves', c, j)
      <4>1. plan'[c] \in Plans /\ Terms(plan'[c]) /\ CoinsOK(leaves', c, plan'[c], tx'[c], "main")
            /\ plan'[c] = plan[c]
        BY <1>1, CallFactsNext
      <4>2. k \in CoinsOf(leaves', c, "main")
        <5>1. IsCoin(leaves', c, j, k)
          BY <2>1, <4>1, CoinAtFacts
        <5> QED
          BY <5>1 DEF IsCoin
      <4> HIDE DEF k
      <4>3. CoinsOf(leaves, c, "main") = {}
        BY <2>1, CoinsNow DEF CoinsOK
      <4>4. k \notin DOMAIN leaves
        BY <1>3, <4>2, <4>3 DEF Longer, CoinsOf
      <4>5. k \notin spent' /\ k \notin PaidBy(executed')
        BY <1>1, <4>4, SpentInTree
      <4> QED
        BY <2>1, <4>5 DEF StageAt, k
    <3>3. \A j \in DOMAIN a : Stages'[c][j] = "pool"
      BY <1>1, <3>2, StagesAt
    <3> QED
      BY <3>1, <3>3 DEF IsRow
  <2> DEFINE v == [i \in DOMAIN a |-> "pool"]
  <2>10. Stages' = [Stages EXCEPT ![c] = v]
    <3>1. IsTable(Stages) /\ IsTable(Stages') /\ Stages'[c] = v
      BY <2>9, MapTables
    <3> HIDE DEF v
    <3> QED
      BY <2>2, <3>1, TableExcept
  <2> HIDE DEF a
  <2>11. Promise!Deposit(c)
    BY <2>5, <2>6, <2>7, <2>8, <2>10 DEF Promise!Deposit, Promise!All
  <2> QED
    BY <2>11 DEF Promise!Next
<1> QED
  BY <1>5, <1>6

-----------------------------------------------------------------------------
LEMMA RowExcept ==
  ASSUME NEW f, NEW g, NEW D, IsRow(f, D), IsRow(g, D), NEW j \in D, NEW v, g[j] = v,
         \A i \in D : i # j => g[i] = f[i]
  PROVE  g = [f EXCEPT ![j] = v]
BY DEF IsRow

LEMMA CoinNow ==
  ASSUME IInv, NEW c \in Calls, tx[c]["main"] = "mined", NEW j \in DOMAIN plan[c].req.amts
  PROVE  CoinAt(leaves, c, j) \in CoinsOf(leaves, c, "main") /\ leaves[CoinAt(leaves, c, j)].slot = j
<1>1. plan[c] \in Plans /\ Terms(plan[c]) /\ CoinsOK(leaves, c, plan[c], tx[c], "main")
  BY CoinsNow
<1>2. IsCoin(leaves, c, j, CoinAt(leaves, c, j))
  BY <1>1, CoinAtFacts
<1> QED
  BY <1>2 DEF IsCoin

\* What a recipient has got depends on its own withdrawals only.
LEMMA EarnedKept ==
  ASSUME IInv, NEW it \in scheduled, NEW c, NEW i, ~(it.call = c /\ it.to = i)
  PROVE  Earned(executed \cup {it}, c, i) = Earned(executed, c, i)
<1> DEFINE X == executed \cup {it}
           S == {x \in executed : x.call = c /\ x.to = i}
           f == [x \in executed |-> x.pays]
           g == [x \in X |-> x.pays]
<1>1. {x \in X : x.call = c /\ x.to = i} = S
  OBVIOUS
<1>2. IsFiniteSet(S)
  <2>1. CASE S = {}
    BY <2>1, FS_EmptySet
  <2>2. CASE S # {}
    <3>1. PICK y : y \in S
      BY <2>2
    <3>2. \A x \in S : x = y
      <4>1. Apart(Items)
        BY DEF IInv, RelayerOK
      <4> QED
        BY <3>1, <4>1 DEF Apart, Items
    <3>3. S = {y}
      BY <3>1, <3>2
    <3> QED
      BY <3>3, FS_Singleton
  <2> QED
    BY <2>1, <2>2
<1>3. \A x \in S : g[x] = f[x]
  OBVIOUS
<1>4. Earned(X, c, i) = SumFunctionOnSet(g, S)
  BY <1>1 DEF Earned
<1>5. Earned(executed, c, i) = SumFunctionOnSet(f, S)
  BY DEF Earned
<1> HIDE DEF X, S, f, g
<1> QED
  BY <1>2, <1>3, <1>4, <1>5, SumEq DEF X

\* The relayer pays a recipient with a coin of the recipient's amount.
LEMMA PayMaps ==
  ASSUME IInv, IInv', NEW it \in scheduled, Execute(it), UNCHANGED stuckVars, it.utxos \cap spent = {}
  PROVE  [Promise!Next]_(Promise!vars)
<1> DEFINE c == it.call
           i == it.to
           p == plan[c]
           a == p.req.amts
<1>1. /\ UNCHANGED <<leaves, pc, plan, tx>> /\ spent' = spent \cup it.utxos
      /\ executed' = executed \cup {it}
  BY DEF Execute
<1>2. /\ it \in Items /\ it \in ItemType /\ c \in Calls /\ it \notin executed /\ Apart(Items)
      /\ executed \in SUBSET Items
  BY DEF IInv, RelayerOK, Items, ItemType
<1> HIDE DEF c, i
<1>3. /\ p \in Plans /\ CallOK(c, pc[c], p, tx[c], status[c], leaves, view, Items)
      /\ leaves \in Seq(LeafType)
  BY <1>2, CallFacts DEF CallAt
<1>4. /\ Terms(p) /\ CoinsOK(leaves, c, p, tx[c], "main")
      /\ Relayed(leaves, c, pc[c], p, tx[c], Items)
  BY <1>3 DEF CallOK
<1>5. tx[c]["main"] = "mined" /\ ItemGood(leaves, c, p, it)
  BY <1>2, <1>4 DEF Relayed, c
<1>6. i \in DOMAIN a /\ it.pays = a[i]
  BY <1>5 DEF ItemGood, i
<1>7. PICK m \in CoinsOf(leaves, c, "main") :
        /\ leaves[m].amt = WantedOf(p, "main")[i] /\ m \in it.utxos
        /\ \A k \in it.utxos : k = m \/ k \in CoinsOf(leaves, c, "native")
  BY <1>5 DEF ItemGood, i
<1> DEFINE j == leaves[m].slot
<1>8. j \in DOMAIN a /\ WantedOf(p, "main")[j] = WantedOf(p, "main")[i]
  <2>1. j \in DOMAIN WantedOf(p, "main") /\ leaves[m].amt = WantedOf(p, "main")[j]
    BY <1>4 DEF CoinsOK
  <2> QED
    BY <1>3, <1>4, <1>7, <2>1, WantedFacts
<1>9. a[i] = a[j] /\ a[i] \in Nat /\ a[i] > 0
  <2>1. p.fee \in FeeType
    BY <1>3, RequestFacts
  <2>2. /\ a[i] \in Nat /\ a[j] \in Nat /\ a[i] > 0
        /\ WithFee(a[i], p.fee) = WithFee(a[j], p.fee)
    BY <1>3, <1>4, <1>6, <1>8, WantedFacts
  <2> QED
    BY <2>1, <2>2, WithFeeInjective
<1>10. CoinAt(leaves, c, j) = m
  <2>1. IsCoin(leaves, c, j, m)
    BY DEF IsCoin
  <2> QED
    BY <1>2, <1>3, <1>4, <1>5, <1>8, <2>1, CoinAtFacts
<1> HIDE DEF p, a, j
<1>11. /\ PaidBy(executed') = PaidBy(executed) \cup it.utxos /\ PaidBy(executed) \in SUBSET spent
  BY <1>1, SpentInTree DEF PaidBy
<1>12. Stages[c][j] = "pool" /\ Stages'[c][j] = "paid"
  <2>1. StageAt(leaves, tx[c], spent, executed, c, j) = "pool"
    BY <1>5, <1>7, <1>10, <1>11 DEF StageAt
  <2>2. StageAt(leaves', tx'[c], spent', executed', c, j) = "paid"
    BY <1>1, <1>5, <1>7, <1>10, <1>11 DEF StageAt
  <2>3. j \in DOMAIN plan[c].req.amts /\ plan' = plan
    BY <1>1, <1>8 DEF a, p
  <2> QED
    BY <1>2, <2>1, <2>2, <2>3, StagesAt
<1>13. ASSUME NEW d \in Calls, NEW h \in DOMAIN plan[d].req.amts, ~(d = c /\ h = j)
       PROVE  Stages'[d][h] = Stages[d][h]
  <2> DEFINE k == CoinAt(leaves, d, h)
  <2>0. h \in DOMAIN plan[d].req.amts /\ h \in DOMAIN plan'[d].req.amts
    BY <1>1, <1>13
  <2>1. CASE tx[d]["main"] # "mined"
    <3>1. StageAt(leaves', tx'[d], spent', executed', d, h) = StageAt(leaves, tx[d], spent, executed, d, h)
      BY <1>1, <2>1 DEF StageAt
    <3> QED
      BY <2>0, <3>1, StagesAt
  <2>2. CASE tx[d]["main"] = "mined"
    <3>2. k \in CoinsOf(leaves, d, "main") /\ leaves[k].slot = h
      BY <2>0, <2>2, CoinNow
    <3> HIDE DEF k
    <3>3. k \notin it.utxos
      <4>1. k # m
        BY <1>13, <3>2 DEF j, CoinsOf
      <4>2. k \notin CoinsOf(leaves, c, "native")
        BY <3>2 DEF CoinsOf
      <4> QED
        BY <1>7, <4>1, <4>2
    <3>4. StageAt(leaves', tx'[d], spent', executed', d, h) = StageAt(leaves, tx[d], spent, executed, d, h)
      BY <1>1, <1>11, <3>3 DEF StageAt, k
    <3> QED
      BY <2>0, <3>4, StagesAt
  <2> QED
    BY <2>1, <2>2
<1>14. \A d \in Calls : d # c => Stages'[d] = Stages[d]
  <2> SUFFICES ASSUME NEW d \in Calls, d # c PROVE Stages'[d] = Stages[d]
    OBVIOUS
  <2>1. IsRow(Stages[d], DOMAIN plan[d].req.amts) /\ IsRow(Stages'[d], DOMAIN plan[d].req.amts)
    BY <1>1, StagesAt
  <2>2. \A h \in DOMAIN plan[d].req.amts : Stages'[d][h] = Stages[d][h]
    BY <1>13
  <2> QED
    BY <2>1, <2>2, RowSame
<1>15. Stages'[c] = [Stages[c] EXCEPT ![j] = "paid"]
  <2>1. IsRow(Stages[c], DOMAIN a) /\ IsRow(Stages'[c], DOMAIN a)
    BY <1>1, <1>2, StagesAt DEF a, p
  <2>2. \A h \in DOMAIN a : h # j => Stages'[c][h] = Stages[c][h]
    BY <1>2, <1>13 DEF a, p
  <2> QED
    BY <1>8, <1>12, <2>1, <2>2, RowExcept
<1>16. Stages' = [Stages EXCEPT ![c] = [Stages[c] EXCEPT ![j] = "paid"]]
  <2> DEFINE v == [Stages[c] EXCEPT ![j] = "paid"]
  <2>1. IsTable(Stages) /\ IsTable(Stages') /\ Stages'[c] = v
    BY <1>15, MapTables
  <2> HIDE DEF v
  <2>2. Stages' = [Stages EXCEPT ![c] = v]
    BY <1>2, <1>14, <2>1, TableExcept
  <2> QED
    BY <2>2 DEF v
<1>17. Gains[c][i] = 0 /\ Gains'[c][i] = a[i]
  <2>1. {x \in executed : x.call = c /\ x.to = i} = {}
    BY <1>2 DEF Apart, c, i
  <2>2. Earned(executed, c, i) = 0
    BY <2>1, SumEmpty DEF Earned
  <2> DEFINE f == [x \in executed' |-> x.pays]
  <2>3. {x \in executed' : x.call = c /\ x.to = i} = {it}
    BY <1>1, <2>1 DEF c, i
  <2>4. f[it] = a[i] /\ f[it] \in Int
    BY <1>1, <1>6, <1>9
  <2>5. Earned(executed', c, i) = SumFunctionOnSet(f, {it})
    BY <2>3 DEF Earned
  <2> HIDE DEF f
  <2>6. Earned(executed', c, i) = a[i]
    BY <2>4, <2>5, SumSingle
  <2>7. i \in DOMAIN plan[c].req.amts /\ plan' = plan
    BY <1>1, <1>6 DEF a, p
  <2> QED
    BY <1>2, <2>2, <2>6, <2>7, GainsAt
<1>18. ASSUME NEW d \in Calls, NEW h \in DOMAIN plan[d].req.amts, ~(d = c /\ h = i)
       PROVE  Gains'[d][h] = Gains[d][h]
  <2>1. Earned(executed', d, h) = Earned(executed, d, h)
    BY <1>1, <1>18, EarnedKept DEF c, i
  <2>2. h \in DOMAIN plan[d].req.amts /\ h \in DOMAIN plan'[d].req.amts
    BY <1>1, <1>18
  <2> QED
    BY <2>1, <2>2, GainsAt
<1>19. \A d \in Calls : d # c => Gains'[d] = Gains[d]
  <2> SUFFICES ASSUME NEW d \in Calls, d # c PROVE Gains'[d] = Gains[d]
    OBVIOUS
  <2>1. IsRow(Gains[d], DOMAIN plan[d].req.amts) /\ IsRow(Gains'[d], DOMAIN plan[d].req.amts)
    BY <1>1, GainsAt
  <2>2. \A h \in DOMAIN plan[d].req.amts : Gains'[d][h] = Gains[d][h]
    BY <1>18
  <2> QED
    BY <2>1, <2>2, RowSame
<1>20. Gains'[c] = [Gains[c] EXCEPT ![i] = a[i]]
  <2>1. IsRow(Gains[c], DOMAIN a) /\ IsRow(Gains'[c], DOMAIN a)
    BY <1>1, <1>2, GainsAt DEF a, p
  <2>2. \A h \in DOMAIN a : h # i => Gains'[c][h] = Gains[c][h]
    BY <1>2, <1>18 DEF a, p
  <2> QED
    BY <1>6, <1>17, <2>1, <2>2, RowExcept
<1>21. Gains' = [Gains EXCEPT ![c] = [Gains[c] EXCEPT ![i] = a[i]]]
  <2> DEFINE v == [Gains[c] EXCEPT ![i] = a[i]]
  <2>1. IsTable(Gains) /\ IsTable(Gains') /\ Gains'[c] = v
    BY <1>20, MapTables
  <2> HIDE DEF v
  <2>2. Gains' = [Gains EXCEPT ![c] = v]
    BY <1>2, <1>19, <2>1, TableExcept
  <2> QED
    BY <2>2 DEF v
<1>22. \A d \in Calls : Asks'[d] = Asks[d] /\ Reports'[d] = Reports[d]
  BY <1>1, AsksAt, ReportsAt
<1>23. Asks' = Asks /\ Reports' = Reports
  BY <1>22, MapTables, TableSame
<1>24. Asks[c] = a
  BY <1>2, AsksAt DEF a, p
<1>25. Promise!Pay(c, i, j)
  BY <1>9, <1>12, <1>16, <1>17, <1>21, <1>23, <1>24 DEF Promise!Pay
<1>26. i \in DOMAIN Asks[c] /\ j \in DOMAIN Asks[c]
  BY <1>6, <1>8, <1>24
<1> QED
  BY <1>2, <1>25, <1>26 DEF Promise!Next

LEMMA ExecuteMaps ==
  ASSUME IInv, IInv', NEW it \in scheduled, Execute(it), UNCHANGED stuckVars
  PROVE  [Promise!Next]_(Promise!vars)
<1>1. CASE it.utxos \cap spent = {}
  BY <1>1, PayMaps
<1>2. CASE it.utxos \cap spent # {}
  <2>1. UNCHANGED <<leaves, pc, plan, tx>> /\ UNCHANGED <<spent, executed>>
    BY <1>2 DEF Execute
  <2>2. Longer(leaves, leaves')
    BY <2>1, LongerSame DEF IInv, Shape
  <2>3. SameRequests /\ SameDeposits /\ \A c \in Calls : ReportAt(pc'[c]) = ReportAt(pc[c])
    BY <2>1 DEF SameRequests, SameDeposits
  <2> QED
    BY <2>1, <2>2, <2>3, Stutters
<1> QED
  BY <1>1, <1>2

-----------------------------------------------------------------------------
\* Coins that leave the pool for the user are recovered.
LEMMA Recovers ==
  ASSUME Asks' = Asks, Gains' = Gains, Reports' = Reports,
         \A c \in Calls : \E D : IsRow(Stages[c], D) /\ IsRow(Stages'[c], D),
         \A c \in Calls : \A j \in DOMAIN Stages[c] :
           Stages'[c][j] = Stages[c][j] \/ (Stages[c][j] = "pool" /\ Stages'[c][j] = "recovered")
  PROVE  [Promise!Next]_(Promise!vars)
<1> DEFINE pool == UNION {{<<c, j>> : j \in {k \in DOMAIN Stages[c] : Stages[c][k] = "pool"}} : c \in Calls}
           coins == {x \in pool : Stages'[x[1]][x[2]] = "recovered"}
<1>1. \A c \in Calls : \A j \in DOMAIN Stages[c] :
        <<c, j>> \in coins <=> Stages[c][j] = "pool" /\ Stages'[c][j] = "recovered"
  OBVIOUS
<1>2. \A x \in coins : Stages[x[1]][x[2]] = "pool"
  OBVIOUS
<1>3. \A x \in coins : x[1] \in Calls /\ x[2] \in DOMAIN Stages[x[1]] /\ x = <<x[1], x[2]>>
  OBVIOUS
<1>4. Promise!InPool = pool
  BY DEF Promise!InPool
<1> HIDE DEF pool
<1>5. coins = {x \in Promise!InPool : Stages'[x[1]][x[2]] = "recovered"}
  BY <1>4
<1> HIDE DEF coins
<1>6. \A c \in Calls : \A j \in DOMAIN Stages[c] :
        Stages'[c][j] = IF <<c, j>> \in coins THEN "recovered" ELSE Stages[c][j]
  BY <1>1
<1>7. ASSUME NEW c \in Calls
      PROVE  Stages'[c] = [j \in DOMAIN Stages[c] |-> IF <<c, j>> \in coins THEN "recovered" ELSE Stages[c][j]]
  <2>1. PICK D : IsRow(Stages[c], D) /\ IsRow(Stages'[c], D)
    OBVIOUS
  <2>2. DOMAIN Stages[c] = D /\ Stages'[c] = [j \in D |-> Stages'[c][j]]
    BY <2>1 DEF IsRow
  <2> QED
    BY <1>6, <2>2
<1>8. CASE coins = {}
  <2>1. \A c \in Calls : \A j \in DOMAIN Stages[c] : Stages'[c][j] = Stages[c][j]
    BY <1>6, <1>8
  <2>2. \A c \in Calls : Stages'[c] = Stages[c]
    <3> SUFFICES ASSUME NEW c \in Calls PROVE Stages'[c] = Stages[c]
      OBVIOUS
    <3>1. PICK D : IsRow(Stages[c], D) /\ IsRow(Stages'[c], D)
      OBVIOUS
    <3>2. DOMAIN Stages[c] = D
      BY <3>1 DEF IsRow
    <3> QED
      BY <2>1, <3>1, <3>2, RowSame
  <2>3. Stages' = Stages
    BY <2>2, MapTables, TableSame
  <2> QED
    BY <2>3 DEF Promise!vars
<1>9. CASE coins # {}
  <2>1. Stages' = [c \in Calls |-> Stages'[c]]
    BY MapTables DEF IsTable
  <2>2. Stages' = [c \in Calls |-> [j \in DOMAIN Stages[c] |->
                     IF <<c, j>> \in coins THEN "recovered" ELSE Stages[c][j]]]
    BY <1>7, <2>1
  <2>3. Promise!Recover(coins)
    BY <1>2, <1>9, <2>2 DEF Promise!Recover
  <2> QED
    BY <1>5, <2>3 DEF Promise!Next
<1> QED
  BY <1>8, <1>9

LEMMA SettleMaps ==
  ASSUME IInv, IInv', NEW w \in Loops, SettleStuck(w)
  PROVE  [Promise!Next]_(Promise!vars)
<1> DEFINE p == lplan[w]
           ids == Ids(ToSet(p.ins))
           leaf == [call |-> "user", part |-> p.part, slot |-> 0, amt |-> p.left]
<1>1. /\ UNCHANGED <<pc, plan, tx, executed>>
      /\ \/ /\ ids \cap spent = {} /\ spent' = spent \cup ids
            /\ leaves' = (IF p.left = 0 THEN leaves ELSE Append(leaves, leaf))
         \/ UNCHANGED <<leaves, spent>>
  BY DEF SettleStuck
<1>2. leaves \in Seq(LeafType) /\ p \in LoopPlans
  BY LoopFacts
<1>3. leaf \in LeafType
  BY <1>2 DEF LeafType, LoopPlans
<1> HIDE DEF ids, leaf
<1>4. Longer(leaves, leaves')
  <2>1. Longer(leaves, leaves) /\ Longer(leaves, Append(leaves, leaf))
    BY <1>2, <1>3, LongerSame, LongerAppend
  <2>2. leaves' = leaves \/ leaves' = Append(leaves, leaf)
    BY <1>1
  <2> QED
    BY <2>1, <2>2
<1>5. SameRequests /\ SameDeposits /\ \A c \in Calls : ReportAt(pc'[c]) = ReportAt(pc[c])
  BY <1>1 DEF SameRequests, SameDeposits
<1>6. CASE UNCHANGED <<leaves, spent>>
  BY <1>1, <1>4, <1>5, <1>6, Stutters
<1>7. CASE ids \cap spent = {} /\ spent' = spent \cup ids
  <2>1. \A c \in Calls : Asks'[c] = Asks[c] /\ Reports'[c] = Reports[c]
    BY <1>1, AsksAt, ReportsAt
  <2>2. \A c \in Calls : Gains'[c] = Gains[c]
    <3> SUFFICES ASSUME NEW c \in Calls PROVE Gains'[c] = Gains[c]
      OBVIOUS
    <3>1. IsRow(Gains[c], DOMAIN plan[c].req.amts) /\ IsRow(Gains'[c], DOMAIN plan[c].req.amts)
      BY <1>1, GainsAt
    <3>2. \A i \in DOMAIN plan[c].req.amts : Gains'[c][i] = Gains[c][i]
      BY <1>1, GainsAt
    <3> QED
      BY <3>1, <3>2, RowSame
  <2>3. Asks' = Asks /\ Gains' = Gains /\ Reports' = Reports
    BY <2>1, <2>2, MapTables, TableSame
  <2>4. \A c \in Calls : IsRow(Stages[c], DOMAIN plan[c].req.amts) /\ IsRow(Stages'[c], DOMAIN plan[c].req.amts)
    BY <1>1, StagesAt
  <2>5. \A c \in Calls : DOMAIN Stages[c] = DOMAIN plan[c].req.amts
    BY <2>4 DEF IsRow
  <2>6. ASSUME NEW c \in Calls, NEW j \in DOMAIN Stages[c]
        PROVE  Stages'[c][j] = Stages[c][j] \/ (Stages[c][j] = "pool" /\ Stages'[c][j] = "recovered")
    <3> DEFINE now == StageAt(leaves, tx[c], spent, executed, c, j)
               then == StageAt(leaves', tx'[c], spent', executed', c, j)
    <3>1. j \in DOMAIN plan[c].req.amts /\ j \in DOMAIN plan'[c].req.amts
      BY <1>1, <2>5, <2>6
    <3>2. Stages[c][j] = now /\ Stages'[c][j] = then
      BY <3>1, StagesAt
    <3>3. CASE tx[c]["main"] # "mined"
      <4>1. now = "wallet" /\ then = "wallet"
        BY <1>1, <3>3 DEF StageAt
      <4> QED
        BY <3>2, <4>1
    <3>4. CASE tx[c]["main"] = "mined"
      <4>1. plan[c] \in Plans /\ Terms(plan[c]) /\ CoinsOK(leaves, c, plan[c], tx[c], "main")
        BY CoinsNow
      <4>2. plan'[c] \in Plans /\ Terms(plan'[c]) /\ CoinsOK(leaves', c, plan'[c], tx'[c], "main")
            /\ tx'[c]["main"] = "mined"
        BY <1>1, <3>4, CallFactsNext
      <4>3. IsCoin(leaves, c, j, CoinAt(leaves, c, j))
        BY <3>1, <3>4, <4>1, CoinAtFacts
      <4>4. \A k : IsCoin(leaves', c, j, k) => k = CoinAt(leaves', c, j)
        BY <3>1, <4>2, CoinAtFacts
      <4>5. IsCoin(leaves', c, j, CoinAt(leaves, c, j))
        <5>1. CoinAt(leaves, c, j) \in CoinsOf(leaves', c, "main")
          BY <1>4, <4>3, LongerFacts DEF IsCoin
        <5>2. leaves'[CoinAt(leaves, c, j)] = leaves[CoinAt(leaves, c, j)]
          BY <1>4, <4>3 DEF Longer, IsCoin, CoinsOf
        <5> QED
          BY <4>3, <5>1, <5>2 DEF IsCoin
      <4>6. CoinAt(leaves', c, j) = CoinAt(leaves, c, j)
        BY <4>4, <4>5
      <4> DEFINE k == CoinAt(leaves, c, j)
      <4>7. /\ now = IF k \in PaidBy(executed) THEN "paid" ELSE IF k \in spent THEN "recovered" ELSE "pool"
            /\ then = IF k \in PaidBy(executed) THEN "paid" ELSE IF k \in spent' THEN "recovered" ELSE "pool"
        BY <1>1, <3>4, <4>2, <4>6 DEF StageAt
      <4> HIDE DEF k, now, then
      <4>8. k \in spent => k \in spent'
        BY <1>7
      <4>9. then = now \/ (now = "pool" /\ then = "recovered")
        BY <4>7, <4>8
      <4> QED
        BY <3>2, <4>9
    <3> QED
      BY <3>3, <3>4
  <2> QED
    BY <2>3, <2>4, <2>6, Recovers
<1> QED
  BY <1>1, <1>6, <1>7

-----------------------------------------------------------------------------
LEMMA InitMaps == StuckInit => Promise!Init
<1> SUFFICES ASSUME StuckInit PROVE Promise!Init
  OBVIOUS
<1>1. pc = [c \in Calls |-> "idle"] /\ plan = [c \in Calls |-> NoPlan]
  BY DEF StuckInit, Init
<1>2. \A c \in Calls : plan[c].req.amts = <<>> /\ ReportAt(pc[c]) = "none"
  BY <1>1 DEF NoPlan, NoRequest, ReportAt
<1>3. \A f : IsRow(f, DOMAIN <<>>) => f = <<>>
  BY DEF IsRow
<1>4. \A c \in Calls : Asks[c] = <<>> /\ Reports[c] = "none"
  BY <1>2, AsksAt, ReportsAt
<1>5. \A c \in Calls : Stages[c] = <<>>
  <2>1. \A c \in Calls : IsRow(Stages[c], DOMAIN <<>>)
    BY <1>2, StagesAt
  <2> QED
    BY <1>3, <2>1
<1>6. \A c \in Calls : Gains[c] = <<>>
  <2>1. \A c \in Calls : IsRow(Gains[c], DOMAIN <<>>)
    BY <1>2, GainsAt
  <2> QED
    BY <1>3, <2>1
<1>7. IsTable(Asks) /\ IsTable(Stages) /\ IsTable(Gains) /\ IsTable(Reports)
  BY MapTables
<1>8. Asks = [c \in Calls |-> <<>>]
  BY <1>4, <1>7 DEF IsTable
<1>9. Stages = [c \in Calls |-> <<>>]
  BY <1>5, <1>7 DEF IsTable
<1>10. Gains = [c \in Calls |-> <<>>]
  BY <1>6, <1>7 DEF IsTable
<1>11. Reports = [c \in Calls |-> "none"]
  BY <1>4, <1>7 DEF IsTable
<1> QED
  BY <1>8, <1>9, <1>10, <1>11 DEF Promise!Init

LEMMA QuietMaps ==
  ASSUME IInv, IInv', UNCHANGED <<leaves, spent, pc, plan, tx, executed>>
  PROVE  [Promise!Next]_(Promise!vars)
<1>1. Longer(leaves, leaves')
  BY LongerSame DEF IInv, Shape
<1>2. SameRequests /\ SameDeposits /\ \A c \in Calls : ReportAt(pc'[c]) = ReportAt(pc[c])
  BY DEF SameRequests, SameDeposits
<1> QED
  BY <1>1, <1>2, Stutters

LEMMA SendNextMaps ==
  ASSUME IInv, IInv', SendNext, UNCHANGED stuckVars
  PROVE  [Promise!Next]_(Promise!vars)
<1>1. CASE OthersInsert
  <2> DEFINE x == [call |-> "other", part |-> "main", slot |-> 0, amt |-> 1]
  <2>1. x \in LeafType
    BY DEF LeafType, Parts
  <2>2. leaves' = Append(leaves, x) /\ UNCHANGED <<spent, executed>> /\ UNCHANGED <<pc, plan, tx>>
    BY <1>1 DEF OthersInsert
  <2>3. leaves \in Seq(LeafType)
    BY DEF IInv, Shape
  <2> HIDE DEF x
  <2>4. Longer(leaves, leaves')
    BY <2>1, <2>2, <2>3, LongerAppend
  <2>5. SameRequests /\ SameDeposits /\ \A c \in Calls : ReportAt(pc'[c]) = ReportAt(pc[c])
    BY <2>2 DEF SameRequests, SameDeposits
  <2> QED
    BY <2>2, <2>4, <2>5, Stutters
<1>2. CASE \E it \in scheduled : Execute(it)
  BY <1>2, ExecuteMaps
<1>3. ASSUME NEW c \in Calls, \E r \in Requests : OneChain(r) /\ Begin(c, r)
      PROVE  [Promise!Next]_(Promise!vars)
  BY <1>3, BeginMaps
<1>4. ASSUME NEW c \in Calls, CallStep(c) PROVE [Promise!Next]_(Promise!vars)
  BY <1>4, CallStepMaps
<1>5. ASSUME NEW c \in Calls, RequestFails(c) PROVE [Promise!Next]_(Promise!vars)
  BY <1>5, RequestFailsMaps
<1>6. ASSUME NEW c \in Calls, ContractStep(c) PROVE [Promise!Next]_(Promise!vars)
  <2>1. PICK part \in Parts :
          \/ RevertDeposit(c, part)
          \/ \E zeros \in BOOLEAN : \E slots \in Created(PartOf(c, part), zeros) : MineDeposit(c, part, slots)
    BY <1>6 DEF ContractStep
  <2>2. CASE RevertDeposit(c, part)
    <3>1. /\ tx[c][part] = "pending" /\ tx' = [tx EXCEPT ![c][part] = "reverted"]
          /\ UNCHANGED <<leaves, spent, executed>> /\ UNCHANGED <<pc, plan>>
      BY <2>2 DEF RevertDeposit
    <3>2. tx \in [Calls -> [Parts -> TxStates]] /\ leaves \in Seq(LeafType)
      BY DEF IInv, Shape
    <3>3. SameDeposits
      BY <3>1, <3>2 DEF SameDeposits, Parts
    <3>4. SameRequests /\ \A d \in Calls : ReportAt(pc'[d]) = ReportAt(pc[d])
      BY <3>1 DEF SameRequests
    <3>5. Longer(leaves, leaves')
      BY <3>1, <3>2, LongerSame
    <3> QED
      BY <3>1, <3>3, <3>4, <3>5, Stutters
  <2>3. CASE \E zeros \in BOOLEAN : \E slots \in Created(PartOf(c, part), zeros) : MineDeposit(c, part, slots)
    BY <2>3, MineMaps
  <2> QED
    BY <2>1, <2>2, <2>3
<1> QED
  BY <1>1, <1>2, <1>3, <1>4, <1>5, <1>6 DEF SendNext

LEMMA NextMaps == IInv /\ IInv' /\ [Next]_vars => [Promise!Next]_(Promise!vars)
<1> SUFFICES ASSUME IInv, IInv', [Next]_vars PROVE [Promise!Next]_(Promise!vars)
  OBVIOUS
<1>1. CASE SendNext /\ UNCHANGED stuckVars
  BY <1>1, SendNextMaps
<1>2. ASSUME NEW w \in Loops, \E part \in Parts : Start(w, part) PROVE [Promise!Next]_(Promise!vars)
  <2>1. UNCHANGED <<leaves, spent, pc, plan, tx, executed>>
    BY <1>2 DEF Start, sendVars
  <2> QED
    BY <2>1, QuietMaps
<1>3. ASSUME NEW w \in Loops, LoopStep(w) PROVE [Promise!Next]_(Promise!vars)
  <2>1. UNCHANGED <<leaves, spent, pc, plan, tx, executed>>
    BY <1>3 DEF LoopStep, Reset, SelectStuck, StuckFee, WithdrawSingleStuckToken,
                WithdrawSingleStuckTokenSolana, GetStuckInputAndOutputUtxos, SendStuck, WaitForStuck, sendVars
  <2> QED
    BY <2>1, QuietMaps
<1>4. ASSUME NEW w \in Loops, LoopRequestFails(w) \/ RevertStuck(w) PROVE [Promise!Next]_(Promise!vars)
  <2>1. UNCHANGED <<leaves, spent, pc, plan, tx, executed>>
    BY <1>4 DEF LoopRequestFails, RevertStuck, sendVars
  <2> QED
    BY <2>1, QuietMaps
<1>5. ASSUME NEW w \in Loops, SettleStuck(w) PROVE [Promise!Next]_(Promise!vars)
  BY <1>5, SettleMaps
<1>6. CASE UNCHANGED vars
  <2>1. UNCHANGED <<leaves, spent, pc, plan, tx, executed>>
    BY <1>6 DEF vars, sendVars
  <2> QED
    BY <2>1, QuietMaps
<1> QED
  BY <1>1, <1>2, <1>3, <1>4, <1>5, <1>6 DEF Next

\* The flows and the loops implement Payments: the money of a call leaves the
\* wallet in one step, every coin then pays one recipient the amount asked for
\* or goes back to the user, and success is reported only when all of it is in
\* the pool (HinkalDepositAndWithdraw, HinkalDepositAndBridge,
\* HinkalSolanaDepositAndWithdraw, HinkalWithdrawStuckUtxos).
THEOREM ImplementsPayments == Spec => PaymentsSpec
<1>1. StuckInit => Promise!Init
  BY InitMaps
<1>2. IInv /\ IInv' /\ [Next]_vars => [Promise!Next]_(Promise!vars)
  BY NextMaps
<1> QED
  BY <1>1, <1>2, Invariance, PTL DEF Spec, PaymentsSpec, Promise!Spec

=============================================================================
