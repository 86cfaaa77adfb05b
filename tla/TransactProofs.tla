--------------------------- MODULE TransactProofs ---------------------------
(***************************************************************************)
(* The properties of Transact and SolanaTransact, for any calls, tokens,   *)
(* clients, requests, quotes and rates, and chains of any length.          *)
(*                                                                         *)
(* The invariant IInv has a part about the chain and one about every call. *)
(* The chain is a history (History): each transaction is the one that the  *)
(* plan of its call describes, spends UTXOs that are older and spends no   *)
(* UTXO twice.  A call (CallOK) has, before its fee is known, the amounts  *)
(* of its request (Begun); then those amounts less the fee, in each token  *)
(* (Merged); and once the inputs are chosen the rows of its kind (Sound).  *)
(* What is known of a call refers to prefixes of the chain, so it survives *)
(* the steps of all others (CallGrows).                                    *)
(*                                                                         *)
(* From IInv alone follow the roots, the refusals, the exclusion of calls  *)
(* of the same view, the amounts of every transaction, the credit of swaps *)
(* and, by induction over the chain, conservation.  Rejections need the    *)
(* history of the allowances (AInv), the gas estimate that of its count    *)
(* (PInv).                                                                 *)
(*                                                                         *)
(* The first parts are about the data: rows of inputs and outputs, and     *)
(* what a transaction described by such rows moves.                        *)
(***************************************************************************)
EXTENDS SolanaTransact, SpendAmountsProofs

-----------------------------------------------------------------------------
(***************************************************************************)
(* The chain only grows.  The operators of the model, of a chain that is   *)
(* given.                                                                  *)
(***************************************************************************)
UtxosOf(ch, k)   == UNION {{i} \X DOMAIN ch[i].outs : i \in 1 .. k}
SpentOf(ch, k)   == UNION {ch[i].ins : i \in 1 .. k}
OutputOf(ch, id) == ch[id[1]].outs[id[2]]

Choice(ch, view, t) ==
  {u \in UtxosOf(ch, view.outs) \ SpentOf(ch, view.nulls) :
     OutputOf(ch, u).owner = "user" /\ OutputOf(ch, u).token = t}

StockOf(ch, view, t) == {[id |-> id, amt |-> OutputOf(ch, id).amt] : id \in Choice(ch, view, t)}

\* Outputs other than a recipient's, whose amounts are the caller's, are worth
\* something.
GoodOutputs(outs) ==
  /\ DOMAIN outs \in SUBSET (Nat \X Nat) /\ IsFiniteSet(DOMAIN outs)
  /\ \A x \in DOMAIN outs :
       /\ outs[x].owner \in Owners /\ outs[x].token \in Tokens /\ outs[x].amt \in Int
       /\ outs[x].owner # "other" => outs[x].amt > 0

GoodChain(ch) ==
  /\ Len(ch) \in Nat /\ Len(ch) >= 1
  /\ ch = [i \in 1 .. Len(ch) |-> ch[i]]
  /\ \A i \in 1 .. Len(ch) : GoodOutputs(ch[i].outs)
  /\ ch[1].ins = {}
  /\ \A i \in 2 .. Len(ch) : /\ ch[i].ins \in SUBSET UtxosOf(ch, i - 1)
                             /\ ch[i].ins \cap SpentOf(ch, i - 1) = {}

\* ch2 is ch, and maybe more.
Grown(ch, ch2) ==
  /\ Len(ch) \in Nat /\ Len(ch2) \in Nat /\ Len(ch) <= Len(ch2)
  /\ \A i \in 1 .. Len(ch) : ch2[i] = ch[i]

Within(view, n) == view.outs \in 0 .. n /\ view.nulls \in 0 .. n

\* UTXOs and nullifiers of a longer prefix.
LEMMA UtxosMember ==
  ASSUME NEW ch, NEW k
  PROVE  \A id : id \in UtxosOf(ch, k) <=>
           /\ id = <<id[1], id[2]>> /\ id[1] \in 1 .. k /\ id[2] \in DOMAIN ch[id[1]].outs
<1>1. ASSUME NEW id, id \in UtxosOf(ch, k)
      PROVE  id = <<id[1], id[2]>> /\ id[1] \in 1 .. k /\ id[2] \in DOMAIN ch[id[1]].outs
  <2>1. PICK i \in 1 .. k : id \in {i} \X DOMAIN ch[i].outs
    BY <1>1 DEF UtxosOf
  <2> QED
    BY <2>1
<1>2. ASSUME NEW id, id = <<id[1], id[2]>>, id[1] \in 1 .. k, id[2] \in DOMAIN ch[id[1]].outs
      PROVE  id \in UtxosOf(ch, k)
  <2>1. id \in {id[1]} \X DOMAIN ch[id[1]].outs
    BY <1>2
  <2> QED
    BY <1>2, <2>1 DEF UtxosOf
<1> QED
  BY <1>1, <1>2

LEMMA UtxosMono ==
  ASSUME NEW ch, NEW m \in Int, NEW k \in Int, m <= k
  PROVE  UtxosOf(ch, m) \in SUBSET UtxosOf(ch, k) /\ SpentOf(ch, m) \in SUBSET SpentOf(ch, k)
<1>1. 1 .. m \in SUBSET (1 .. k)
  OBVIOUS
<1>2. UtxosOf(ch, m) \in SUBSET UtxosOf(ch, k)
  BY <1>1 DEF UtxosOf
<1>3. SpentOf(ch, m) \in SUBSET SpentOf(ch, k)
  BY <1>1 DEF SpentOf
<1> QED
  BY <1>2, <1>3

LEMMA UtxosFinite ==
  ASSUME NEW ch, GoodChain(ch), NEW k \in 0 .. Len(ch)
  PROVE  IsFiniteSet(UtxosOf(ch, k)) /\ UtxosOf(ch, k) \in SUBSET Id
<1> DEFINE h == [i \in 1 .. k |-> {i} \X DOMAIN ch[i].outs]
<1>1. k \in Nat /\ \A i \in 1 .. k : i \in 1 .. Len(ch) /\ i \in Nat /\ GoodOutputs(ch[i].outs)
  BY DEF GoodChain
<1>2. ASSUME NEW i \in 1 .. k PROVE IsFiniteSet(h[i])
  <2>1. IsFiniteSet({i}) /\ IsFiniteSet(DOMAIN ch[i].outs)
    BY <1>1, FS_Singleton DEF GoodOutputs
  <2>2. IsFiniteSet({i} \X DOMAIN ch[i].outs)
    BY <2>1, FS_Product
  <2> QED
    BY <2>2
<1>3. UtxosOf(ch, k) = UNION {h[i] : i \in 1 .. k}
  BY DEF UtxosOf
<1>4. IsFiniteSet(1 .. k)
  BY <1>1, FS_Interval
<1> HIDE DEF h
<1>5. IsFiniteSet({h[i] : i \in 1 .. k})
  BY <1>4, FiniteImage
<1>6. \A T \in {h[i] : i \in 1 .. k} : IsFiniteSet(T)
  BY <1>2
<1>7. IsFiniteSet(UNION {h[i] : i \in 1 .. k})
  BY <1>5, <1>6, FS_UNION
<1>8. ASSUME NEW id \in UtxosOf(ch, k) PROVE id \in Id
  <2>1. id = <<id[1], id[2]>> /\ id[1] \in 1 .. k /\ id[2] \in DOMAIN ch[id[1]].outs
    BY UtxosMember
  <2>2. id[1] \in Nat /\ id[2] \in Nat \X Nat
    BY <1>1, <2>1 DEF GoodOutputs
  <2> QED
    BY <2>1, <2>2 DEF Id
<1> QED
  BY <1>3, <1>7, <1>8

LEMMA OutputGood ==
  ASSUME NEW ch, GoodChain(ch), NEW id \in UtxosOf(ch, Len(ch))
  PROVE  /\ OutputOf(ch, id).owner \in Owners /\ OutputOf(ch, id).token \in Tokens
         /\ OutputOf(ch, id).amt \in Int
         /\ OutputOf(ch, id).owner # "other" => OutputOf(ch, id).amt > 0
<1>1. id[1] \in 1 .. Len(ch) /\ id[2] \in DOMAIN ch[id[1]].outs
  BY UtxosMember
<1>2. GoodOutputs(ch[id[1]].outs)
  BY <1>1 DEF GoodChain
<1> QED
  BY <1>1, <1>2 DEF GoodOutputs, OutputOf

\* What is chosen from is a stock of UTXOs of the client.
LEMMA StockGood ==
  ASSUME NEW ch, GoodChain(ch), NEW view, Within(view, Len(ch)), NEW t
  PROVE  /\ Stock(StockOf(ch, view, t))
         /\ Choice(ch, view, t) \in SUBSET UtxosOf(ch, Len(ch))
         /\ \A u \in StockOf(ch, view, t) :
              /\ u.id \in Choice(ch, view, t) /\ u.amt = OutputOf(ch, u.id).amt
         /\ \A id \in Choice(ch, view, t) :
              [id |-> id, amt |-> OutputOf(ch, id).amt] \in StockOf(ch, view, t)
<1> DEFINE U == StockOf(ch, view, t)
           C == Choice(ch, view, t)
           h == [id \in C |-> [id |-> id, amt |-> OutputOf(ch, id).amt]]
<1>1. view.outs \in 0 .. Len(ch) /\ Len(ch) \in Nat
  BY DEF Within, GoodChain
<1>2. C \in SUBSET UtxosOf(ch, Len(ch))
  <2>1. UtxosOf(ch, view.outs) \in SUBSET UtxosOf(ch, Len(ch))
    BY <1>1, UtxosMono
  <2> QED
    BY <2>1 DEF Choice
<1>3. IsFiniteSet(C) /\ C \in SUBSET Id
  <2>1. Len(ch) \in 0 .. Len(ch)
    BY <1>1
  <2>2. IsFiniteSet(UtxosOf(ch, Len(ch))) /\ UtxosOf(ch, Len(ch)) \in SUBSET Id
    BY <2>1, UtxosFinite
  <2> QED
    BY <1>2, <2>2, FS_Subset
<1>4. U = {h[id] : id \in C}
  BY DEF StockOf
<1>5. IsFiniteSet(U)
  <2> HIDE DEF h, C, U
  <2> QED
    BY <1>3, <1>4, FiniteImage
<1>6. \A u \in U : u.id \in C /\ u = [id |-> u.id, amt |-> OutputOf(ch, u.id).amt]
  BY DEF StockOf
<1>7. ASSUME NEW id \in C PROVE OutputOf(ch, id).amt \in Nat \ {0}
  <2>1. OutputOf(ch, id).owner = "user"
    BY DEF Choice
  <2>2. OutputOf(ch, id).amt \in Int /\ (OutputOf(ch, id).owner # "other" => OutputOf(ch, id).amt > 0)
    BY <1>2, OutputGood
  <2>3. OutputOf(ch, id).amt > 0
    BY <2>1, <2>2
  <2> QED
    BY <2>2, <2>3
<1>8. \A u \in U : u.amt = OutputOf(ch, u.id).amt /\ u.amt \in Nat \ {0} /\ u = [id |-> u.id, amt |-> u.amt]
  BY <1>6, <1>7
<1>9. \A u, v \in U : u.id = v.id => u = v
  BY <1>6
<1>10. Stock(U)
  <2>1. \A u \in U : u.id \in Id
    BY <1>3, <1>6
  <2> HIDE DEF U
  <2> QED
    BY <1>5, <1>8, <1>9, <2>1 DEF Stock
<1>11. \A id \in C : [id |-> id, amt |-> OutputOf(ch, id).amt] \in U
  BY DEF StockOf
<1> QED
  BY <1>2, <1>6, <1>8, <1>10, <1>11

\* What was on the chain stays as it is.
LEMMA GrownSame ==
  ASSUME NEW ch, NEW ch2, Grown(ch, ch2)
  PROVE  /\ \A k \in 0 .. Len(ch) : UtxosOf(ch2, k) = UtxosOf(ch, k) /\ SpentOf(ch2, k) = SpentOf(ch, k)
         /\ \A id \in UtxosOf(ch, Len(ch)) : OutputOf(ch2, id) = OutputOf(ch, id)
<1>1. ASSUME NEW k \in 0 .. Len(ch)
      PROVE  UtxosOf(ch2, k) = UtxosOf(ch, k) /\ SpentOf(ch2, k) = SpentOf(ch, k)
  <2>1. \A i \in 1 .. k : ch2[i] = ch[i]
    BY DEF Grown
  <2>2. UtxosOf(ch2, k) = UtxosOf(ch, k)
    BY <2>1 DEF UtxosOf
  <2>3. SpentOf(ch2, k) = SpentOf(ch, k)
    BY <2>1 DEF SpentOf
  <2> QED
    BY <2>2, <2>3
<1>2. ASSUME NEW id \in UtxosOf(ch, Len(ch)) PROVE OutputOf(ch2, id) = OutputOf(ch, id)
  <2>1. id[1] \in 1 .. Len(ch)
    BY UtxosMember
  <2> QED
    BY <2>1 DEF OutputOf, Grown
<1> QED
  BY <1>1, <1>2

\* A view looks the same on the longer chain.
LEMMA GrownStock ==
  ASSUME NEW ch, NEW ch2, Grown(ch, ch2), NEW view, Within(view, Len(ch)), NEW t
  PROVE  Choice(ch2, view, t) = Choice(ch, view, t) /\ StockOf(ch2, view, t) = StockOf(ch, view, t)
<1>1. view.outs \in 0 .. Len(ch) /\ view.nulls \in 0 .. Len(ch) /\ Len(ch) \in Nat
  BY DEF Within, Grown
<1>2. UtxosOf(ch2, view.outs) = UtxosOf(ch, view.outs) /\ SpentOf(ch2, view.nulls) = SpentOf(ch, view.nulls)
  BY <1>1, GrownSame
<1>3. UtxosOf(ch, view.outs) \in SUBSET UtxosOf(ch, Len(ch))
  BY <1>1, UtxosMono
<1>4. \A id \in UtxosOf(ch, view.outs) : OutputOf(ch2, id) = OutputOf(ch, id)
  BY <1>3, GrownSame
<1>5. Choice(ch2, view, t) = Choice(ch, view, t)
  BY <1>2, <1>4 DEF Choice
<1>6. \A id \in Choice(ch, view, t) : OutputOf(ch2, id) = OutputOf(ch, id)
  BY <1>4 DEF Choice
<1>7. StockOf(ch2, view, t) = StockOf(ch, view, t)
  BY <1>5, <1>6 DEF StockOf
<1> QED
  BY <1>5, <1>7

\* No UTXO is spent by two transactions.
LEMMA SpentOnce ==
  ASSUME NEW ch, GoodChain(ch), NEW i \in 2 .. Len(ch), NEW j \in 2 .. Len(ch), i # j
  PROVE  ch[i].ins \cap ch[j].ins = {}
<1>1. ASSUME NEW a \in 2 .. Len(ch), NEW b \in 2 .. Len(ch), a < b
      PROVE  ch[a].ins \cap ch[b].ins = {}
  <2>1. a \in 1 .. b - 1
    BY <1>1
  <2>2. ch[a].ins \in SUBSET SpentOf(ch, b - 1)
    BY <2>1 DEF SpentOf
  <2>3. ch[b].ins \cap SpentOf(ch, b - 1) = {}
    BY DEF GoodChain
  <2> QED
    BY <2>2, <2>3
<1>2. i < j \/ j < i
  OBVIOUS
<1> QED
  BY <1>1, <1>2

\* One more transaction.
LEMMA ChainAppend ==
  ASSUME NEW ch, GoodChain(ch), NEW e, GoodOutputs(e.outs),
         e.ins \in SUBSET UtxosOf(ch, Len(ch)), e.ins \cap SpentOf(ch, Len(ch)) = {},
         NEW ch2, ch2 = Append(ch, e)
  PROVE  /\ Grown(ch, ch2) /\ GoodChain(ch2)
         /\ Len(ch2) = Len(ch) + 1 /\ ch2[Len(ch) + 1] = e
<1> DEFINE n == Len(ch)
           S == {ch[i] : i \in 1 .. n} \cup {e}
<1>1. n \in Nat /\ n >= 1 /\ ch = [i \in 1 .. n |-> ch[i]]
  BY DEF GoodChain
<1>2. ch \in Seq(S) /\ e \in S
  <2>1. \A i \in 1 .. n : ch[i] \in S
    OBVIOUS
  <2> HIDE DEF S
  <2>2. ch \in [1 .. n -> S]
    BY <1>1, <2>1
  <2>3. ch \in Seq(S)
    BY <1>1, <2>2, SeqDef
  <2> QED
    BY <2>3 DEF S
<1> HIDE DEF S
<1>3. /\ ch2 \in Seq(S) /\ Len(ch2) = n + 1 /\ ch2[n + 1] = e
      /\ \A i \in 1 .. n : ch2[i] = ch[i]
  BY <1>2, AppendProperties
<1>4. Grown(ch, ch2)
  BY <1>1, <1>3 DEF Grown
<1>5. ch2 = [i \in 1 .. Len(ch2) |-> ch2[i]] /\ Len(ch2) \in Nat
  <2>1. Len(ch2) \in Nat /\ ch2 \in [1 .. Len(ch2) -> S]
    BY <1>3, LenProperties
  <2> DEFINE m == Len(ch2)
  <2>2. ch2 \in [1 .. m -> S]
    BY <2>1
  <2> HIDE DEF m
  <2>3. ch2 = [i \in 1 .. m |-> ch2[i]]
    BY <2>2
  <2> QED
    BY <2>1, <2>3 DEF m
<1>6. ASSUME NEW i \in 1 .. n + 1 PROVE GoodOutputs(ch2[i].outs)
  <2>1. CASE i \in 1 .. n
    BY <1>3, <2>1 DEF GoodChain
  <2>2. CASE i = n + 1
    BY <1>3, <2>2
  <2> QED
    BY <1>1, <2>1, <2>2
<1>7. ASSUME NEW i \in 2 .. n + 1
      PROVE  /\ ch2[i].ins \in SUBSET UtxosOf(ch2, i - 1)
             /\ ch2[i].ins \cap SpentOf(ch2, i - 1) = {}
  <2>1. i - 1 \in 0 .. n
    BY <1>1
  <2>2. UtxosOf(ch2, i - 1) = UtxosOf(ch, i - 1) /\ SpentOf(ch2, i - 1) = SpentOf(ch, i - 1)
    BY <1>4, <2>1, GrownSame
  <2>3. CASE i \in 2 .. n
    <3>1. ch2[i] = ch[i]
      BY <1>1, <1>3, <2>3
    <3> QED
      BY <2>2, <2>3, <3>1 DEF GoodChain
  <2>4. CASE i = n + 1
    <3>1. ch2[i] = e /\ i - 1 = n
      BY <1>1, <1>3, <2>4
    <3> QED
      BY <2>2, <3>1
  <2> QED
    BY <1>1, <2>3, <2>4
<1>8. ch2[1].ins = {}
  BY <1>1, <1>3 DEF GoodChain
<1>9. GoodChain(ch2)
  BY <1>1, <1>3, <1>5, <1>6, <1>7, <1>8 DEF GoodChain
<1> QED
  BY <1>3, <1>4, <1>9

-----------------------------------------------------------------------------
(***************************************************************************)
(* Rows of outputs.                                                        *)
(***************************************************************************)
\* What of a row is an owner's.
Amounts(row)    == [j \in DOMAIN row |-> row[j].amt]
Owned(row, o)   == {j \in DOMAIN row : row[j].owner = o}
PartOf(row, o)  == SumFunctionOnSet(Amounts(row), Owned(row, o))

\* Rows of one and of two outputs.
LEMMA OneOutput ==
  ASSUME NEW x, x.amt \in Int
  PROVE  /\ TotalAmount(<<x>>) = x.amt
         /\ \A o : PartOf(<<x>>, o) = IF x.owner = o THEN x.amt ELSE 0
<1> DEFINE row == <<x>>
           f == Amounts(row)
<1>1. DOMAIN row = {1} /\ row[1] = x
  OBVIOUS
<1> HIDE DEF row
<1>2. f[1] = x.amt
  BY <1>1 DEF Amounts
<1>3. TotalAmount(row) = SumFunctionOnSet(f, {1})
  BY <1>1 DEF TotalAmount, Amounts
<1> HIDE DEF f
<1>4. SumFunctionOnSet(f, {1}) = f[1]
  BY <1>2, SumSingle
<1>5. ASSUME NEW o PROVE PartOf(row, o) = IF x.owner = o THEN x.amt ELSE 0
  <2>0. PartOf(row, o) = SumFunctionOnSet(f, Owned(row, o))
    BY DEF PartOf, f
  <2>1. CASE x.owner = o
    <3>1. Owned(row, o) = {1}
      BY <1>1, <2>1 DEF Owned
    <3> QED
      BY <1>2, <1>4, <2>0, <2>1, <3>1
  <2>2. CASE x.owner # o
    <3>1. Owned(row, o) = {}
      BY <1>1, <2>2 DEF Owned
    <3>2. SumFunctionOnSet(f, {}) = 0
      BY SumEmpty
    <3> QED
      BY <2>0, <2>2, <3>1, <3>2
  <2> QED
    BY <2>1, <2>2
<1> QED
  BY <1>2, <1>3, <1>4, <1>5 DEF row

LEMMA TwoOutputs ==
  ASSUME NEW x, x.amt \in Int, NEW y, y.amt \in Int, x.owner # y.owner
  PROVE  /\ TotalAmount(<<x, y>>) = x.amt + y.amt
         /\ \A o : PartOf(<<x, y>>, o) = IF x.owner = o THEN x.amt
                                         ELSE IF y.owner = o THEN y.amt ELSE 0
<1> DEFINE row == <<x, y>>
           f == Amounts(row)
<1>1. DOMAIN row = {1, 2} /\ row[1] = x /\ row[2] = y
  OBVIOUS
<1> HIDE DEF row
<1>2. f[1] = x.amt /\ f[2] = y.amt
  BY <1>1 DEF Amounts
<1>3. TotalAmount(row) = SumFunctionOnSet(f, {1, 2})
  BY <1>1 DEF TotalAmount, Amounts
<1> HIDE DEF f
<1>4. SumFunctionOnSet(f, {1}) = f[1] /\ SumFunctionOnSet(f, {2}) = f[2]
  BY <1>2, SumSingle
<1>5. SumFunctionOnSet(f, {1, 2}) = f[1] + f[2]
  <2>1. IsFiniteSet({1, 2})
    <3>1. IsFiniteSet({1}) /\ IsFiniteSet({2})
      BY FS_Singleton
    <3>2. IsFiniteSet({1} \cup {2})
      BY <3>1, FS_Union
    <3>3. {1} \cup {2} = {1, 2}
      OBVIOUS
    <3> QED
      BY <3>2, <3>3
  <2>2. SumFunctionOnSet(f, {1, 2}) = f[1] + SumFunctionOnSet(f, {1, 2} \ {1})
    <3>1. \A z \in {1, 2} : f[z] \in Int
      BY <1>2
    <3>2. 1 \in {1, 2}
      OBVIOUS
    <3> DEFINE S == {1, 2}
    <3> HIDE DEF S
    <3>3. SumFunctionOnSet(f, S) = f[1] + SumFunctionOnSet(f, S \ {1})
      BY <2>1, <3>1, <3>2, SumRemove DEF S
    <3> QED
      BY <3>3 DEF S
  <2>3. {1, 2} \ {1} = {2}
    OBVIOUS
  <2> QED
    BY <1>4, <2>2, <2>3
<1>6. ASSUME NEW o
      PROVE  PartOf(row, o) = IF x.owner = o THEN x.amt ELSE IF y.owner = o THEN y.amt ELSE 0
  <2>0. PartOf(row, o) = SumFunctionOnSet(f, Owned(row, o))
    BY DEF PartOf, f
  <2>1. CASE x.owner = o
    <3>1. Owned(row, o) = {1}
      BY <1>1, <2>1 DEF Owned
    <3> QED
      BY <1>2, <1>4, <2>0, <2>1, <3>1
  <2>2. CASE y.owner = o
    <3>1. Owned(row, o) = {2}
      BY <1>1, <2>2 DEF Owned
    <3> QED
      BY <1>2, <1>4, <2>0, <2>2, <3>1
  <2>3. CASE x.owner # o /\ y.owner # o
    <3>1. Owned(row, o) = {}
      BY <1>1, <2>3 DEF Owned
    <3>2. SumFunctionOnSet(f, {}) = 0
      BY SumEmpty
    <3> QED
      BY <2>0, <2>3, <3>1, <3>2
  <2> QED
    BY <2>1, <2>2, <2>3
<1> QED
  BY <1>2, <1>3, <1>5, <1>6 DEF row
-----------------------------------------------------------------------------
(***************************************************************************)
(* What the contract gets: rows of inputs of one owner in distinct tokens, *)
(* and rows of outputs in the same tokens.                                 *)
(***************************************************************************)
\* A row of inputs in token t.
InputRow(ch, row, t, owner) ==
  /\ IsFiniteSet(RowIds(row)) /\ RowIds(row) \in SUBSET UtxosOf(ch, Len(ch))
  /\ \A id \in RowIds(row) : OutputOf(ch, id).token = t /\ OutputOf(ch, id).owner = owner
  /\ TotalAmount(row) \in Int
  /\ TotalAmount(row) = SumFunctionOnSet([id \in RowIds(row) |-> OutputOf(ch, id).amt], RowIds(row))

OutputRow(row, t) ==
  /\ DOMAIN row \in SUBSET Nat /\ IsFiniteSet(DOMAIN row)
  /\ \A j \in DOMAIN row :
       /\ row[j].token = t /\ row[j].owner \in Owners /\ row[j].amt \in Int
       /\ row[j].owner # "other" => row[j].amt >= 0

Ledger(ch, toks, ins, outs, owner) ==
  /\ toks \in Seq(Tokens) /\ IsInjective(toks)
  /\ DOMAIN ins = DOMAIN toks /\ DOMAIN outs = DOMAIN toks
  /\ \A k \in DOMAIN toks : InputRow(ch, ins[k], toks[k], owner) /\ OutputRow(outs[k], toks[k])

\* The rows of all inputs.
LEMMA NullifiersAreRows ==
  ASSUME NEW rows
  PROVE  BuildInNullifiers(rows) = UNION {RowIds(rows[i]) : i \in DOMAIN rows}
BY DEF BuildInNullifiers, RowIds, Taken

\* Every input and every output belongs to the row of one token.
LEMMA LedgerIns ==
  ASSUME NEW ch, NEW toks, NEW ins, NEW outs, NEW owner, Ledger(ch, toks, ins, outs, owner)
  PROVE  /\ BuildInNullifiers(ins) \in SUBSET UtxosOf(ch, Len(ch))
         /\ \A id \in BuildInNullifiers(ins) : OutputOf(ch, id).owner = owner
         /\ \A k \in DOMAIN toks :
              RowIds(ins[k]) = {id \in BuildInNullifiers(ins) : OutputOf(ch, id).token = toks[k]}
         /\ \A id \in BuildInNullifiers(ins) : \E k \in DOMAIN toks : OutputOf(ch, id).token = toks[k]
<1>1. \A id \in BuildInNullifiers(ins) : \E i \in DOMAIN toks : id \in RowIds(ins[i])
  BY NullifiersAreRows DEF Ledger
<1>2. \A i \in DOMAIN toks : RowIds(ins[i]) \in SUBSET BuildInNullifiers(ins)
  BY NullifiersAreRows DEF Ledger
<1>3. \A k \in DOMAIN toks : /\ RowIds(ins[k]) \in SUBSET UtxosOf(ch, Len(ch))
                             /\ \A id \in RowIds(ins[k]) : /\ OutputOf(ch, id).token = toks[k]
                                                           /\ OutputOf(ch, id).owner = owner
  BY DEF Ledger, InputRow
<1>4. \A i, k \in DOMAIN toks : toks[i] = toks[k] => i = k
  BY DEF Ledger, IsInjective
<1>5. ASSUME NEW k \in DOMAIN toks
      PROVE  RowIds(ins[k]) = {id \in BuildInNullifiers(ins) : OutputOf(ch, id).token = toks[k]}
  <2>1. ASSUME NEW id \in BuildInNullifiers(ins), OutputOf(ch, id).token = toks[k]
        PROVE  id \in RowIds(ins[k])
    <3>1. PICK i \in DOMAIN toks : id \in RowIds(ins[i])
      BY <1>1
    <3>2. toks[i] = toks[k]
      BY <1>3, <2>1, <3>1
    <3> QED
      BY <1>4, <3>1, <3>2
  <2>2. ASSUME NEW id \in RowIds(ins[k])
        PROVE  id \in BuildInNullifiers(ins) /\ OutputOf(ch, id).token = toks[k]
    BY <1>2, <1>3
  <2> QED
    BY <2>1, <2>2
<1>6. BuildInNullifiers(ins) \in SUBSET UtxosOf(ch, Len(ch))
  BY <1>1, <1>3
<1>7. \A id \in BuildInNullifiers(ins) : OutputOf(ch, id).owner = owner
  BY <1>1, <1>3
<1>8. \A id \in BuildInNullifiers(ins) : \E k \in DOMAIN toks : OutputOf(ch, id).token = toks[k]
  BY <1>1, <1>3
<1> QED
  BY <1>5, <1>6, <1>7, <1>8

\* The outputs that get a commitment.
Committed(toks, outs) == {x \in Nat \X Nat : x[1] \in DOMAIN toks /\ x[2] \in Taken(outs[x[1]])}

LEMMA LedgerOuts ==
  ASSUME NEW ch, NEW toks, NEW ins, NEW outs, NEW owner, Ledger(ch, toks, ins, outs, owner)
  PROVE  /\ GoodOutputs(BuildOutCommitments(outs))
         /\ DOMAIN BuildOutCommitments(outs) = Committed(toks, outs)
         /\ \A x \in Committed(toks, outs) : BuildOutCommitments(outs)[x] = outs[x[1]][x[2]]
<1> DEFINE com == BuildOutCommitments(outs)
           D == {x \in Nat \X Nat : x[1] \in DOMAIN toks /\ x[2] \in Taken(outs[x[1]])}
<1>1. DOMAIN toks = 1 .. Len(toks) /\ Len(toks) \in Nat /\ DOMAIN outs = DOMAIN toks
  BY DEF Ledger
<1>2. \A k \in DOMAIN toks : OutputRow(outs[k], toks[k])
  BY DEF Ledger
<1>3. \A k \in DOMAIN toks : k \in Nat
  BY <1>1
<1>4. DOMAIN com = {y \in Places(outs) : outs[y[1]][y[2]].amt # 0}
  BY DEF BuildOutCommitments
<1>5. ASSUME NEW y PROVE y \in Places(outs) <=> /\ y = <<y[1], y[2]>> /\ y[1] \in DOMAIN toks
                                               /\ y[2] \in DOMAIN outs[y[1]]
  <2>1. ASSUME y \in Places(outs)
        PROVE  y = <<y[1], y[2]>> /\ y[1] \in DOMAIN toks /\ y[2] \in DOMAIN outs[y[1]]
    <3>1. PICK i \in DOMAIN toks : y \in {i} \X DOMAIN outs[i]
      BY <1>1, <2>1 DEF Places
    <3> QED
      BY <3>1
  <2>2. ASSUME y = <<y[1], y[2]>>, y[1] \in DOMAIN toks, y[2] \in DOMAIN outs[y[1]]
        PROVE  y \in Places(outs)
    <3>1. y \in {y[1]} \X DOMAIN outs[y[1]]
      BY <2>2
    <3> QED
      BY <1>1, <2>2, <3>1 DEF Places
  <2> QED
    BY <2>1, <2>2
<1>6. \A k \in DOMAIN toks : DOMAIN outs[k] \in SUBSET Nat /\ IsFiniteSet(DOMAIN outs[k])
  BY <1>2 DEF OutputRow
<1>7. DOMAIN com = D
  <2>1. ASSUME NEW x \in DOMAIN com PROVE x \in D
    <3>1. x = <<x[1], x[2]>> /\ x[1] \in DOMAIN toks /\ x[2] \in DOMAIN outs[x[1]]
          /\ outs[x[1]][x[2]].amt # 0
      BY <1>4, <1>5
    <3>2. x[1] \in Nat /\ x[2] \in Nat
      BY <1>3, <1>6, <3>1
    <3>3. x \in Nat \X Nat
      BY <3>1, <3>2
    <3> QED
      BY <3>1, <3>3 DEF Taken
  <2>2. ASSUME NEW x \in D PROVE x \in DOMAIN com
    <3>1. x = <<x[1], x[2]>> /\ x[1] \in DOMAIN toks /\ x[2] \in DOMAIN outs[x[1]]
          /\ outs[x[1]][x[2]].amt # 0
      BY DEF Taken
    <3> QED
      BY <1>4, <1>5, <3>1
  <2> HIDE DEF com, D
  <2> QED
    BY <2>1, <2>2
<1>8. \A x \in DOMAIN com : com[x] = outs[x[1]][x[2]]
  BY DEF BuildOutCommitments
<1>9. IsFiniteSet(DOMAIN com)
  <2> DEFINE h == [k \in DOMAIN toks |-> {k} \X DOMAIN outs[k]]
  <2>1. Places(outs) = UNION {h[k] : k \in DOMAIN toks}
    BY <1>1 DEF Places
  <2>2. ASSUME NEW k \in DOMAIN toks PROVE IsFiniteSet(h[k])
    <3>1. IsFiniteSet({k}) /\ IsFiniteSet(DOMAIN outs[k])
      BY <1>6, FS_Singleton
    <3>2. IsFiniteSet({k} \X DOMAIN outs[k])
      BY <3>1, FS_Product
    <3> QED
      BY <3>2
  <2>3. IsFiniteSet(DOMAIN toks)
    BY <1>1, FS_Interval
  <2> HIDE DEF h
  <2>4. IsFiniteSet({h[k] : k \in DOMAIN toks})
    BY <2>3, FiniteImage
  <2>5. \A T \in {h[k] : k \in DOMAIN toks} : IsFiniteSet(T)
    BY <2>2
  <2>6. IsFiniteSet(Places(outs))
    BY <2>1, <2>4, <2>5, FS_UNION
  <2>7. DOMAIN com \in SUBSET Places(outs)
    BY <1>4
  <2> QED
    BY <2>6, <2>7, FS_Subset
<1>10. ASSUME NEW x \in DOMAIN com
       PROVE  /\ com[x].owner \in Owners /\ com[x].token \in Tokens /\ com[x].amt \in Int
              /\ com[x].owner # "other" => com[x].amt > 0
  <2>1. x[1] \in DOMAIN toks /\ x[2] \in DOMAIN outs[x[1]] /\ outs[x[1]][x[2]].amt # 0
    BY <1>7 DEF Taken
  <2> DEFINE u == outs[x[1]][x[2]]
  <2>2. /\ u.token = toks[x[1]] /\ u.owner \in Owners /\ u.amt \in Int
        /\ u.owner # "other" => u.amt >= 0
    BY <1>2, <2>1 DEF OutputRow
  <2>3. toks[x[1]] \in Tokens
    BY <2>1 DEF Ledger
  <2>4. com[x] = u /\ u.amt # 0
    BY <1>8, <2>1
  <2> HIDE DEF u, com
  <2> QED
    BY <2>2, <2>3, <2>4
<1>11. DOMAIN com \in SUBSET (Nat \X Nat)
  BY <1>7
<1>12. GoodOutputs(com)
  <2> HIDE DEF com
  <2> QED
    BY <1>9, <1>10, <1>11 DEF GoodOutputs
<1> QED
  BY <1>7, <1>8, <1>12 DEF Committed

-----------------------------------------------------------------------------
(***************************************************************************)
(* What a transaction moves.                                               *)
(***************************************************************************)
WorthOf(ch, ids)        == SumFunctionOnSet([id \in ids |-> OutputOf(ch, id).amt], ids)
InToken(ch, ids, t)     == {id \in ids : OutputOf(ch, id).token = t}
OfOwner(ch, ids, owner) == {id \in ids : OutputOf(ch, id).owner = owner}
CreatedBy(ch, i)        == {i} \X DOMAIN ch[i].outs

Gain(ch, i, owner, t) ==
  WorthOf(ch, InToken(ch, OfOwner(ch, CreatedBy(ch, i), owner), t))
    - WorthOf(ch, InToken(ch, OfOwner(ch, ch[i].ins, owner), t))

Pool(ch, i, toks, t) == SumFunctionOnSet(ch[i].changes, {k \in DOMAIN toks : toks[k] = t})

\* Transaction i of the chain is the one with these rows.
Entry(ch, i, toks, ins, outs, owner) ==
  /\ Ledger(ch, toks, ins, outs, owner)
  /\ ch[i].ins = BuildInNullifiers(ins)
  /\ ch[i].outs = BuildOutCommitments(outs)
  /\ ch[i].changes = CalcAmountChanges(ins, outs)

\* What no UTXO is worth.
LEMMA WorthEmpty ==
  ASSUME NEW ch PROVE WorthOf(ch, {}) = 0
BY SumEmpty DEF WorthOf

LEMMA WorthInt ==
  ASSUME NEW ch, GoodChain(ch), NEW ids \in SUBSET UtxosOf(ch, Len(ch))
  PROVE  IsFiniteSet(ids) /\ WorthOf(ch, ids) \in Int
<1>1. Len(ch) \in 0 .. Len(ch)
  BY DEF GoodChain
<1>2. IsFiniteSet(ids)
  BY <1>1, UtxosFinite, FS_Subset
<1>3. \A id \in ids : [x \in ids |-> OutputOf(ch, x).amt][id] \in Int
  BY OutputGood
<1> QED
  BY <1>2, <1>3, SumInt DEF WorthOf

\* Places of a row of outputs, and the UTXOs they became.
LEMMA RowWorth ==
  ASSUME NEW ch, NEW i, NEW toks, NEW ins, NEW outs, NEW owner,
         Entry(ch, i, toks, ins, outs, owner),
         NEW k \in DOMAIN toks, NEW J \in SUBSET DOMAIN outs[k], NEW ids,
         ids = {<<i, <<k, j>>>> : j \in J \cap Taken(outs[k])}
  PROVE  WorthOf(ch, ids) = SumFunctionOnSet(Amounts(outs[k]), J)
<1> DEFINE row == outs[k]
           f == Amounts(row)
           K == J \cap Taken(row)
           h == [j \in K |-> <<i, <<k, j>>>>]
           g == [id \in ids |-> OutputOf(ch, id).amt]
<1>0. OutputRow(row, toks[k]) /\ k \in Nat
  <2>1. toks \in Seq(Tokens)
    BY DEF Ledger, Entry
  <2>2. k \in Nat
    BY <2>1
  <2> QED
    BY <2>2 DEF Ledger, Entry
<1>1. /\ IsFiniteSet(DOMAIN row) /\ DOMAIN row \in SUBSET Nat
      /\ \A j \in DOMAIN row : row[j].amt \in Int
  BY <1>0 DEF OutputRow
<1>2. IsFiniteSet(J) /\ IsFiniteSet(K) /\ IsFiniteSet(J \ K) /\ K \in SUBSET J
  BY <1>1, FS_Subset
<1>3. \A j \in DOMAIN row : f[j] = row[j].amt /\ f[j] \in Int
  BY <1>1 DEF Amounts
<1>4. ASSUME NEW j \in K PROVE OutputOf(ch, <<i, <<k, j>>>>).amt = f[j]
  <2>1. j \in DOMAIN row /\ j \in Taken(outs[k]) /\ j \in Nat
    BY <1>1 DEF Taken
  <2>2. <<k, j>> \in DOMAIN BuildOutCommitments(outs)
    <3>1. DOMAIN BuildOutCommitments(outs) = Committed(toks, outs)
      BY LedgerOuts DEF Entry
    <3>2. <<k, j>> \in Nat \X Nat /\ <<k, j>>[1] = k /\ <<k, j>>[2] = j
      BY <1>0, <2>1
    <3>3. <<k, j>> \in Committed(toks, outs)
      BY <2>1, <3>2 DEF Committed
    <3> QED
      BY <3>1, <3>3
  <2>3. BuildOutCommitments(outs)[<<k, j>>] = row[j]
    <3>1. /\ DOMAIN BuildOutCommitments(outs) = Committed(toks, outs)
          /\ \A x \in Committed(toks, outs) : BuildOutCommitments(outs)[x] = outs[x[1]][x[2]]
      BY LedgerOuts DEF Entry
    <3> QED
      BY <2>2, <3>1
  <2>4. OutputOf(ch, <<i, <<k, j>>>>) = ch[i].outs[<<k, j>>]
    BY DEF OutputOf
  <2>5. ch[i].outs = BuildOutCommitments(outs)
    BY DEF Entry
  <2>6. OutputOf(ch, <<i, <<k, j>>>>) = row[j]
    BY <2>3, <2>4, <2>5
  <2> QED
    BY <1>3, <2>1, <2>6
<1>5. ids = {h[j] : j \in K}
  OBVIOUS
<1>6. \A a, b \in K : h[a] = h[b] => a = b
  OBVIOUS
<1>7. \A j \in K : f[j] \in Int /\ g[h[j]] = f[j]
  <2>1. \A j \in K : h[j] \in ids /\ h[j] = <<i, <<k, j>>>>
    OBVIOUS
  <2>2. \A j \in K : j \in DOMAIN row
    OBVIOUS
  <2>3. \A id \in ids : g[id] = OutputOf(ch, id).amt
    OBVIOUS
  <2> HIDE DEF g, h, f, K, row
  <2> QED
    BY <1>3, <1>4, <2>1, <2>2, <2>3
<1>8. \A j \in J \ K : f[j] = 0
  BY <1>3 DEF Taken
<1>9. WorthOf(ch, ids) = SumFunctionOnSet(g, ids)
  BY DEF WorthOf
<1>10. J \in SUBSET DOMAIN row
  OBVIOUS
<1> HIDE DEF f, g, h, K, row
<1>11. SumFunctionOnSet(g, {h[j] : j \in K}) = SumFunctionOnSet(f, K)
  BY <1>2, <1>6, <1>7, SumMap
<1>12. SumFunctionOnSet(f, J \ K) = 0
  BY <1>2, <1>8, SumZero
<1>13. SumFunctionOnSet(f, J \ K) = SumFunctionOnSet(f, J) - SumFunctionOnSet(f, K)
  BY <1>2, <1>3, <1>10, SumWithout
<1>14. SumFunctionOnSet(f, J) \in Int /\ SumFunctionOnSet(f, K) \in Int
  BY <1>2, <1>3, <1>10, SumInt
<1> DEFINE a == SumFunctionOnSet(f, J)
           b == SumFunctionOnSet(f, K)
<1>15. a \in Int /\ b \in Int /\ 0 = a - b
  BY <1>12, <1>13, <1>14
<1> HIDE DEF a, b
<1>16. a = b
  BY <1>15
<1>17. SumFunctionOnSet(f, J) = SumFunctionOnSet(f, K)
  BY <1>16 DEF a, b
<1> QED
  BY <1>5, <1>9, <1>11, <1>17 DEF f, row

\* What a transaction creates and spends in one of its tokens, and in another.
LEMMA CreatedInToken ==
  ASSUME NEW ch, NEW i, NEW toks, NEW ins, NEW outs, NEW owner,
         Entry(ch, i, toks, ins, outs, owner), NEW k \in DOMAIN toks
  PROVE  /\ WorthOf(ch, InToken(ch, CreatedBy(ch, i), toks[k])) = TotalAmount(outs[k])
         /\ \A o : WorthOf(ch, InToken(ch, OfOwner(ch, CreatedBy(ch, i), o), toks[k]))
                     = PartOf(outs[k], o)
<1> DEFINE row == outs[k]
           D == DOMAIN BuildOutCommitments(outs)
<1>1. /\ Ledger(ch, toks, ins, outs, owner) /\ ch[i].outs = BuildOutCommitments(outs)
      /\ \A n \in DOMAIN toks : OutputRow(outs[n], toks[n])
      /\ toks \in Seq(Tokens)
      /\ \A m, n \in DOMAIN toks : toks[m] = toks[n] => m = n
  BY DEF Entry, Ledger, IsInjective
<1>0. D = Committed(toks, outs) /\ \A x \in Committed(toks, outs) : BuildOutCommitments(outs)[x] = outs[x[1]][x[2]]
  BY <1>1, LedgerOuts
<1>2. /\ D = {x \in Nat \X Nat : x[1] \in DOMAIN toks /\ x[2] \in Taken(outs[x[1]])}
      /\ \A x \in D : BuildOutCommitments(outs)[x] = outs[x[1]][x[2]]
  BY <1>0 DEF Committed
<1>3. CreatedBy(ch, i) = {i} \X D
  BY <1>1 DEF CreatedBy
<1>4. ASSUME NEW id \in CreatedBy(ch, i)
      PROVE  /\ id = <<i, <<id[2][1], id[2][2]>>>>
             /\ id[2][1] \in DOMAIN toks /\ id[2][2] \in Taken(outs[id[2][1]])
             /\ OutputOf(ch, id) = outs[id[2][1]][id[2][2]]
             /\ OutputOf(ch, id).token = toks[id[2][1]]
  <2>1. id = <<i, id[2]>> /\ id[2] \in D
    BY <1>3
  <2>2. id[2] = <<id[2][1], id[2][2]>> /\ id[2][1] \in DOMAIN toks /\ id[2][2] \in Taken(outs[id[2][1]])
    BY <1>2, <2>1
  <2>3. OutputOf(ch, id) = outs[id[2][1]][id[2][2]]
    <3>1. OutputOf(ch, id) = ch[i].outs[id[2]]
      BY <2>1 DEF OutputOf
    <3> QED
      BY <1>1, <1>2, <2>1, <3>1
  <2>4. outs[id[2][1]][id[2][2]].token = toks[id[2][1]]
    BY <1>1, <2>2 DEF OutputRow, Taken
  <2> QED
    BY <2>1, <2>2, <2>3, <2>4
<1>5. ASSUME NEW j \in Taken(row)
      PROVE  <<i, <<k, j>>>> \in CreatedBy(ch, i)
  <2>1. k \in Nat /\ j \in Nat
    <3>1. k \in Nat
      BY <1>1
    <3>2. j \in DOMAIN row /\ DOMAIN row \in SUBSET Nat
      BY <1>1 DEF Taken, OutputRow
    <3> QED
      BY <3>1, <3>2
  <2>2. <<k, j>> \in D
    BY <1>2, <2>1
  <2> QED
    BY <1>3, <2>2
<1>6. InToken(ch, CreatedBy(ch, i), toks[k]) = {<<i, <<k, j>>>> : j \in DOMAIN row \cap Taken(row)}
  <2>1. ASSUME NEW id \in InToken(ch, CreatedBy(ch, i), toks[k])
        PROVE  id \in {<<i, <<k, j>>>> : j \in DOMAIN row \cap Taken(row)}
    <3>1. id \in CreatedBy(ch, i) /\ OutputOf(ch, id).token = toks[k]
      BY DEF InToken
    <3>2. id[2][1] = k
      BY <1>1, <1>4, <3>1
    <3>3. id = <<i, <<k, id[2][2]>>>> /\ id[2][2] \in DOMAIN row \cap Taken(row)
      BY <1>4, <3>1, <3>2 DEF Taken
    <3> QED
      BY <3>3
  <2>2. ASSUME NEW j \in DOMAIN row \cap Taken(row)
        PROVE  <<i, <<k, j>>>> \in InToken(ch, CreatedBy(ch, i), toks[k])
    <3>1. <<i, <<k, j>>>> \in CreatedBy(ch, i)
      BY <1>5
    <3>2. OutputOf(ch, <<i, <<k, j>>>>).token = toks[<<i, <<k, j>>>>[2][1]]
      BY <1>4, <3>1
    <3> QED
      BY <3>1, <3>2 DEF InToken
  <2> QED
    BY <2>1, <2>2
<1>7. ASSUME NEW o
      PROVE  InToken(ch, OfOwner(ch, CreatedBy(ch, i), o), toks[k])
               = {<<i, <<k, j>>>> : j \in Owned(row, o) \cap Taken(row)}
  <2>1. ASSUME NEW id \in InToken(ch, OfOwner(ch, CreatedBy(ch, i), o), toks[k])
        PROVE  id \in {<<i, <<k, j>>>> : j \in Owned(row, o) \cap Taken(row)}
    <3>1. id \in CreatedBy(ch, i) /\ OutputOf(ch, id).token = toks[k] /\ OutputOf(ch, id).owner = o
      BY DEF InToken, OfOwner
    <3>2. id[2][1] = k
      BY <1>1, <1>4, <3>1
    <3>3. id = <<i, <<k, id[2][2]>>>> /\ id[2][2] \in Taken(row) /\ row[id[2][2]].owner = o
      BY <1>4, <3>1, <3>2
    <3>4. id[2][2] \in Owned(row, o)
      BY <3>3 DEF Taken, Owned
    <3> QED
      BY <3>3, <3>4
  <2>2. ASSUME NEW j \in Owned(row, o) \cap Taken(row)
        PROVE  <<i, <<k, j>>>> \in InToken(ch, OfOwner(ch, CreatedBy(ch, i), o), toks[k])
    <3> DEFINE id == <<i, <<k, j>>>>
    <3>1. id \in CreatedBy(ch, i) /\ id[2][1] = k /\ id[2][2] = j
      BY <1>5
    <3>2. row[j].owner = o
      BY DEF Owned
    <3> HIDE DEF id
    <3>3. OutputOf(ch, id).token = toks[k] /\ OutputOf(ch, id) = row[j]
      BY <1>4, <3>1
    <3>4. id \in InToken(ch, OfOwner(ch, CreatedBy(ch, i), o), toks[k])
      BY <3>1, <3>2, <3>3 DEF InToken, OfOwner
    <3> QED
      BY <3>4 DEF id
  <2> QED
    BY <2>1, <2>2
<1>8. WorthOf(ch, InToken(ch, CreatedBy(ch, i), toks[k])) = SumFunctionOnSet(Amounts(row), DOMAIN row)
  BY <1>6, RowWorth
<1>9. \A o : WorthOf(ch, InToken(ch, OfOwner(ch, CreatedBy(ch, i), o), toks[k]))
               = SumFunctionOnSet(Amounts(row), Owned(row, o))
  <2>1. \A o : Owned(row, o) \in SUBSET DOMAIN row
    BY DEF Owned
  <2> QED
    BY <1>7, <2>1, RowWorth
<1> QED
  BY <1>8, <1>9 DEF TotalAmount, PartOf, Amounts

LEMMA CreatedElsewhere ==
  ASSUME NEW ch, NEW i, NEW toks, NEW ins, NEW outs, NEW owner,
         Entry(ch, i, toks, ins, outs, owner), NEW t, \A k \in DOMAIN toks : toks[k] # t
  PROVE  /\ InToken(ch, CreatedBy(ch, i), t) = {}
         /\ InToken(ch, ch[i].ins, t) = {}
         /\ {k \in DOMAIN toks : toks[k] = t} = {}
<1>1. \A id \in CreatedBy(ch, i) : \E k \in DOMAIN toks : OutputOf(ch, id).token = toks[k]
  <2> DEFINE D == DOMAIN BuildOutCommitments(outs)
  <2>0. D = Committed(toks, outs) /\ \A x \in Committed(toks, outs) : BuildOutCommitments(outs)[x] = outs[x[1]][x[2]]
    BY LedgerOuts DEF Entry
  <2>1. /\ D = {x \in Nat \X Nat : x[1] \in DOMAIN toks /\ x[2] \in Taken(outs[x[1]])}
        /\ \A x \in D : BuildOutCommitments(outs)[x] = outs[x[1]][x[2]]
    BY <2>0 DEF Committed
  <2>2. \A k \in DOMAIN toks : OutputRow(outs[k], toks[k])
    BY DEF Entry, Ledger
  <2>3. ASSUME NEW id \in CreatedBy(ch, i)
        PROVE  \E k \in DOMAIN toks : OutputOf(ch, id).token = toks[k]
    <3>1. id[1] = i /\ id[2] \in D
      BY DEF CreatedBy, Entry
    <3>2. OutputOf(ch, id) = outs[id[2][1]][id[2][2]]
      BY <2>1, <3>1 DEF OutputOf, Entry
    <3>3. id[2][1] \in DOMAIN toks /\ id[2][2] \in DOMAIN outs[id[2][1]]
      BY <2>1, <3>1 DEF Taken
    <3> QED
      BY <2>2, <3>2, <3>3 DEF OutputRow
  <2> QED
    BY <2>3
<1>2. \A id \in ch[i].ins : \E k \in DOMAIN toks : OutputOf(ch, id).token = toks[k]
  BY LedgerIns DEF Entry
<1> QED
  BY <1>1, <1>2 DEF InToken

\* What a transaction spends of a token, and of one it does not have.
LEMMA SpentInToken ==
  ASSUME NEW ch, NEW i, NEW toks, NEW ins, NEW outs, NEW owner,
         Entry(ch, i, toks, ins, outs, owner), NEW k \in DOMAIN toks
  PROVE  /\ WorthOf(ch, InToken(ch, ch[i].ins, toks[k])) = TotalAmount(ins[k])
         /\ \A o : WorthOf(ch, InToken(ch, OfOwner(ch, ch[i].ins, o), toks[k]))
                     = IF o = owner THEN TotalAmount(ins[k]) ELSE 0
<1>1. /\ RowIds(ins[k]) = InToken(ch, ch[i].ins, toks[k])
      /\ \A id \in ch[i].ins : OutputOf(ch, id).owner = owner
  BY LedgerIns DEF Entry, InToken
<1>2. WorthOf(ch, RowIds(ins[k])) = TotalAmount(ins[k])
  BY DEF Entry, Ledger, InputRow, WorthOf
<1>3. ASSUME NEW o
      PROVE  WorthOf(ch, InToken(ch, OfOwner(ch, ch[i].ins, o), toks[k]))
               = IF o = owner THEN TotalAmount(ins[k]) ELSE 0
  <2>1. CASE o = owner
    <3>1. OfOwner(ch, ch[i].ins, o) = ch[i].ins
      BY <1>1, <2>1 DEF OfOwner
    <3> QED
      BY <1>1, <1>2, <2>1, <3>1
  <2>2. CASE o # owner
    <3>1. InToken(ch, OfOwner(ch, ch[i].ins, o), toks[k]) = {}
      BY <1>1, <2>2 DEF OfOwner, InToken
    <3> QED
      BY <2>2, <3>1, WorthEmpty
  <2> QED
    BY <2>1, <2>2
<1> QED
  BY <1>1, <1>2, <1>3

\* The gains of a transaction in one of its tokens.
LEMMA GainInToken ==
  ASSUME NEW ch, NEW i, NEW toks, NEW ins, NEW outs, NEW owner,
         Entry(ch, i, toks, ins, outs, owner), NEW k \in DOMAIN toks
  PROVE  /\ \A o : Gain(ch, i, o, toks[k])
                     = PartOf(outs[k], o) - IF o = owner THEN TotalAmount(ins[k]) ELSE 0
         /\ Pool(ch, i, toks, toks[k]) = TotalAmount(outs[k]) - TotalAmount(ins[k])
         /\ TotalAmount(outs[k]) \in Int /\ TotalAmount(ins[k]) \in Int
<1>1. \A o : Gain(ch, i, o, toks[k])
               = PartOf(outs[k], o) - IF o = owner THEN TotalAmount(ins[k]) ELSE 0
  BY CreatedInToken, SpentInToken DEF Gain
<1>2. {n \in DOMAIN toks : toks[n] = toks[k]} = {k}
  BY DEF Entry, Ledger, IsInjective
<1>3. ch[i].changes[k] = TotalAmount(outs[k]) - TotalAmount(ins[k])
  BY DEF Entry, Ledger, CalcAmountChanges
<1>4. TotalAmount(ins[k]) \in Int
  BY DEF Entry, Ledger, InputRow
<1>5. TotalAmount(outs[k]) \in Int
  <2>1. IsFiniteSet(DOMAIN outs[k]) /\ \A j \in DOMAIN outs[k] : outs[k][j].amt \in Int
    BY DEF Entry, Ledger, OutputRow
  <2> QED
    BY <2>1, RowTaken
<1>6. ch[i].changes[k] \in Int
  BY <1>3, <1>4, <1>5
<1>7. SumFunctionOnSet(ch[i].changes, {k}) = ch[i].changes[k]
  BY <1>6, SumSingle
<1> QED
  BY <1>1, <1>2, <1>3, <1>4, <1>5, <1>7 DEF Pool

LEMMA GainElsewhere ==
  ASSUME NEW ch, NEW i, NEW toks, NEW ins, NEW outs, NEW owner,
         Entry(ch, i, toks, ins, outs, owner), NEW t, \A k \in DOMAIN toks : toks[k] # t
  PROVE  (\A o : Gain(ch, i, o, t) = 0) /\ Pool(ch, i, toks, t) = 0
<1>1. /\ InToken(ch, CreatedBy(ch, i), t) = {} /\ InToken(ch, ch[i].ins, t) = {}
      /\ {k \in DOMAIN toks : toks[k] = t} = {}
  BY CreatedElsewhere
<1>2. ASSUME NEW o PROVE Gain(ch, i, o, t) = 0
  <2>1. /\ InToken(ch, OfOwner(ch, CreatedBy(ch, i), o), t) = {}
        /\ InToken(ch, OfOwner(ch, ch[i].ins, o), t) = {}
    BY <1>1 DEF InToken, OfOwner
  <2>2. WorthOf(ch, {}) = 0
    BY WorthEmpty
  <2> QED
    BY <2>1, <2>2 DEF Gain
<1>3. Pool(ch, i, toks, t) = 0
  BY <1>1, SumEmpty DEF Pool
<1> QED
  BY <1>2, <1>3

-----------------------------------------------------------------------------
(***************************************************************************)
(* Plans.                                                                  *)
(***************************************************************************)
IsPlan(p) ==
  DOMAIN p = {"req", "ask", "toks", "chs", "fee", "view", "ins", "outs", "root", "rootFrom",
              "approved", "err"}

\* What is changed in token t.
ChangeIn(p, t) == SumFunctionOnSet(p.chs, {i \in DOMAIN p.toks : p.toks[i] = t})

\* The amounts of a call on Solana, with its fee.
SolanaAmounts(cl, p) ==
  /\ p.req.kind \in {"withdraw", "transfer", "swap"}
  /\ p.toks = p.req.toks /\ p.ask = p.req.chs
  /\ \A i \in DOMAIN p.toks : p.ask[i] < 0 => p.chs[i] <= p.ask[i]
  /\ p.req.kind # "swap" => Len(p.toks) = 1
  /\ p.req.kind = "swap" =>
       /\ Len(p.toks) = 2 /\ p.chs[2] >= 0
       /\ \E q \in cl.quotes : \E slip \in Slippages(p.ask[2]) :
            p.chs[2] = p.ask[2] - SwapKeepsBack(p.ask[2], slip, q)

\* The amounts of a call once its fee is known: in each token what was asked
\* for, less the fee.
Merged(cl, p) ==
  /\ p.req \in cl.requests /\ p.req.kind # "claim"
  /\ p.ask \in Seq(Int) /\ Len(p.ask) = Len(p.req.toks) /\ Len(p.ask) >= 1
  /\ p.toks \in Seq(Tokens) /\ IsInjective(p.toks)
  /\ p.chs \in Seq(Int) /\ Len(p.chs) = Len(p.toks)
  /\ Len(p.toks) >= 1 /\ p.toks[1] = p.req.toks[1]
  /\ p.fee.flat \in Int
  /\ \A t \in Tokens : ChangeIn(p, t) = Asked(p, t) - FeeIn(p, t)
  /\ ~PaysFee(p.req.kind) => p.toks = p.req.toks /\ p.chs = p.ask /\ p.fee.flat = 0
  /\ cl.net = "solana" => SolanaAmounts(cl, p)

RowsOf(ch, toks, view) == [i \in DOMAIN toks |-> SortAndPadUtxos(StockOf(ch, view, toks[i]))]

\* The rows of a call that chooses among the client's UTXOs.
SelectSound(ch, p) ==
  /\ Within(p.view, Len(ch))
  /\ p.ins = AddPaddingToUtxos(RowsOf(ch, p.toks, p.view))
  /\ ~OverLimit(RowsOf(ch, p.toks, p.view), p.chs)
  /\ \A i \in DOMAIN p.toks : ~InsufficientFunds(p.ins[i], p.chs[i])
  /\ p.outs = [i \in DOMAIN p.toks |->
                 OutputUtxoProcessing(p.ins[i], p.toks[i], p.chs[i], "user", RecipientOutput(p, i))]

OtherSound(p) ==
  /\ p.ins = [i \in DOMAIN p.toks |-> <<Pad, Pad>>]
  /\ p.outs = [i \in DOMAIN p.toks |->
                 << [owner |-> "other", token |-> p.toks[i], amt |-> p.chs[i]] >>]

\* A UTXO that may be claimed, and the rows of its claim.
Claimable(ch, p) ==
  /\ Len(p.toks) = 1 /\ p.toks = p.req.toks /\ p.req.feeTok = p.toks[1]
  /\ p.req.source \in UtxosOf(ch, 1)
  /\ OutputOf(ch, p.req.source).owner = "claimable"
  /\ OutputOf(ch, p.req.source).token = p.toks[1]

ClaimSound(ch, p) ==
  LET src == OutputOf(ch, p.req.source).amt
      row == << [id |-> p.req.source, amt |-> src], Pad >>
      gets == [owner |-> "user", token |-> p.toks[1], amt |-> src - p.fee.flat]
  IN  /\ Claimable(ch, p)
      /\ p.fee.token = p.toks[1] /\ p.fee.flat \in Int /\ src > p.fee.flat
      /\ p.ins = <<row>>
      /\ p.outs = << OutputUtxoProcessing(row, p.toks[1], -src, "claimable", <<gets>>) >>

\* The transaction a call sends.
Sound(cl, ch, p) ==
  /\ p.req \in cl.requests
  /\ p.req.kind # "claim" => Merged(cl, p)
  /\ p.req.kind = "claim" => ClaimSound(ch, p)
  /\ p.req.kind = "depositForOther" => OtherSound(p)
  /\ ChoosesUtxos(p) => SelectSound(ch, p)

PayingOwner(p) == IF p.req.kind = "claim" THEN "claimable" ELSE "user"

-----------------------------------------------------------------------------
\* UTXOs of one owner in one token.
Supply(ch, U, t, owner) ==
  /\ Stock(U)
  /\ \A u \in U : /\ u.id \in UtxosOf(ch, Len(ch)) /\ OutputOf(ch, u.id).amt = u.amt
                  /\ OutputOf(ch, u.id).token = t /\ OutputOf(ch, u.id).owner = owner

\* A filled row is worth the UTXOs it takes.
LEMMA FilledInput ==
  ASSUME NEW ch, NEW U, NEW t, NEW owner, Supply(ch, U, t, owner), NEW row, Filled(row, U)
  PROVE  InputRow(ch, row, t, owner) /\ TotalAmount(row) \in Nat
<1> DEFINE ids == RowIds(row)
           w == [id \in ids |-> OutputOf(ch, id).amt]
           v == [id \in UtxosOf(ch, Len(ch)) |-> OutputOf(ch, id).amt]
<1>1. Stock(U)
  BY DEF Supply
<1>2. /\ IsFiniteSet(Taken(row)) /\ \A j \in Taken(row) : row[j] \in U
  BY <1>1, RowPlaces
<1>3. \A id \in ids : \E u \in U : id = u.id
  BY <1>2 DEF RowIds
<1>4. /\ ids \in SUBSET UtxosOf(ch, Len(ch))
      /\ \A id \in ids : OutputOf(ch, id).token = t /\ OutputOf(ch, id).owner = owner
  BY <1>3 DEF Supply
<1>5. IsFiniteSet(ids)
  <2> DEFINE h == [j \in Taken(row) |-> row[j].id]
  <2>1. ids = {h[j] : j \in Taken(row)}
    BY DEF RowIds
  <2> HIDE DEF h, ids
  <2> QED
    BY <1>2, <2>1, FiniteImage
<1>6. \A u \in U : v[u.id] = u.amt
  BY DEF Supply
<1> HIDE DEF ids
<1>7. TotalAmount(row) \in Nat /\ TotalAmount(row) = SumFunctionOnSet(v, ids)
  <2> HIDE DEF v
  <2> QED
    BY <1>1, <1>6, RowTotal DEF ids
<1>8. SumFunctionOnSet(v, ids) = SumFunctionOnSet(w, ids)
  <2>1. \A id \in ids : v[id] = w[id]
    BY <1>4
  <2> HIDE DEF v, w
  <2> QED
    BY <1>5, <2>1, SumEq
<1> QED
  BY <1>4, <1>5, <1>7, <1>8 DEF InputRow, ids

\* What a call may choose from.
LEMMA SupplyOfView ==
  ASSUME NEW ch, GoodChain(ch), NEW view, Within(view, Len(ch)), NEW t
  PROVE  Supply(ch, StockOf(ch, view, t), t, "user")
<1>1. /\ Stock(StockOf(ch, view, t))
      /\ Choice(ch, view, t) \in SUBSET UtxosOf(ch, Len(ch))
      /\ \A u \in StockOf(ch, view, t) :
           u.id \in Choice(ch, view, t) /\ u.amt = OutputOf(ch, u.id).amt
  BY StockGood
<1>2. \A id \in Choice(ch, view, t) : OutputOf(ch, id).owner = "user" /\ OutputOf(ch, id).token = t
  BY DEF Choice
<1> QED
  BY <1>1, <1>2 DEF Supply

LEMMA EmptySupply ==
  ASSUME NEW ch, NEW t, NEW owner
  PROVE  Supply(ch, {}, t, owner) /\ Filled(<<Pad, Pad>>, {})
<1>1. Stock({})
  BY FS_EmptySet DEF Stock
<1>2. Supply(ch, {}, t, owner)
  BY <1>1 DEF Supply
<1> DEFINE row == <<Pad, Pad>>
<1>3. row \in Seq({Pad}) /\ Len(row) = 2 /\ row[1] = Pad /\ row[2] = Pad
  OBVIOUS
<1>4. {} \cup {Pad} = {Pad}
  OBVIOUS
<1>5. Cardinality({}) = 0
  BY FS_EmptySet
<1> HIDE DEF row
<1>6. \A j \in 1 .. Len(row) : row[j] = Pad /\ ~(j <= Cardinality({}))
  BY <1>3, <1>5
<1>7. Filled(row, {})
  BY <1>3, <1>4, <1>6 DEF Filled
<1> QED
  BY <1>2, <1>7 DEF row

LEMMA SingleSupply ==
  ASSUME NEW ch, GoodChain(ch), NEW id \in UtxosOf(ch, Len(ch)),
         OutputOf(ch, id).owner # "other",
         NEW u, u = [id |-> id, amt |-> OutputOf(ch, id).amt]
  PROVE  /\ Supply(ch, {u}, OutputOf(ch, id).token, OutputOf(ch, id).owner)
         /\ Filled(<<u, Pad>>, {u})
         /\ TotalAmount(<<u, Pad>>) = u.amt /\ u.amt \in Nat /\ u.amt > 0
<1>1. u.amt \in Nat /\ u.amt > 0 /\ u.id = id /\ u.amt = OutputOf(ch, id).amt
  BY OutputGood
<1>2. id \in Id
  <2>1. Len(ch) \in 0 .. Len(ch)
    BY DEF GoodChain
  <2> QED
    BY <2>1, UtxosFinite
<1>3. Stock({u})
  <2>1. IsFiniteSet({u})
    BY FS_Singleton
  <2> QED
    BY <1>1, <1>2, <2>1 DEF Stock
<1>4. Supply(ch, {u}, OutputOf(ch, id).token, OutputOf(ch, id).owner)
  BY <1>1, <1>3 DEF Supply
<1>5. SortUtxos({u})[1] = u /\ Cardinality({u}) = 1
  <2>1. Cardinality({u}) = 1
    BY FS_Singleton
  <2>2. Len(SortUtxos({u})) = Cardinality({u}) /\ \A i \in 1 .. Len(SortUtxos({u})) : SortUtxos({u})[i] \in {u}
    BY <1>3, Sorted
  <2>3. 1 \in 1 .. Len(SortUtxos({u}))
    BY <2>1, <2>2
  <2> QED
    BY <2>1, <2>2, <2>3
<1> DEFINE row == <<u, Pad>>
<1>6. row \in Seq({u} \cup {Pad}) /\ Len(row) = 2 /\ row[1] = u /\ row[2] = Pad
  OBVIOUS
<1> HIDE DEF row
<1>8. \A j \in 1 .. Len(row) : row[j] = IF j <= Cardinality({u}) THEN SortUtxos({u})[j] ELSE Pad
  BY <1>5, <1>6
<1>9. Filled(row, {u})
  BY <1>6, <1>8 DEF Filled
<1>10. TotalAmount(row) = u.amt
  <2> DEFINE f == [j \in DOMAIN row |-> row[j].amt]
  <2>0. DOMAIN row = {1, 2} /\ Pad.amt = 0
    <3>1. DOMAIN row = {1, 2}
      BY DEF row
    <3>2. Pad.amt = 0
      BY DEF Pad
    <3> QED
      BY <3>1, <3>2
  <2>1. DOMAIN row = {1, 2} /\ f[1] = u.amt /\ f[2] = 0
    BY <1>6, <2>0
  <2>2. Taken(row) = {1}
    BY <1>1, <1>6, <2>1 DEF Taken
  <2>3. IsFiniteSet(DOMAIN row) /\ \A j \in DOMAIN row : row[j].amt \in Nat
    BY <1>3, <1>9, RowPlaces
  <2>4. TotalAmount(row) = SumFunctionOnSet(f, {1})
    <3>1. \A j \in DOMAIN row : row[j].amt \in Int
      BY <2>3
    <3> QED
      BY <2>2, <2>3, <3>1, RowTaken
  <2> HIDE DEF f
  <2>6. f[1] \in Int
    BY <1>1, <2>1
  <2>5. SumFunctionOnSet(f, {1}) = f[1]
    BY <2>6, SumSingle
  <2> QED
    BY <2>1, <2>4, <2>5
<1> QED
  BY <1>1, <1>4, <1>9, <1>10 DEF row

-----------------------------------------------------------------------------
(***************************************************************************)
(* The transaction a call sends is in order.                               *)
(***************************************************************************)
\* OutputUtxoProcessing, where the funds suffice.
LEMMA Processed ==
  ASSUME NEW row, TotalAmount(row) \in Nat, NEW c \in Int, ~InsufficientFunds(row, c),
         NEW t, NEW o, NEW x, x = [owner |-> o, token |-> t, amt |-> TotalAmount(row) + c]
  PROVE  /\ OutputUtxoProcessing(row, t, c, o, <<>>) = <<x>>
         /\ \A r : OutputUtxoProcessing(row, t, c, o, <<r>>) = <<x, r>>
         /\ x.amt \in Nat
<1> DEFINE left == TotalAmount(row) + c
           y == [owner |-> o, token |-> t, amt |-> IF left > 0 THEN left ELSE 0]
<1>1. left \in Nat
  BY DEF InsufficientFunds
<1>2. y = x
  BY <1>1
<1>3. \A r : OutputUtxoProcessing(row, t, c, o, r) = <<y>> \o r
  BY DEF OutputUtxoProcessing
<1> HIDE DEF y
<1>4. \A r : OutputUtxoProcessing(row, t, c, o, r) = <<x>> \o r
  BY <1>2, <1>3
<1>5. <<x>> \o <<>> = <<x>>
  OBVIOUS
<1>6. ASSUME NEW r PROVE <<x>> \o <<r>> = <<x, r>>
  <2> HIDE DEF left
  <2> DEFINE a == <<x>>
             b == <<r>>
             d == <<x, r>>
             S == {x, r}
  <2>1. a \in Seq(S) /\ Len(a) = 1 /\ a[1] = x
    OBVIOUS
  <2>2. b \in Seq(S) /\ Len(b) = 1 /\ b[1] = r
    OBVIOUS
  <2>3. d \in Seq(S) /\ Len(d) = 2 /\ d[1] = x /\ d[2] = r
    OBVIOUS
  <2> HIDE DEF a, b, d, S
  <2> DEFINE l == Len(a)
             m == Len(b)
             ab == a \o b
  <2>4. l = 1 /\ m = 1
    BY <2>1, <2>2
  <2>8. /\ ab \in Seq(S) /\ Len(ab) = l + m
        /\ \A i \in 1 .. l + m : ab[i] = IF i <= l THEN a[i] ELSE b[i - l]
    <3>1. a \in Seq(S) /\ b \in Seq(S)
      BY <2>1, <2>2
    <3> QED
      BY <3>1, ConcatProperties
  <2> HIDE DEF l, m, ab
  <2>5. Len(ab) = 2 /\ ab[1] = a[1] /\ ab[2] = b[1]
    BY <2>4, <2>8
  <2>6. Len(ab) = Len(d) /\ \A i \in 1 .. Len(ab) : ab[i] = d[i]
    BY <2>1, <2>2, <2>3, <2>5
  <2>9. ab = d
    BY <2>3, <2>6, <2>8, SeqEqual
  <2>7. a \o b = d
    BY <2>9 DEF ab
  <2> QED
    BY <2>7 DEF a, b, d
<1> QED
  BY <1>1, <1>4, <1>5, <1>6

\* The inputs that a call chooses.
LEMMA ChosenRows ==
  ASSUME NEW ch, GoodChain(ch), NEW toks \in Seq(Tokens), NEW view, Within(view, Len(ch)),
         NEW ins, ins = AddPaddingToUtxos(RowsOf(ch, toks, view))
  PROVE  /\ DOMAIN ins = DOMAIN toks
         /\ \A k \in DOMAIN toks : /\ Filled(ins[k], StockOf(ch, view, toks[k]))
                                   /\ Supply(ch, StockOf(ch, view, toks[k]), toks[k], "user")
                                   /\ InputRow(ch, ins[k], toks[k], "user")
                                   /\ TotalAmount(ins[k]) \in Nat
         /\ \/ \A k \in DOMAIN toks : /\ Len(ins[k]) = MinInput
                                      /\ Cardinality(StockOf(ch, view, toks[k])) <= MinInput
            \/ \A k \in DOMAIN toks : Len(ins[k]) = MaxInput
<1> DEFINE n == Len(toks)
           S == [i \in 1 .. n |-> StockOf(ch, view, toks[i])]
           rows == RowsOf(ch, toks, view)
<1>1. n \in Nat /\ DOMAIN toks = 1 .. n
  OBVIOUS
<1>2. \A i \in 1 .. n : Supply(ch, S[i], toks[i], "user") /\ S[i] = StockOf(ch, view, toks[i])
  BY SupplyOfView
<1>3. \A i \in 1 .. n : Stock(S[i])
  BY <1>2 DEF Supply
<1>4. DOMAIN rows = 1 .. n /\ \A i \in 1 .. n : rows[i] = SortAndPadUtxos(S[i])
  BY <1>1 DEF RowsOf
<1> HIDE DEF S, n, rows
<1>5. /\ DOMAIN ins = 1 .. n
      /\ \A i \in 1 .. n : Filled(ins[i], S[i])
      /\ \/ \A i \in 1 .. n : Len(ins[i]) = MinInput /\ Cardinality(S[i]) <= MinInput
         \/ \A i \in 1 .. n : Len(ins[i]) = MaxInput
  <2>1. ins = AddPaddingToUtxos(rows)
    BY DEF rows
  <2> QED
    BY <1>1, <1>3, <1>4, <2>1, FilledPadding
<1>6. \A i \in 1 .. n : InputRow(ch, ins[i], toks[i], "user") /\ TotalAmount(ins[i]) \in Nat
  BY <1>2, <1>5, FilledInput
<1> QED
  BY <1>1, <1>2, <1>5, <1>6

\* What it creates.
Change(p, k) == [owner |-> "user", token |-> p.toks[k], amt |-> TotalAmount(p.ins[k]) + p.chs[k]]
ToOther(p)   == [owner |-> "other", token |-> p.toks[1], amt |-> -p.ask[1]]

\* The outputs of a call that chooses among the UTXOs.
LEMMA ChosenOuts ==
  ASSUME NEW cl, NEW ch, GoodChain(ch), NEW p, Merged(cl, p), SelectSound(ch, p),
         NEW k \in DOMAIN p.toks
  PROVE  /\ Change(p, k).amt \in Nat /\ p.chs[k] \in Int /\ TotalAmount(p.ins[k]) \in Nat
         /\ p.req.kind = "transfer" => ToOther(p).amt \in Int
         /\ p.outs[k] = IF p.req.kind = "transfer" /\ k = 1 THEN <<Change(p, k), ToOther(p)>>
                                                            ELSE <<Change(p, k)>>
<1>1. /\ p.toks \in Seq(Tokens) /\ p.chs \in Seq(Int) /\ Len(p.chs) = Len(p.toks)
      /\ p.ask \in Seq(Int) /\ Len(p.ask) >= 1
  BY DEF Merged
<1>2. p.chs[k] \in Int /\ p.ask[1] \in Int
  BY <1>1
<1>3. TotalAmount(p.ins[k]) \in Nat
  BY <1>1, ChosenRows DEF SelectSound
<1>4. ~InsufficientFunds(p.ins[k], p.chs[k])
  BY DEF SelectSound
<1>5. p.outs[k] = OutputUtxoProcessing(p.ins[k], p.toks[k], p.chs[k], "user", RecipientOutput(p, k))
  BY DEF SelectSound
<1> DEFINE x == Change(p, k)
<1>6. /\ OutputUtxoProcessing(p.ins[k], p.toks[k], p.chs[k], "user", <<>>) = <<x>>
      /\ \A r : OutputUtxoProcessing(p.ins[k], p.toks[k], p.chs[k], "user", <<r>>) = <<x, r>>
      /\ x.amt \in Nat
  BY <1>2, <1>3, <1>4, Processed DEF Change
<1>7. RecipientOutput(p, k) = IF p.req.kind = "transfer" /\ k = 1 THEN <<ToOther(p)>> ELSE <<>>
  BY DEF RecipientOutput, ToOther
<1> HIDE DEF x
<1>8. ToOther(p).amt \in Int
  BY <1>2 DEF ToOther
<1>9. CASE p.req.kind = "transfer" /\ k = 1
  <2>1. RecipientOutput(p, k) = <<ToOther(p)>>
    BY <1>7, <1>9
  <2>2. p.outs[k] = <<x, ToOther(p)>>
    BY <1>5, <1>6, <2>1
  <2> QED
    BY <1>2, <1>3, <1>6, <1>8, <1>9, <2>2 DEF x
<1>10. CASE ~(p.req.kind = "transfer" /\ k = 1)
  <2>1. RecipientOutput(p, k) = <<>>
    BY <1>7, <1>10
  <2>2. p.outs[k] = <<x>>
    BY <1>5, <1>6, <2>1
  <2> QED
    BY <1>2, <1>3, <1>6, <1>8, <1>10, <2>2 DEF x
<1> QED
  BY <1>9, <1>10

LEMMA OneOutputRow ==
  ASSUME NEW x, NEW t, x.token = t, x.owner \in Owners, x.amt \in Int, x.owner # "other" => x.amt >= 0
  PROVE  OutputRow(<<x>>, t)
<1> DEFINE row == <<x>>
<1>1. DOMAIN row = {1} /\ row[1] = x
  OBVIOUS
<1>2. IsFiniteSet({1})
  BY FS_Singleton
<1> HIDE DEF row
<1>3. OutputRow(row, t)
  BY <1>1, <1>2 DEF OutputRow
<1> QED
  BY <1>3 DEF row

LEMMA TwoOutputRow ==
  ASSUME NEW x, NEW y, NEW t,
         x.token = t, x.owner \in Owners, x.amt \in Int, x.owner # "other" => x.amt >= 0,
         y.token = t, y.owner \in Owners, y.amt \in Int, y.owner # "other" => y.amt >= 0
  PROVE  OutputRow(<<x, y>>, t)
<1> DEFINE row == <<x, y>>
<1>1. DOMAIN row = {1, 2} /\ row[1] = x /\ row[2] = y
  OBVIOUS
<1>2. IsFiniteSet({1, 2})
  <2>1. IsFiniteSet({1}) /\ IsFiniteSet({2})
    BY FS_Singleton
  <2>2. IsFiniteSet({1} \cup {2})
    BY <2>1, FS_Union
  <2>3. {1} \cup {2} = {1, 2}
    OBVIOUS
  <2> QED
    BY <2>2, <2>3
<1> HIDE DEF row
<1>3. OutputRow(row, t)
  BY <1>1, <1>2 DEF OutputRow
<1> QED
  BY <1>3 DEF row

\* All flows but the claim.
LEMMA SelectLedger ==
  ASSUME NEW cl, NEW ch, GoodChain(ch), NEW p, Merged(cl, p), SelectSound(ch, p)
  PROVE  Ledger(ch, p.toks, p.ins, p.outs, "user")
<1>1. p.toks \in Seq(Tokens) /\ IsInjective(p.toks) /\ Len(p.toks) >= 1
  BY DEF Merged
<1>2. /\ DOMAIN p.ins = DOMAIN p.toks
      /\ \A k \in DOMAIN p.toks : InputRow(ch, p.ins[k], p.toks[k], "user")
      /\ \/ \A k \in DOMAIN p.toks : Len(p.ins[k]) = MinInput
         \/ \A k \in DOMAIN p.toks : Len(p.ins[k]) = MaxInput
  <2>1. Within(p.view, Len(ch)) /\ p.ins = AddPaddingToUtxos(RowsOf(ch, p.toks, p.view))
    BY DEF SelectSound
  <2> QED
    BY <1>1, <2>1, ChosenRows
<1>3. DOMAIN p.outs = DOMAIN p.toks
  BY DEF SelectSound
<1>4. ASSUME NEW k \in DOMAIN p.toks PROVE OutputRow(p.outs[k], p.toks[k])
  <2>1. /\ Change(p, k).amt \in Nat
        /\ p.req.kind = "transfer" => ToOther(p).amt \in Int
        /\ p.outs[k] = IF p.req.kind = "transfer" /\ k = 1 THEN <<Change(p, k), ToOther(p)>>
                                                           ELSE <<Change(p, k)>>
    BY ChosenOuts
  <2>2. Change(p, k).token = p.toks[k] /\ Change(p, k).owner = "user"
    BY DEF Change
  <2>3. ToOther(p).token = p.toks[1] /\ ToOther(p).owner = "other"
    BY DEF ToOther
  <2>4. "user" \in Owners /\ "other" \in Owners
    BY DEF Owners
  <2>5. CASE p.req.kind = "transfer" /\ k = 1
    BY <2>1, <2>2, <2>3, <2>4, <2>5, TwoOutputRow
  <2>6. CASE ~(p.req.kind = "transfer" /\ k = 1)
    BY <2>1, <2>2, <2>4, <2>6, OneOutputRow
  <2> QED
    BY <2>5, <2>6
<1>5. 1 \in DOMAIN p.toks
  BY <1>1
<1> QED
  BY <1>1, <1>2, <1>3, <1>4, <1>5 DEF Ledger

\* The rows of depositForOther and of a claim.
LEMMA OtherLedger ==
  ASSUME NEW cl, NEW ch, NEW p, Merged(cl, p), OtherSound(p)
  PROVE  Ledger(ch, p.toks, p.ins, p.outs, "user")
<1>1. /\ p.toks \in Seq(Tokens) /\ IsInjective(p.toks) /\ Len(p.toks) >= 1
      /\ p.chs \in Seq(Int) /\ Len(p.chs) = Len(p.toks)
  BY DEF Merged
<1>2. /\ DOMAIN p.ins = DOMAIN p.toks /\ DOMAIN p.outs = DOMAIN p.toks
      /\ \A k \in DOMAIN p.toks : p.ins[k] = <<Pad, Pad>>
      /\ \A k \in DOMAIN p.toks :
           p.outs[k] = << [owner |-> "other", token |-> p.toks[k], amt |-> p.chs[k]] >>
  BY DEF OtherSound
<1>3. \A k \in DOMAIN p.toks : InputRow(ch, p.ins[k], p.toks[k], "user")
  BY <1>2, EmptySupply, FilledInput
<1>4. ASSUME NEW k \in DOMAIN p.toks PROVE OutputRow(p.outs[k], p.toks[k])
  <2> DEFINE x == [owner |-> "other", token |-> p.toks[k], amt |-> p.chs[k]]
  <2>1. x.token = p.toks[k] /\ x.owner = "other" /\ x.owner \in Owners /\ x.amt \in Int
    BY <1>1 DEF Owners
  <2>2. p.outs[k] = <<x>>
    BY <1>2
  <2> HIDE DEF x
  <2> QED
    BY <2>1, <2>2, OneOutputRow
<1>5. 1 \in DOMAIN p.toks
  BY <1>1
<1> QED
  BY <1>1, <1>2, <1>3, <1>4, <1>5 DEF Ledger

-----------------------------------------------------------------------------
LEMMA RequestFacts ==
  ASSUME NEW cl \in Clients, NEW r \in cl.requests
  PROVE  /\ r.kind \in Kinds /\ r.toks \in Seq(Tokens) /\ IsInjective(r.toks) /\ r.chs \in Seq(Int)
         /\ PaysFee(r.kind) => r.feeTok \in Tokens
         /\ r.kind = "claim" => r.source \in {1} \X GenesisPlaces(cl.utxos)
         /\ r.kind \in {"swap", "deposit", "depositForOther"} => Len(r.toks) = Len(r.chs)
         /\ cl.net = "solana" /\ r.kind = "swap" /\ Len(r.chs) = 2 => r.chs[2] >= 0
BY TransactAssumption

\* What goes in and comes out of a claim.
ClaimSource(ch, p) == [id |-> p.req.source, amt |-> OutputOf(ch, p.req.source).amt]
ClaimRest(ch, p)   == [owner |-> "claimable", token |-> p.toks[1], amt |-> 0]
ClaimGets(ch, p)   == [owner |-> "user", token |-> p.toks[1],
                       amt |-> OutputOf(ch, p.req.source).amt - p.fee.flat]

LEMMA ClaimRows ==
  ASSUME NEW ch, GoodChain(ch), NEW p, ClaimSound(ch, p)
  PROVE  /\ p.ins = << <<ClaimSource(ch, p), Pad>> >>
         /\ p.outs = << <<ClaimRest(ch, p), ClaimGets(ch, p)>> >>
         /\ InputRow(ch, <<ClaimSource(ch, p), Pad>>, p.toks[1], "claimable")
         /\ TotalAmount(<<ClaimSource(ch, p), Pad>>) = OutputOf(ch, p.req.source).amt
         /\ OutputOf(ch, p.req.source).amt \in Nat
         /\ ClaimGets(ch, p).amt \in Nat /\ p.fee.flat \in Int
<1> DEFINE id == p.req.source
           src == OutputOf(ch, id).amt
           u == ClaimSource(ch, p)
           row == <<u, Pad>>
           gets == ClaimGets(ch, p)
<1>1. /\ id \in UtxosOf(ch, 1) /\ OutputOf(ch, id).owner = "claimable"
      /\ OutputOf(ch, id).token = p.toks[1]
      /\ p.fee.flat \in Int /\ src > p.fee.flat
      /\ p.ins = <<row>>
      /\ p.outs = << OutputUtxoProcessing(row, p.toks[1], -src, "claimable", <<gets>>) >>
  BY DEF ClaimSound, Claimable, ClaimSource, ClaimGets
<1>2. id \in UtxosOf(ch, Len(ch))
  <2>1. 1 \in Int /\ Len(ch) \in Int /\ 1 <= Len(ch)
    BY DEF GoodChain
  <2> QED
    BY <1>1, <2>1, UtxosMono
<1>3. u = [id |-> id, amt |-> OutputOf(ch, id).amt] /\ u.amt = src
  BY DEF ClaimSource
<1>4. OutputOf(ch, id).owner # "other"
  BY <1>1
<1> HIDE DEF id, u
<1>5. /\ Supply(ch, {u}, OutputOf(ch, id).token, OutputOf(ch, id).owner) /\ Filled(<<u, Pad>>, {u})
      /\ TotalAmount(<<u, Pad>>) = u.amt /\ u.amt \in Nat /\ u.amt > 0
  BY <1>2, <1>3, <1>4, SingleSupply
<1>6. InputRow(ch, row, p.toks[1], "claimable")
  BY <1>1, <1>5, FilledInput
<1> DEFINE x == [owner |-> "claimable", token |-> p.toks[1], amt |-> TotalAmount(row) + -src]
<1>7. TotalAmount(row) = src /\ src \in Nat
  BY <1>3, <1>5
<1> HIDE DEF row, gets
<1>8. ~InsufficientFunds(row, -src)
  BY <1>7 DEF InsufficientFunds
<1>9. OutputUtxoProcessing(row, p.toks[1], -src, "claimable", <<gets>>) = <<x, gets>>
  <2>1. TotalAmount(row) \in Nat /\ -src \in Int
    BY <1>7
  <2> QED
    BY <1>8, <2>1, Processed
<1>10. x = ClaimRest(ch, p)
  <2>1. TotalAmount(row) + -src = 0
    BY <1>7
  <2> QED
    BY <2>1 DEF ClaimRest
<1>11. gets.amt = src - p.fee.flat
  BY DEF gets, ClaimGets, id
<1>12. gets.amt \in Nat
  BY <1>1, <1>7, <1>11
<1> QED
  BY <1>1, <1>6, <1>7, <1>9, <1>10, <1>12 DEF id, u, row, gets

LEMMA ClaimLedger ==
  ASSUME NEW cl \in Clients, NEW ch, GoodChain(ch), NEW p, p.req \in cl.requests, ClaimSound(ch, p)
  PROVE  Ledger(ch, p.toks, p.ins, p.outs, "claimable")
<1>1. p.toks \in Seq(Tokens) /\ IsInjective(p.toks) /\ Len(p.toks) = 1
  BY RequestFacts DEF ClaimSound, Claimable
<1> DEFINE inRow == <<ClaimSource(ch, p), Pad>>
           outRow == <<ClaimRest(ch, p), ClaimGets(ch, p)>>
<1>2. /\ p.ins = <<inRow>> /\ p.outs = <<outRow>>
      /\ InputRow(ch, inRow, p.toks[1], "claimable")
      /\ ClaimGets(ch, p).amt \in Nat
  BY ClaimRows
<1>3. OutputRow(outRow, p.toks[1])
  <2>1. /\ ClaimRest(ch, p).token = p.toks[1] /\ ClaimRest(ch, p).owner \in Owners
        /\ ClaimRest(ch, p).amt = 0
    BY DEF ClaimRest, Owners
  <2>2. ClaimGets(ch, p).token = p.toks[1] /\ ClaimGets(ch, p).owner \in Owners
    BY DEF ClaimGets, Owners
  <2> QED
    BY <1>2, <2>1, <2>2, TwoOutputRow
<1> HIDE DEF inRow, outRow
<1>5. DOMAIN p.toks = {1} /\ DOMAIN p.ins = {1} /\ DOMAIN p.outs = {1} /\ p.ins[1] = inRow /\ p.outs[1] = outRow
  BY <1>1, <1>2
<1> QED
  BY <1>1, <1>2, <1>3, <1>5 DEF Ledger

\* Whatever the flow is.
LEMMA SoundLedger ==
  ASSUME NEW cl \in Clients, NEW ch, GoodChain(ch), NEW p, Sound(cl, ch, p)
  PROVE  Ledger(ch, p.toks, p.ins, p.outs, PayingOwner(p))
<1>1. p.req \in cl.requests /\ p.req.kind \in Kinds
  BY RequestFacts DEF Sound
<1>2. CASE p.req.kind = "claim"
  BY <1>1, <1>2, ClaimLedger DEF Sound, PayingOwner
<1>3. CASE p.req.kind = "depositForOther"
  BY <1>3, OtherLedger DEF Sound, PayingOwner
<1>4. CASE ChoosesUtxos(p)
  <2>1. p.req.kind # "claim"
    BY <1>4 DEF ChoosesUtxos
  <2>2. Merged(cl, p) /\ SelectSound(ch, p)
    BY <1>4, <2>1 DEF Sound
  <2> QED
    BY <2>1, <2>2, SelectLedger DEF PayingOwner
<1> QED
  BY <1>1, <1>2, <1>3, <1>4 DEF Kinds, ChoosesUtxos

-----------------------------------------------------------------------------
(***************************************************************************)
(* The shape of the rows.                                                  *)
(***************************************************************************)
LEMMA EvenRows ==
  ASSUME NEW n \in Nat, n >= 1, NEW m, NEW k, NEW circuits, <<n, m, k>> \in circuits,
         NEW ins, Len(ins) = n, DOMAIN ins = 1 .. n, NEW outs,
         \A i \in 1 .. n : Len(ins[i]) = m /\ Len(outs[i]) = k
  PROVE  HasCircuit(circuits, ins, outs)
BY DEF HasCircuit

\* The calls that have no circuit.
NoCircuit(p) == (p.req.kind = "transfer" /\ Len(p.toks) > 1) \/ Len(p.toks) > 5

LEMMA InCircuits ==
  ASSUME NEW m \in {MinInput, MaxInput}, NEW n \in Nat, n >= 1
  PROVE  /\ n <= 5 => <<n, m, 1>> \in EvmCircuits
         /\ n = 1 => <<n, m, 2>> \in EvmCircuits /\ <<n, m, 2>> \in SolanaCircuits
         /\ n <= 2 => <<n, m, 1>> \in SolanaCircuits
<1>1. n <= 5 => n \in 1 .. 5
  OBVIOUS
<1>2. n <= 2 => n \in {1, 2}
  OBVIOUS
<1>3. n = 1 => n \in 1 .. 2
  OBVIOUS
<1> QED
  BY <1>1, <1>2, <1>3 DEF EvmCircuits, SolanaCircuits

LEMMA PaddedLen ==
  ASSUME NEW n \in Nat, NEW toks, DOMAIN toks = 1 .. n, NEW ch, NEW view,
         NEW rows, rows = RowsOf(ch, toks, view)
  PROVE  Len(AddPaddingToUtxos(rows)) = n
<1>1. Len(rows) = n /\ DOMAIN rows = 1 .. n
  BY DEF RowsOf
<1>2. CASE AllMinimal(rows)
  BY <1>1, <1>2 DEF AddPaddingToUtxos
<1>3. CASE ~AllMinimal(rows)
  <2>1. Len([i \in 1 .. n |-> IF Len(rows[i]) > MaxInput THEN SubSeq(rows[i], 1, MaxInput)
                                                         ELSE PadTo(rows[i], MaxInput)]) = n
    OBVIOUS
  <2> QED
    BY <1>1, <1>3, <2>1 DEF AddPaddingToUtxos
<1> QED
  BY <1>2, <1>3

\* As many rows as tokens, one number of inputs; only a transfer and a claim
\* have a second output, in their first row.
Outputs(p, i) == IF p.req.kind \in {"transfer", "claim"} /\ i = 1 THEN 2 ELSE 1

Shaped(p, n, m) ==
  /\ n \in Nat /\ n >= 1 /\ m \in {MinInput, MaxInput}
  /\ Len(p.toks) = n /\ Len(p.ins) = n /\ DOMAIN p.ins = 1 .. n
  /\ p.req.kind = "claim" => n = 1
  /\ \A i \in 1 .. n : Len(p.ins[i]) = m /\ Len(p.outs[i]) = Outputs(p, i)

LEMMA SoundRows ==
  ASSUME NEW cl \in Clients, NEW ch, GoodChain(ch), NEW p, Sound(cl, ch, p)
  PROVE  \E n, m : Shaped(p, n, m)
<1>1. p.req \in cl.requests /\ p.req.kind \in Kinds
  BY RequestFacts DEF Sound
<1> DEFINE n == Len(p.toks)
<1>2. CASE p.req.kind = "claim"
  <2>1. ClaimSound(ch, p) /\ Len(p.toks) = 1
    BY <1>2 DEF Sound, ClaimSound, Claimable
  <2> DEFINE inRow == <<ClaimSource(ch, p), Pad>>
             outRow == <<ClaimRest(ch, p), ClaimGets(ch, p)>>
  <2>2. p.ins = <<inRow>> /\ p.outs = <<outRow>>
    BY <2>1, ClaimRows
  <2>3. Len(inRow) = 2 /\ Len(outRow) = 2
    OBVIOUS
  <2> HIDE DEF inRow, outRow
  <2>4. Len(p.ins) = 1 /\ DOMAIN p.ins = 1 .. 1 /\ p.ins[1] = inRow /\ p.outs[1] = outRow
    BY <2>2
  <2>5. MinInput = 2 /\ Outputs(p, 1) = 2
    BY <1>2 DEF MinInput, Outputs
  <2>6. \A i \in 1 .. 1 : Len(p.ins[i]) = MinInput /\ Len(p.outs[i]) = Outputs(p, i)
    <3>1. \A i \in 1 .. 1 : i = 1
      OBVIOUS
    <3>2. Len(p.ins[1]) = MinInput /\ Len(p.outs[1]) = Outputs(p, 1)
      BY <2>3, <2>4, <2>5
    <3> QED
      BY <3>1, <3>2
  <2>7. Shaped(p, 1, MinInput)
    BY <1>2, <2>1, <2>4, <2>6 DEF Shaped
  <2> QED
    BY <2>7
<1>3. CASE p.req.kind # "claim"
  <2>1. Merged(cl, p)
    BY <1>3 DEF Sound
  <2>2. n \in Nat /\ n >= 1 /\ DOMAIN p.toks = 1 .. n /\ p.toks \in Seq(Tokens)
    BY <2>1 DEF Merged
  <2>3. CASE p.req.kind = "depositForOther"
    <3>1. OtherSound(p)
      BY <2>3 DEF Sound
    <3>2. /\ DOMAIN p.ins = 1 .. n
          /\ \A i \in 1 .. n : p.ins[i] = <<Pad, Pad>>
          /\ \A i \in 1 .. n :
               p.outs[i] = << [owner |-> "other", token |-> p.toks[i], amt |-> p.chs[i]] >>
      BY <2>2, <3>1 DEF OtherSound
    <3>3. Len(<<Pad, Pad>>) = MinInput
      BY DEF MinInput
    <3>4. \A i \in 1 .. n : Len(p.ins[i]) = MinInput /\ Len(p.outs[i]) = 1
      <4>1. \A x : Len(<<x>>) = 1
        OBVIOUS
      <4> QED
        BY <3>2, <3>3, <4>1
    <3>5. Len(p.ins) = n
      BY <2>2, <3>1 DEF OtherSound
    <3>6. \A i : Outputs(p, i) = 1
      BY <2>3 DEF Outputs
    <3>7. Shaped(p, n, MinInput)
      BY <2>2, <2>3, <3>2, <3>4, <3>5, <3>6 DEF Shaped
    <3> QED
      BY <3>7
  <2>4. CASE ChoosesUtxos(p)
    <3>1. SelectSound(ch, p)
      BY <2>4 DEF Sound
    <3>2. p.ins = AddPaddingToUtxos(RowsOf(ch, p.toks, p.view)) /\ Within(p.view, Len(ch))
      BY <3>1 DEF SelectSound
    <3>3. /\ DOMAIN p.ins = 1 .. n
          /\ \/ \A i \in 1 .. n : Len(p.ins[i]) = MinInput
             \/ \A i \in 1 .. n : Len(p.ins[i]) = MaxInput
      BY <2>2, <3>2, ChosenRows
    <3>4. Len(p.ins) = n
      BY <2>2, <3>2, PaddedLen
    <3>5. ASSUME NEW i \in 1 .. n
          PROVE  Len(p.outs[i]) = Outputs(p, i)
      <4>1. p.outs[i] = IF p.req.kind = "transfer" /\ i = 1 THEN <<Change(p, i), ToOther(p)>>
                                                             ELSE <<Change(p, i)>>
        BY <2>1, <2>2, <3>1, ChosenOuts
      <4>2. Outputs(p, i) = IF p.req.kind = "transfer" /\ i = 1 THEN 2 ELSE 1
        BY <1>3 DEF Outputs
      <4> QED
        BY <4>1, <4>2
    <3>6. Shaped(p, n, MinInput) \/ Shaped(p, n, MaxInput)
      BY <1>3, <2>2, <3>3, <3>4, <3>5 DEF Shaped
    <3> QED
      BY <3>6
  <2> QED
    BY <1>1, <1>3, <2>3, <2>4 DEF Kinds, ChoosesUtxos
<1> QED
  BY <1>2, <1>3

LEMMA SoundFits ==
  ASSUME NEW cl \in Clients, NEW ch, GoodChain(ch), NEW p, Sound(cl, ch, p)
  PROVE  /\ ~NoCircuit(p) => HasCircuit(EvmCircuits, p.ins, p.outs)
         /\ cl.net = "solana" => HasCircuit(SolanaCircuits, p.ins, p.outs)
<1>1. PICK n, m : Shaped(p, n, m)
  BY SoundRows
<1>2. n \in Nat /\ n >= 1 /\ m \in {MinInput, MaxInput} /\ Len(p.toks) = n
  BY <1>1 DEF Shaped
<1>3. ASSUME NEW k, NEW circuits, \A i \in 1 .. n : Outputs(p, i) = k, <<n, m, k>> \in circuits
      PROVE  HasCircuit(circuits, p.ins, p.outs)
  <2>1. /\ Len(p.ins) = n /\ DOMAIN p.ins = 1 .. n
        /\ \A i \in 1 .. n : Len(p.ins[i]) = m /\ Len(p.outs[i]) = k
    BY <1>1, <1>3 DEF Shaped
  <2> QED
    BY <1>2, <1>3, <2>1, EvenRows
<1>4. CASE p.req.kind \in {"transfer", "claim"}
  <2>1. n = 1 => \A i \in 1 .. n : Outputs(p, i) = 2
    BY <1>4 DEF Outputs
  <2>2. n = 1 => <<n, m, 2>> \in EvmCircuits /\ <<n, m, 2>> \in SolanaCircuits
    BY <1>2, InCircuits
  <2>3. ~NoCircuit(p) => n = 1
    BY <1>1, <1>2, <1>4 DEF NoCircuit, Shaped
  <2>4. cl.net = "solana" => n = 1
    BY <1>1, <1>2, <1>4 DEF Shaped, Sound, Merged, SolanaAmounts
  <2> QED
    BY <1>3, <2>1, <2>2, <2>3, <2>4
<1>5. CASE p.req.kind \notin {"transfer", "claim"}
  <2>1. \A i \in 1 .. n : Outputs(p, i) = 1
    BY <1>5 DEF Outputs
  <2>2. /\ n <= 5 => <<n, m, 1>> \in EvmCircuits
        /\ n <= 2 => <<n, m, 1>> \in SolanaCircuits
    BY <1>2, InCircuits
  <2>3. ~NoCircuit(p) => n <= 5
    BY <1>2 DEF NoCircuit
  <2>4. cl.net = "solana" => n <= 2
    BY <1>2, <1>5 DEF Sound, Merged, SolanaAmounts
  <2> QED
    BY <1>3, <2>1, <2>2, <2>3, <2>4
<1> QED
  BY <1>4, <1>5

-----------------------------------------------------------------------------
(***************************************************************************)
(* What a transaction moves, by flow.                                      *)
(***************************************************************************)
GainsAre(ch, i, p, t, user, other, claimable, pool) ==
  /\ Gain(ch, i, "user", t) = user
  /\ Gain(ch, i, "other", t) = other
  /\ Gain(ch, i, "claimable", t) = claimable
  /\ Pool(ch, i, p.toks, t) = pool

EntryOf(ch, i, p) == Entry(ch, i, p.toks, p.ins, p.outs, PayingOwner(p))

\* The change in a token, and in another.
LEMMA ChangeInToken ==
  ASSUME NEW cl, NEW p, Merged(cl, p), NEW k \in DOMAIN p.toks
  PROVE  ChangeIn(p, p.toks[k]) = p.chs[k] /\ p.chs[k] \in Int
<1>1. p.chs[k] \in Int
  BY DEF Merged
<1>2. {n \in DOMAIN p.toks : p.toks[n] = p.toks[k]} = {k}
  BY DEF Merged, IsInjective
<1>3. SumFunctionOnSet(p.chs, {k}) = p.chs[k]
  BY <1>1, SumSingle
<1> QED
  BY <1>1, <1>2, <1>3 DEF ChangeIn

\* A token that the call does not have.
LEMMA ChangeElsewhere ==
  ASSUME NEW p, NEW t, \A k \in DOMAIN p.toks : p.toks[k] # t
  PROVE  ChangeIn(p, t) = 0
<1>1. {n \in DOMAIN p.toks : p.toks[n] = t} = {}
  OBVIOUS
<1> QED
  BY <1>1, SumEmpty DEF ChangeIn

\* Withdraw, swap and deposit; and a transfer, with what its recipient gets.
LEMMA SelectGains ==
  ASSUME NEW cl, NEW ch, GoodChain(ch), NEW p, Merged(cl, p), SelectSound(ch, p),
         NEW i, EntryOf(ch, i, p), NEW t \in Tokens,
         NEW gets, gets = IF p.req.kind = "transfer" /\ t = p.toks[1] THEN -p.ask[1] ELSE 0
  PROVE  GainsAre(ch, i, p, t, ChangeIn(p, t), gets, 0, ChangeIn(p, t) + gets)
<1>0. PayingOwner(p) = "user"
  BY DEF PayingOwner, Merged
<1>1. CASE \A k \in DOMAIN p.toks : p.toks[k] # t
  <2>1. (\A o : Gain(ch, i, o, t) = 0) /\ Pool(ch, i, p.toks, t) = 0
    BY <1>1, GainElsewhere DEF EntryOf
  <2>2. ChangeIn(p, t) = 0
    BY <1>1, ChangeElsewhere
  <2>3. 1 \in DOMAIN p.toks
    BY DEF Merged
  <2>4. gets = 0
    BY <1>1, <2>3
  <2> QED
    BY <2>1, <2>2, <2>4 DEF GainsAre
<1>2. CASE \E k \in DOMAIN p.toks : p.toks[k] = t
  <2>1. PICK k \in DOMAIN p.toks : p.toks[k] = t
    BY <1>2
  <2>2. /\ \A o : Gain(ch, i, o, t)
                    = PartOf(p.outs[k], o) - IF o = "user" THEN TotalAmount(p.ins[k]) ELSE 0
        /\ Pool(ch, i, p.toks, t) = TotalAmount(p.outs[k]) - TotalAmount(p.ins[k])
    BY <1>0, <2>1, GainInToken DEF EntryOf
  <2>3. /\ Change(p, k).amt \in Nat /\ p.chs[k] \in Int /\ TotalAmount(p.ins[k]) \in Nat
        /\ p.req.kind = "transfer" => ToOther(p).amt \in Int
        /\ p.outs[k] = IF p.req.kind = "transfer" /\ k = 1 THEN <<Change(p, k), ToOther(p)>>
                                                           ELSE <<Change(p, k)>>
    BY ChosenOuts
  <2>4. ChangeIn(p, t) = p.chs[k]
    BY <2>1, ChangeInToken
  <2>5. k = 1 <=> t = p.toks[1]
    <3>1. 1 \in DOMAIN p.toks /\ IsInjective(p.toks)
      BY DEF Merged
    <3> QED
      BY <2>1, <3>1 DEF IsInjective
  <2>6. Change(p, k).owner = "user" /\ Change(p, k).amt = TotalAmount(p.ins[k]) + p.chs[k]
    BY DEF Change
  <2>7. ToOther(p).owner = "other" /\ ToOther(p).amt = -p.ask[1]
    BY DEF ToOther
  <2>8. CASE p.req.kind = "transfer" /\ k = 1
    <3>1. p.outs[k] = <<Change(p, k), ToOther(p)>> /\ gets = ToOther(p).amt /\ gets \in Int
      BY <2>3, <2>5, <2>7, <2>8
    <3>2. /\ TotalAmount(p.outs[k]) = Change(p, k).amt + gets
          /\ \A o : PartOf(p.outs[k], o) = IF "user" = o THEN Change(p, k).amt
                                           ELSE IF "other" = o THEN gets ELSE 0
      <4>1. Change(p, k).amt \in Int /\ ToOther(p).amt \in Int /\ Change(p, k).owner # ToOther(p).owner
        BY <2>3, <2>6, <2>7, <2>8
      <4>2. /\ TotalAmount(<<Change(p, k), ToOther(p)>>) = Change(p, k).amt + ToOther(p).amt
            /\ \A o : PartOf(<<Change(p, k), ToOther(p)>>, o) =
                        IF Change(p, k).owner = o THEN Change(p, k).amt
                        ELSE IF ToOther(p).owner = o THEN ToOther(p).amt ELSE 0
        BY <4>1, TwoOutputs
      <4> QED
        BY <2>6, <2>7, <3>1, <4>2
    <3>3. /\ PartOf(p.outs[k], "user") = Change(p, k).amt
          /\ PartOf(p.outs[k], "other") = gets /\ PartOf(p.outs[k], "claimable") = 0
      BY <3>2
    <3> QED
      BY <2>2, <2>3, <2>4, <2>6, <3>1, <3>2, <3>3 DEF GainsAre
  <2>9. CASE ~(p.req.kind = "transfer" /\ k = 1)
    <3>1. p.outs[k] = <<Change(p, k)>> /\ gets = 0
      BY <2>3, <2>5, <2>9
    <3>2. /\ TotalAmount(p.outs[k]) = Change(p, k).amt
          /\ \A o : PartOf(p.outs[k], o) = IF Change(p, k).owner = o THEN Change(p, k).amt ELSE 0
      <4>1. Change(p, k).amt \in Int
        BY <2>3
      <4>2. /\ TotalAmount(<<Change(p, k)>>) = Change(p, k).amt
            /\ \A o : PartOf(<<Change(p, k)>>, o) = IF Change(p, k).owner = o THEN Change(p, k).amt ELSE 0
        BY <4>1, OneOutput
      <4> QED
        BY <3>1, <4>2
    <3>3. /\ PartOf(p.outs[k], "user") = Change(p, k).amt
          /\ PartOf(p.outs[k], "other") = 0 /\ PartOf(p.outs[k], "claimable") = 0
      BY <2>6, <3>2
    <3> QED
      BY <2>2, <2>3, <2>4, <2>6, <3>1, <3>2, <3>3 DEF GainsAre
  <2> QED
    BY <2>8, <2>9
<1> QED
  BY <1>1, <1>2

\* What depositForOther and a claim move.
LEMMA OtherGains ==
  ASSUME NEW cl, NEW ch, NEW p, Merged(cl, p), OtherSound(p), NEW i, EntryOf(ch, i, p), NEW t \in Tokens
  PROVE  GainsAre(ch, i, p, t, 0, ChangeIn(p, t), 0, ChangeIn(p, t))
<1>0. PayingOwner(p) = "user"
  BY DEF PayingOwner, Merged
<1>1. CASE \A k \in DOMAIN p.toks : p.toks[k] # t
  <2>1. (\A o : Gain(ch, i, o, t) = 0) /\ Pool(ch, i, p.toks, t) = 0
    BY <1>1, GainElsewhere DEF EntryOf
  <2>2. ChangeIn(p, t) = 0
    BY <1>1, ChangeElsewhere
  <2> QED
    BY <2>1, <2>2 DEF GainsAre
<1>2. CASE \E k \in DOMAIN p.toks : p.toks[k] = t
  <2>1. PICK k \in DOMAIN p.toks : p.toks[k] = t
    BY <1>2
  <2> DEFINE x == [owner |-> "other", token |-> p.toks[k], amt |-> p.chs[k]]
  <2>2. /\ \A o : Gain(ch, i, o, t)
                    = PartOf(p.outs[k], o) - IF o = "user" THEN TotalAmount(p.ins[k]) ELSE 0
        /\ Pool(ch, i, p.toks, t) = TotalAmount(p.outs[k]) - TotalAmount(p.ins[k])
    BY <1>0, <2>1, GainInToken DEF EntryOf
  <2>3. p.ins[k] = <<Pad, Pad>> /\ p.outs[k] = <<x>>
    BY DEF OtherSound
  <2>4. ChangeIn(p, t) = p.chs[k] /\ p.chs[k] \in Int
    BY <2>1, ChangeInToken
  <2>5. x.owner = "other" /\ x.amt = p.chs[k]
    OBVIOUS
  <2>6. TotalAmount(<<Pad, Pad>>) = 0
    <3> DEFINE row == <<Pad, Pad>>
    <3>1. DOMAIN row = {1, 2} /\ row[1] = Pad /\ row[2] = Pad
      OBVIOUS
    <3>2. Pad.amt = 0
      BY DEF Pad
    <3>3. IsFiniteSet(DOMAIN row)
      <4>1. Filled(row, {}) /\ Supply(ch, {}, t, "user")
        BY EmptySupply
      <4>2. Stock({})
        BY <4>1 DEF Supply
      <4> HIDE DEF row
      <4> QED
        BY <4>1, <4>2, RowPlaces
    <3> HIDE DEF row
    <3> DEFINE f == [j \in DOMAIN row |-> row[j].amt]
    <3>4. \A j \in DOMAIN row : f[j] = 0
      BY <3>1, <3>2
    <3>6. TotalAmount(row) = SumFunctionOnSet(f, DOMAIN row)
      BY DEF TotalAmount
    <3> HIDE DEF f
    <3>5. SumFunctionOnSet(f, DOMAIN row) = 0
      BY <3>3, <3>4, SumZero
    <3> QED
      BY <3>5, <3>6 DEF row
  <2> HIDE DEF x
  <2>7. /\ TotalAmount(<<x>>) = x.amt
        /\ \A o : PartOf(<<x>>, o) = IF x.owner = o THEN x.amt ELSE 0
    BY <2>4, <2>5, OneOutput
  <2>8. /\ PartOf(<<x>>, "user") = 0 /\ PartOf(<<x>>, "other") = p.chs[k]
        /\ PartOf(<<x>>, "claimable") = 0 /\ TotalAmount(<<x>>) = p.chs[k]
    BY <2>5, <2>7
  <2> QED
    BY <2>2, <2>3, <2>4, <2>6, <2>8 DEF GainsAre
<1> QED
  BY <1>1, <1>2

LEMMA ClaimGains ==
  ASSUME NEW ch, GoodChain(ch), NEW p, ClaimSound(ch, p), p.req.kind = "claim",
         NEW i, EntryOf(ch, i, p), NEW t,
         NEW src, src = IF p.toks[1] = t THEN OutputOf(ch, p.req.source).amt ELSE 0
  PROVE  GainsAre(ch, i, p, t, src - FeeIn(p, t), 0, -src, -FeeIn(p, t))
<1>0. PayingOwner(p) = "claimable" /\ p.toks \in Seq(Tokens) /\ Len(p.toks) = 1
  BY DEF PayingOwner, ClaimSound, Claimable, EntryOf, Entry, Ledger
<1>3. DOMAIN p.toks = {1} /\ p.fee.token = p.toks[1]
  BY <1>0 DEF ClaimSound
<1>1. CASE p.toks[1] # t
  <2>1. \A k \in DOMAIN p.toks : p.toks[k] # t
    BY <1>1, <1>3
  <2>2. (\A o : Gain(ch, i, o, t) = 0) /\ Pool(ch, i, p.toks, t) = 0
    BY <2>1, GainElsewhere DEF EntryOf
  <2>3. src = 0 /\ FeeIn(p, t) = 0
    BY <1>1, <1>3 DEF FeeIn
  <2>4. src - FeeIn(p, t) = 0 /\ -src = 0 /\ -FeeIn(p, t) = 0
    <3>1. \A a \in Int : -a = 0 - a
      OBVIOUS
    <3>2. src \in Int /\ FeeIn(p, t) \in Int /\ 0 - 0 = 0
      BY <2>3
    <3> QED
      BY <2>3, <3>1, <3>2, Zenon
  <2> QED
    BY <2>2, <2>4 DEF GainsAre
<1>2. CASE p.toks[1] = t
  <2> DEFINE inRow == <<ClaimSource(ch, p), Pad>>
             x == ClaimRest(ch, p)
             y == ClaimGets(ch, p)
             outRow == <<x, y>>
  <2>1. /\ p.ins = <<inRow>> /\ p.outs = <<outRow>>
        /\ TotalAmount(inRow) = OutputOf(ch, p.req.source).amt
        /\ OutputOf(ch, p.req.source).amt \in Nat
        /\ y.amt \in Nat /\ p.fee.flat \in Int
    BY ClaimRows
  <2>2. p.ins[1] = inRow /\ p.outs[1] = outRow /\ 1 \in DOMAIN p.toks
    BY <1>3, <2>1
  <2>3. /\ x.owner = "claimable" /\ x.amt = 0 /\ y.owner = "user"
        /\ y.amt = OutputOf(ch, p.req.source).amt - p.fee.flat
    BY DEF ClaimRest, ClaimGets
  <2>4. FeeIn(p, t) = p.fee.flat /\ src = OutputOf(ch, p.req.source).amt
    BY <1>2, <1>3 DEF FeeIn
  <2> HIDE DEF x, y, inRow
  <2>5. /\ TotalAmount(outRow) = x.amt + y.amt
        /\ \A o : PartOf(outRow, o) = IF x.owner = o THEN x.amt ELSE IF y.owner = o THEN y.amt ELSE 0
    BY <2>1, <2>3, TwoOutputs
  <2> HIDE DEF outRow
  <2>6. /\ \A o : Gain(ch, i, o, p.toks[1])
                    = PartOf(p.outs[1], o) - IF o = PayingOwner(p) THEN TotalAmount(p.ins[1]) ELSE 0
        /\ Pool(ch, i, p.toks, p.toks[1]) = TotalAmount(p.outs[1]) - TotalAmount(p.ins[1])
    BY <2>2, GainInToken DEF EntryOf
  <2>7. /\ PartOf(outRow, "user") = y.amt /\ PartOf(outRow, "other") = 0
        /\ PartOf(outRow, "claimable") = 0 /\ TotalAmount(outRow) = y.amt
    BY <2>1, <2>3, <2>5
  <2>8. /\ Gain(ch, i, "user", t) = y.amt - 0
        /\ Gain(ch, i, "other", t) = 0 - 0
        /\ Gain(ch, i, "claimable", t) = 0 - src
        /\ Pool(ch, i, p.toks, t) = y.amt - src
    BY <1>0, <1>2, <2>1, <2>2, <2>4, <2>6, <2>7
  <2> QED
    BY <2>1, <2>3, <2>4, <2>8 DEF GainsAre
<1> QED
  BY <1>1, <1>2

-----------------------------------------------------------------------------
(***************************************************************************)
(* The invariant.                                                          *)
(***************************************************************************)
Labels == {"idle", "count", "fee", "select", "root", "prove", "approve", "reset", "approving",
           "send", "sent", "done", "failed"}

\* Where the inputs have been chosen.
Later == {"root", "prove", "approve", "reset", "approving", "send", "sent", "done"}

\* A call whose fee is not known yet.
Begun(cl, ch, p) ==
  /\ p.req \in cl.requests
  /\ p.toks = p.req.toks /\ p.chs = p.ask /\ p.ask \in Seq(Int)
  /\ p.req.kind = "claim" => Claimable(ch, p)
  /\ p.req.kind # "claim" => Len(p.ask) = Len(p.toks) /\ Len(p.ask) >= 1
  /\ cl.net = "solana" /\ p.req.kind # "claim" =>
       p.ask = p.req.chs /\ Len(p.toks) = IF p.req.kind = "swap" THEN 2 ELSE 1

\* No six UTXOs of some token pay.
Unpayable(ch, p) ==
  \E i \in DOMAIN p.toks :
    \A S \in SUBSET StockOf(ch, p.view, p.toks[i]) :
      Cardinality(S) <= MaxInput => SumFunctionOnSet([u \in S |-> u.amt], S) + p.chs[i] < 0

\* A call that was refused, with the reason.
Excused(ch, p) ==
  /\ p.rootFrom = "local" => p.err # "proof"
  /\ p.err # "amounts"
  /\ p.err = "circuit" => NoCircuit(p)
  /\ p.err \in {"funds", "limit"} /\ p.req.kind # "claim" => Unpayable(ch, p)

\* Call c in a state: where it is, its transaction and its variables.
CallOK(cl, ch, label, n, p) ==
  /\ label \in Labels /\ n \in {"none", "pending", "executed", "rejected"}
  /\ IsPlan(p)
  /\ Within(p.view, Len(ch)) /\ p.root \in 0 .. Len(ch)
  /\ n # "none" => label \in {"sent", "done", "failed"}
  /\ label \in {"count", "fee"} => Begun(cl, ch, p)
  /\ label = "fee" /\ cl.net = "evm" => PaysFee(p.req.kind)
  /\ label = "select" => Merged(cl, p)
  /\ label \in Later \/ n # "none" => Sound(cl, ch, p)
  /\ label = "prove" /\ p.rootFrom = "local" => BuildInNullifiers(p.ins) \in SUBSET UtxosOf(ch, p.root)
  /\ label # "failed" => p.err = "none"
  /\ Excused(ch, p)

\* Every transaction but the first is that of a call.
Recorded(e, n, p) ==
  /\ n = "executed"
  /\ e.ins = BuildInNullifiers(p.ins)
  /\ e.outs = BuildOutCommitments(p.outs)
  /\ e.changes = CalcAmountChanges(p.ins, p.outs)

\* The chain: what Recorded says of every transaction.
History(cl, ch, nets, plans) ==
  /\ GoodChain(ch) /\ DOMAIN ch[1].outs = GenesisPlaces(cl.utxos)
  /\ \A i \in 2 .. Len(ch) :
       ch[i].call \in Calls /\ Recorded(ch[i], nets[ch[i].call], plans[ch[i].call])

\* The domains of the variables, and copies that are prefixes of the chain.
Shape ==
  /\ client \in Clients
  /\ DOMAIN pc = Calls /\ DOMAIN plan = Calls /\ DOMAIN net = Calls
  /\ DOMAIN seen = {"outs", "nulls", "tree"}
  /\ \A x \in DOMAIN seen : seen[x] \in 1 .. Len(chain)

IInv ==
  /\ Shape
  /\ History(client, chain, net, plan)
  /\ \A c \in Calls : CallOK(client, chain, pc[c], net[c], plan[c])

-----------------------------------------------------------------------------
\* Plans that differ in some variables.
LEMMA PlanErr ==
  ASSUME NEW p, IsPlan(p), NEW e, NEW q, q = [p EXCEPT !.err = e]
  PROVE  /\ IsPlan(q) /\ q.err = e
         /\ q.req = p.req /\ q.ask = p.ask /\ q.toks = p.toks /\ q.chs = p.chs /\ q.fee = p.fee
         /\ q.view = p.view /\ q.ins = p.ins /\ q.outs = p.outs /\ q.root = p.root
         /\ q.rootFrom = p.rootFrom /\ q.approved = p.approved
BY DEF IsPlan

LEMMA PlanRoot ==
  ASSUME NEW p, IsPlan(p), NEW k, NEW f, NEW q, q = [p EXCEPT !.root = k, !.rootFrom = f]
  PROVE  /\ IsPlan(q) /\ q.root = k /\ q.rootFrom = f
         /\ q.req = p.req /\ q.ask = p.ask /\ q.toks = p.toks /\ q.chs = p.chs /\ q.fee = p.fee
         /\ q.view = p.view /\ q.ins = p.ins /\ q.outs = p.outs
         /\ q.approved = p.approved /\ q.err = p.err
BY DEF IsPlan

LEMMA PlanApproved ==
  ASSUME NEW p, IsPlan(p), NEW k, NEW q, q = [p EXCEPT !.approved = k]
  PROVE  /\ IsPlan(q) /\ q.approved = k
         /\ q.req = p.req /\ q.ask = p.ask /\ q.toks = p.toks /\ q.chs = p.chs /\ q.fee = p.fee
         /\ q.view = p.view /\ q.ins = p.ins /\ q.outs = p.outs /\ q.root = p.root
         /\ q.rootFrom = p.rootFrom /\ q.err = p.err
BY DEF IsPlan

LEMMA PlanView ==
  ASSUME NEW p, IsPlan(p), NEW v, NEW q, q = [p EXCEPT !.view = v]
  PROVE  /\ IsPlan(q) /\ q.view = v
         /\ q.req = p.req /\ q.ask = p.ask /\ q.toks = p.toks /\ q.chs = p.chs /\ q.fee = p.fee
         /\ q.ins = p.ins /\ q.outs = p.outs /\ q.root = p.root
         /\ q.rootFrom = p.rootFrom /\ q.approved = p.approved /\ q.err = p.err
BY DEF IsPlan

LEMMA PlanRows ==
  ASSUME NEW p, IsPlan(p), NEW a, NEW b, NEW q, q = [p EXCEPT !.ins = a, !.outs = b]
  PROVE  /\ IsPlan(q) /\ q.ins = a /\ q.outs = b
         /\ q.req = p.req /\ q.ask = p.ask /\ q.toks = p.toks /\ q.chs = p.chs /\ q.fee = p.fee
         /\ q.view = p.view /\ q.root = p.root
         /\ q.rootFrom = p.rootFrom /\ q.approved = p.approved /\ q.err = p.err
BY DEF IsPlan

LEMMA PlanFee ==
  ASSUME NEW p, IsPlan(p), NEW f, NEW ts, NEW cs, NEW q,
         q = [p EXCEPT !.fee = f, !.toks = ts, !.chs = cs]
  PROVE  /\ IsPlan(q) /\ q.fee = f /\ q.toks = ts /\ q.chs = cs
         /\ q.req = p.req /\ q.ask = p.ask
         /\ q.view = p.view /\ q.ins = p.ins /\ q.outs = p.outs /\ q.root = p.root
         /\ q.rootFrom = p.rootFrom /\ q.approved = p.approved /\ q.err = p.err
BY DEF IsPlan

LEMMA PlanCharge ==
  ASSUME NEW p, IsPlan(p), NEW i, NEW amount, NEW q, q = Charge(p, i, amount)
  PROVE  /\ IsPlan(q) /\ q.fee = [token |-> p.toks[i], flat |-> amount, rate |-> 0]
         /\ q.chs = [p.chs EXCEPT ![i] = @ - amount]
         /\ q.req = p.req /\ q.ask = p.ask /\ q.toks = p.toks
         /\ q.view = p.view /\ q.ins = p.ins /\ q.outs = p.outs /\ q.root = p.root
         /\ q.rootFrom = p.rootFrom /\ q.approved = p.approved /\ q.err = p.err
BY DEF IsPlan, Charge

LEMMA PlanClaim ==
  ASSUME NEW p, IsPlan(p), NEW f, NEW cs, NEW a, NEW b, NEW q,
         q = [p EXCEPT !.fee = f, !.chs = cs, !.ins = a, !.outs = b]
  PROVE  /\ IsPlan(q) /\ q.fee = f /\ q.chs = cs /\ q.ins = a /\ q.outs = b
         /\ q.req = p.req /\ q.ask = p.ask /\ q.toks = p.toks
         /\ q.view = p.view /\ q.root = p.root
         /\ q.rootFrom = p.rootFrom /\ q.approved = p.approved /\ q.err = p.err
BY DEF IsPlan

LEMMA PlanBegin ==
  ASSUME NEW r, NEW ask, NEW q,
         q = [NoPlan EXCEPT !.req = r, !.ask = ask, !.toks = r.toks, !.chs = ask]
  PROVE  /\ IsPlan(q) /\ q.req = r /\ q.ask = ask /\ q.toks = r.toks /\ q.chs = ask
         /\ q.fee = ZeroFee("none") /\ q.view = [outs |-> 0, nulls |-> 0] /\ q.root = 0
         /\ q.rootFrom = "none" /\ q.approved = 0 /\ q.err = "none"
BY DEF IsPlan, NoPlan

-----------------------------------------------------------------------------
(***************************************************************************)
(* What is known of a call stays true while the chain grows.               *)
(***************************************************************************)
LEMMA ClaimableGrows ==
  ASSUME NEW ch, NEW ch2, Grown(ch, ch2), Len(ch) >= 1, NEW p, Claimable(ch, p)
  PROVE  Claimable(ch2, p) /\ OutputOf(ch2, p.req.source) = OutputOf(ch, p.req.source)
<1>1. 1 \in 0 .. Len(ch) /\ Len(ch) \in Int /\ 1 <= Len(ch)
  BY DEF Grown
<1>2. UtxosOf(ch2, 1) = UtxosOf(ch, 1)
  BY <1>1, GrownSame
<1>3. UtxosOf(ch, 1) \in SUBSET UtxosOf(ch, Len(ch))
  BY <1>1, UtxosMono
<1>4. OutputOf(ch2, p.req.source) = OutputOf(ch, p.req.source)
  BY <1>3, GrownSame DEF Claimable
<1> QED
  BY <1>2, <1>4 DEF Claimable

LEMMA RowsGrow ==
  ASSUME NEW ch, NEW ch2, Grown(ch, ch2), NEW view, Within(view, Len(ch)), NEW toks
  PROVE  RowsOf(ch2, toks, view) = RowsOf(ch, toks, view)
<1>1. \A t : StockOf(ch2, view, t) = StockOf(ch, view, t)
  BY GrownStock
<1> QED
  BY <1>1 DEF RowsOf

LEMMA WithinGrows ==
  ASSUME NEW ch, NEW ch2, Grown(ch, ch2), NEW view, Within(view, Len(ch))
  PROVE  Within(view, Len(ch2))
BY DEF Within, Grown

\* Nothing that is known of a call is lost when the chain grows.
LEMMA SoundGrows ==
  ASSUME NEW ch, NEW ch2, Grown(ch, ch2), Len(ch) >= 1, NEW cl, NEW p, Sound(cl, ch, p)
  PROVE  Sound(cl, ch2, p)
<1>1. ASSUME p.req.kind = "claim"
      PROVE  ClaimSound(ch2, p)
  <2>1. ClaimSound(ch, p) /\ Claimable(ch, p)
    BY <1>1 DEF Sound, ClaimSound
  <2>2. Claimable(ch2, p) /\ OutputOf(ch2, p.req.source) = OutputOf(ch, p.req.source)
    BY <2>1, ClaimableGrows
  <2> QED
    BY <2>1, <2>2 DEF ClaimSound
<1>2. ASSUME ChoosesUtxos(p)
      PROVE  SelectSound(ch2, p)
  <2>1. SelectSound(ch, p) /\ Within(p.view, Len(ch))
    BY <1>2 DEF Sound, SelectSound
  <2>2. RowsOf(ch2, p.toks, p.view) = RowsOf(ch, p.toks, p.view) /\ Within(p.view, Len(ch2))
    BY <2>1, RowsGrow, WithinGrows
  <2> QED
    BY <2>1, <2>2 DEF SelectSound
<1> QED
  BY <1>1, <1>2 DEF Sound

LEMMA CallGrows ==
  ASSUME NEW ch, NEW ch2, Grown(ch, ch2), Len(ch) >= 1, NEW cl, NEW label, NEW n, NEW p,
         CallOK(cl, ch, label, n, p)
  PROVE  CallOK(cl, ch2, label, n, p)
<1>1. Within(p.view, Len(ch)) /\ p.root \in 0 .. Len(ch)
  BY DEF CallOK
<1>2. Within(p.view, Len(ch2)) /\ p.root \in 0 .. Len(ch2)
  BY <1>1, WithinGrows DEF Grown
<1>3. Begun(cl, ch, p) => Begun(cl, ch2, p)
  BY ClaimableGrows DEF Begun
<1>4. Sound(cl, ch, p) => Sound(cl, ch2, p)
  BY SoundGrows
<1>5. UtxosOf(ch2, p.root) = UtxosOf(ch, p.root)
  BY <1>1, GrownSame
<1>6. Unpayable(ch, p) => Unpayable(ch2, p)
  <2>1. \A t : StockOf(ch2, p.view, t) = StockOf(ch, p.view, t)
    BY <1>1, GrownStock
  <2> QED
    BY <2>1 DEF Unpayable
<1>7. Excused(ch, p) => Excused(ch2, p)
  BY <1>6 DEF Excused
<1> QED
  BY <1>2, <1>3, <1>4, <1>5, <1>7 DEF CallOK

\* An error ends a call, and what it sent stays as it was.
LEMMA ErrSound ==
  ASSUME NEW cl, NEW ch, NEW p, NEW q,
         q.req = p.req, q.ask = p.ask, q.toks = p.toks, q.chs = p.chs, q.fee = p.fee,
         q.view = p.view, q.ins = p.ins, q.outs = p.outs
  PROVE  Sound(cl, ch, q) <=> Sound(cl, ch, p)
<1>1. Merged(cl, q) <=> Merged(cl, p)
  <2>1. \A t : ChangeIn(q, t) = ChangeIn(p, t) /\ Asked(q, t) = Asked(p, t) /\ FeeIn(q, t) = FeeIn(p, t)
    BY DEF ChangeIn, Asked, FeeIn
  <2>2. SolanaAmounts(cl, q) <=> SolanaAmounts(cl, p)
    BY DEF SolanaAmounts
  <2> QED
    BY <2>1, <2>2 DEF Merged
<1>2. ClaimSound(ch, q) <=> ClaimSound(ch, p)
  BY DEF ClaimSound, Claimable
<1>3. OtherSound(q) <=> OtherSound(p)
  BY DEF OtherSound
<1>4. SelectSound(ch, q) <=> SelectSound(ch, p)
  <2>1. \A i : RecipientOutput(q, i) = RecipientOutput(p, i)
    BY DEF RecipientOutput
  <2> QED
    BY <2>1 DEF SelectSound
<1>5. ChoosesUtxos(q) <=> ChoosesUtxos(p)
  BY DEF ChoosesUtxos
<1> QED
  BY <1>1, <1>2, <1>3, <1>4, <1>5 DEF Sound

\* A call that fails.
LEMMA Failed ==
  ASSUME NEW cl, NEW ch, NEW label, NEW n, NEW p, CallOK(cl, ch, label, n, p), NEW e,
         e # "amounts", e \in {"funds", "limit"} => p.req.kind = "claim",
         e = "proof" => p.rootFrom # "local", e = "circuit" => NoCircuit(p),
         NEW q, q = [p EXCEPT !.err = e]
  PROVE  CallOK(cl, ch, "failed", n, q)
<1>1. IsPlan(p)
  BY DEF CallOK
<1>2. /\ IsPlan(q) /\ q.err = e
      /\ q.req = p.req /\ q.ask = p.ask /\ q.toks = p.toks /\ q.chs = p.chs /\ q.fee = p.fee
      /\ q.view = p.view /\ q.ins = p.ins /\ q.outs = p.outs /\ q.root = p.root
      /\ q.rootFrom = p.rootFrom
  BY <1>1, PlanErr
<1>3. Sound(cl, ch, q) <=> Sound(cl, ch, p)
  BY <1>2, ErrSound
<1>4. Excused(ch, q)
  BY <1>2 DEF Excused, NoCircuit
<1>5. "failed" \in Labels /\ "failed" \notin Later
  BY DEF Labels, Later
<1>6. Within(q.view, Len(ch)) /\ q.root \in 0 .. Len(ch)
  BY <1>2 DEF CallOK
<1>7. n # "none" => Sound(cl, ch, q)
  BY <1>3 DEF CallOK
<1>8. n \in {"none", "pending", "executed", "rejected"}
  BY DEF CallOK
<1> QED
  BY <1>2, <1>4, <1>5, <1>6, <1>7, <1>8 DEF CallOK

-----------------------------------------------------------------------------
(***************************************************************************)
(* Fees.                                                                   *)
(***************************************************************************)
LEMMA DivInt ==
  ASSUME NEW b \in Nat \ {0}, NEW x \in Int
  PROVE  /\ x \div b \in Int
         /\ b * (x \div b) <= x /\ x < b * (x \div b) + b
         /\ x >= 0 => x \div b >= 0
OBVIOUS

LEMMA LeastOf ==
  ASSUME NEW T \in SUBSET Nat, T # {}
  PROVE  Min(T) \in T /\ \A m \in T : Min(T) <= m
BY LeastNumber DEF Min

\* The place of a token.
LEMMA FeePlace ==
  ASSUME NEW toks \in Seq(Tokens), NEW tok, NEW i, i = SelectInSeq(toks, LAMBDA t : t = tok)
  PROVE  /\ i = 0 => \A k \in DOMAIN toks : toks[k] # tok
         /\ i # 0 => i \in DOMAIN toks /\ toks[i] = tok
<1> DEFINE I == {k \in 1 .. Len(toks) : toks[k] = tok}
<1>1. i = IF I # {} THEN Min(I) ELSE 0
  BY DEF SelectInSeq
<1>2. I # {} => Min(I) \in I
  <2>1. I \in SUBSET Nat
    OBVIOUS
  <2> HIDE DEF I
  <2> QED
    BY <2>1, LeastOf
<1>3. CASE I = {}
  BY <1>1, <1>3
<1>4. CASE I # {}
  BY <1>1, <1>2, <1>4
<1> QED
  BY <1>3, <1>4

\* A sum over the places of one token.
At(toks, t) == {i \in DOMAIN toks : toks[i] = t}

\* Sums over the places of a token in a list without repetitions.
LEMMA SumAt ==
  ASSUME NEW toks \in Seq(Tokens), IsInjective(toks), NEW f, NEW k \in DOMAIN toks, f[k] \in Int,
         NEW t, toks[k] = t
  PROVE  SumFunctionOnSet(f, At(toks, t)) = f[k]
<1>1. At(toks, t) = {k}
  BY DEF IsInjective, At
<1> QED
  BY <1>1, SumSingle

LEMMA SumNowhere ==
  ASSUME NEW toks, NEW f, NEW t, \A k \in DOMAIN toks : toks[k] # t
  PROVE  SumFunctionOnSet(f, At(toks, t)) = 0
<1>1. At(toks, t) = {}
  BY DEF At
<1> QED
  BY <1>1, SumEmpty

\* Amounts that are changed at one place.
Changed(toks, a, b, i, x) ==
  /\ i \in DOMAIN toks /\ x \in Int
  /\ \A k \in DOMAIN toks : a[k] \in Int
  /\ b[i] = a[i] - x /\ \A k \in DOMAIN toks : k # i => b[k] = a[k]

LEMMA SumChanged ==
  ASSUME NEW toks \in Seq(Tokens), IsInjective(toks), NEW a, NEW b, NEW i, NEW x,
         Changed(toks, a, b, i, x), NEW t
  PROVE  SumFunctionOnSet(b, At(toks, t))
           = SumFunctionOnSet(a, At(toks, t)) - IF toks[i] = t THEN x ELSE 0
<1>1. /\ i \in DOMAIN toks /\ x \in Int
      /\ \A k \in DOMAIN toks : a[k] \in Int
      /\ b[i] = a[i] - x /\ \A k \in DOMAIN toks : k # i => b[k] = a[k]
  BY DEF Changed
<1>2. \A k \in DOMAIN toks : b[k] \in Int
  BY <1>1
<1>4. CASE \A k \in DOMAIN toks : toks[k] # t
  <2>1. SumFunctionOnSet(b, At(toks, t)) = 0
    BY <1>4, SumNowhere
  <2>2. SumFunctionOnSet(a, At(toks, t)) = 0
    BY <1>4, SumNowhere
  <2>3. toks[i] # t
    BY <1>1, <1>4
  <2> QED
    BY <2>1, <2>2, <2>3
<1>5. CASE \E k \in DOMAIN toks : toks[k] = t
  <2>1. PICK k \in DOMAIN toks : toks[k] = t
    BY <1>5
  <2>2. a[k] \in Int /\ b[k] \in Int
    BY <1>1, <1>2
  <2>3. SumFunctionOnSet(b, At(toks, t)) = b[k]
    BY <2>1, <2>2, SumAt
  <2>4. SumFunctionOnSet(a, At(toks, t)) = a[k]
    BY <2>1, <2>2, SumAt
  <2>5. b[k] = a[k] - IF toks[i] = t THEN x ELSE 0
    <3>1. CASE k = i
      BY <1>1, <2>1, <3>1
    <3>2. CASE k # i
      <4>1. toks[i] # t
        BY <1>1, <2>1, <3>2 DEF IsInjective
      <4> QED
        BY <1>1, <2>2, <3>2, <4>1
    <3> QED
      BY <3>1, <3>2
  <2> QED
    BY <2>3, <2>4, <2>5
<1> QED
  BY <1>4, <1>5

\* One more token.
Extended(toks, a, toks2, b, n) ==
  /\ n \in Nat /\ DOMAIN toks = 1 .. n /\ DOMAIN toks2 = 1 .. n + 1
  /\ \A k \in 1 .. n : toks2[k] = toks[k] /\ a[k] \in Int /\ b[k] = a[k]
  /\ b[n + 1] \in Int

LEMMA SumAppended ==
  ASSUME NEW toks \in Seq(Tokens), IsInjective(toks), NEW toks2 \in Seq(Tokens), IsInjective(toks2),
         NEW a, NEW b, NEW n, Extended(toks, a, toks2, b, n), NEW t
  PROVE  SumFunctionOnSet(b, At(toks2, t))
           = SumFunctionOnSet(a, At(toks, t))
               + IF toks2[n + 1] = t THEN b[n + 1] ELSE 0
<1>1. /\ n \in Nat /\ DOMAIN toks = 1 .. n /\ DOMAIN toks2 = 1 .. n + 1
      /\ \A k \in 1 .. n : toks2[k] = toks[k] /\ a[k] \in Int /\ b[k] = a[k]
      /\ b[n + 1] \in Int
  BY DEF Extended
<1>3. \A k \in DOMAIN toks2 : b[k] \in Int
  BY <1>1
<1>4. CASE \A k \in DOMAIN toks2 : toks2[k] # t
  <2>1. SumFunctionOnSet(b, At(toks2, t)) = 0
    BY <1>4, SumNowhere
  <2>2. \A k \in DOMAIN toks : toks[k] # t
    BY <1>1, <1>4
  <2>3. SumFunctionOnSet(a, At(toks, t)) = 0
    BY <2>2, SumNowhere
  <2>4. toks2[n + 1] # t
    BY <1>1, <1>4
  <2> QED
    BY <2>1, <2>3, <2>4
<1>5. CASE \E k \in DOMAIN toks2 : toks2[k] = t
  <2>1. PICK k \in DOMAIN toks2 : toks2[k] = t
    BY <1>5
  <2>2. b[k] \in Int
    BY <1>3
  <2>3. SumFunctionOnSet(b, At(toks2, t)) = b[k]
    BY <2>1, <2>2, SumAt
  <2>4. b[k] = SumFunctionOnSet(a, At(toks, t))
                 + IF toks2[n + 1] = t THEN b[n + 1] ELSE 0
    <3>1. CASE k = n + 1
      <4>1. \A m \in DOMAIN toks : toks[m] # t
        BY <1>1, <2>1, <3>1 DEF IsInjective
      <4>2. SumFunctionOnSet(a, At(toks, t)) = 0
        BY <4>1, SumNowhere
      <4> QED
        BY <2>1, <2>2, <3>1, <4>2
    <3>2. CASE k \in 1 .. n
      <4>1. k \in DOMAIN toks /\ toks[k] = t /\ b[k] = a[k] /\ a[k] \in Int
        BY <1>1, <2>1, <3>2
      <4>3. toks2[n + 1] # t
        BY <1>1, <2>1, <3>2 DEF IsInjective
      <4>2. SumFunctionOnSet(a, At(toks, t)) = a[k]
        BY <4>1, SumAt
      <4> QED
        BY <4>1, <4>2, <4>3
    <3> QED
      BY <1>1, <3>1, <3>2
  <2> QED
    BY <2>3, <2>4
<1> QED
  BY <1>4, <1>5

-----------------------------------------------------------------------------
LEMMA QuoteFacts ==
  ASSUME NEW cl \in Clients, NEW q \in cl.quotes
  PROVE  q.flat \in Nat /\ q.rate \in Nat /\ q.cross \in Nat
BY TransactAssumption DEF Quote

\* Shares of an amount, and the fees of the flows.
LEMMA ShareInt ==
  ASSUME NEW a \in Int, NEW r \in Int
  PROVE  (a * r) \div BPS \in Int
<1>1. a * r \in Int
  OBVIOUS
<1> QED
  BY <1>1, DivInt, RateAssumption

\* The fees of the flows are numbers, in the token of the estimate.
LEMMA ModifiedFee ==
  ASSUME NEW raw, raw.flat \in Int, raw.rate \in Int, NEW a \in Int, NEW x \in Int, NEW t,
         NEW f, f = CalculateModifiedFeeStructure(t, a, raw, x)
  PROVE  f.token = raw.token /\ f.flat \in Int
<1>1. CalculateTotalFee(a, raw) \in Int
  BY ShareInt DEF CalculateTotalFee
<1> QED
  BY <1>1 DEF CalculateModifiedFeeStructure

LEMMA PrivateFee ==
  ASSUME NEW t, NEW flat \in Nat, NEW rate \in Nat, NEW raw, raw = GetFeeStructure(t, flat, rate),
         NEW f, f = PrivateSendFeeStructure(raw)
  PROVE  f.token = t /\ f.flat = flat /\ f.rate \in Nat
BY RateAssumption DEF PrivateSendFeeStructure, GetFeeStructure

LEMMA RawFee ==
  ASSUME NEW t, NEW flat, NEW rate, NEW raw, raw = GetFeeStructure(t, flat, rate)
  PROVE  raw.token = t /\ raw.flat = flat /\ raw.rate = rate
BY DEF GetFeeStructure

LEMMA FlowFee ==
  ASSUME NEW cl \in Clients, NEW q \in cl.quotes, NEW p, NEW tok,
         NEW raw, raw = GetFeeStructure(tok, q.flat, q.rate),
         p.chs \in Seq(Int), Len(p.chs) >= 1, p.req.kind \in {"withdraw", "transfer", "swap"},
         NEW f, f = FeeOfFlow(p, raw, q.cross)
  PROVE  f.token = tok /\ f.flat \in Int
<1>1. q.flat \in Nat /\ q.rate \in Nat /\ q.cross \in Nat /\ -p.chs[1] \in Int
  BY QuoteFacts
<1>2. raw.token = tok /\ raw.flat = q.flat /\ raw.rate = q.rate
  BY RawFee
<1>3. CASE p.req.kind = "withdraw"
  <2>1. f = CalculateModifiedFeeStructure(p.toks[1], -p.chs[1], raw, q.cross)
    BY <1>3 DEF FeeOfFlow, WithdrawFee
  <2> QED
    BY <1>1, <1>2, <2>1, ModifiedFee
<1>4. CASE p.req.kind = "transfer"
  <2> DEFINE g == PrivateSendFeeStructure(raw)
  <2>1. f = CalculateModifiedFeeStructure(p.toks[1], -p.chs[1], g, q.cross)
    BY <1>4 DEF FeeOfFlow, TransferFee
  <2>2. g.token = tok /\ g.flat \in Int /\ g.rate \in Int
    BY <1>1, PrivateFee
  <2> HIDE DEF g
  <2> QED
    BY <1>1, <2>1, <2>2, ModifiedFee
<1>5. CASE p.req.kind = "swap"
  BY <1>1, <1>2, <1>5 DEF FeeOfFlow, SwapFee
<1> QED
  BY <1>3, <1>4, <1>5

\* MergeWithFeeStructure takes the fee from the change of its token.
LEMMA MergeStructure ==
  ASSUME NEW toks \in Seq(Tokens), IsInjective(toks), NEW chs \in Seq(Int), Len(chs) = Len(toks),
         Len(toks) >= 1, NEW fee, fee.token \in Tokens, fee.flat \in Int,
         NEW m, m = MergeWithFeeStructure(toks, chs, fee)
  PROVE  /\ m.toks \in Seq(Tokens) /\ IsInjective(m.toks) /\ m.chs \in Seq(Int)
         /\ Len(m.chs) = Len(m.toks) /\ Len(m.toks) >= 1 /\ m.toks[1] = toks[1]
         /\ \A t : SumFunctionOnSet(m.chs, At(m.toks, t))
                     = SumFunctionOnSet(chs, At(toks, t)) - IF fee.token = t THEN fee.flat ELSE 0
<1> DEFINE i == SelectInSeq(toks, LAMBDA t : t = fee.token)
           n == Len(toks)
<1>1. /\ i = 0 => \A k \in DOMAIN toks : toks[k] # fee.token
      /\ i # 0 => i \in DOMAIN toks /\ toks[i] = fee.token
  BY FeePlace
<1>2. m = IF i = 0
          THEN [toks |-> Append(toks, fee.token), chs |-> Append(chs, -fee.flat)]
          ELSE [toks |-> toks, chs |-> [chs EXCEPT ![i] = @ - fee.flat]]
  BY DEF MergeWithFeeStructure
<1> HIDE DEF i
<1>0. n \in Nat /\ DOMAIN toks = 1 .. n /\ DOMAIN chs = 1 .. n /\ \A k \in 1 .. n : chs[k] \in Int
  OBVIOUS
<1>3. CASE i = 0
  <2> DEFINE b == Append(chs, -fee.flat)
             ts == Append(toks, fee.token)
  <2>1. m.toks = ts /\ m.chs = b
    BY <1>2, <1>3
  <2>2. /\ ts \in Seq(Tokens) /\ Len(ts) = n + 1 /\ DOMAIN ts = 1 .. n + 1
        /\ b \in Seq(Int) /\ Len(b) = n + 1
        /\ ts[n + 1] = fee.token /\ b[n + 1] = -fee.flat
        /\ \A k \in 1 .. n : ts[k] = toks[k] /\ b[k] = chs[k]
    OBVIOUS
  <2> HIDE DEF b, ts, n
  <2>3. IsInjective(ts)
    <3> SUFFICES ASSUME NEW k \in 1 .. n + 1, NEW l \in 1 .. n + 1, ts[k] = ts[l]
                 PROVE  k = l
      BY <2>2 DEF IsInjective
    <3>1. CASE k \in 1 .. n /\ l \in 1 .. n
      <4>1. toks[k] = toks[l]
        BY <2>2, <3>1
      <4> QED
        BY <1>0, <3>1, <4>1 DEF IsInjective
    <3>2. CASE k = n + 1 /\ l \in 1 .. n
      <4>1. toks[l] # fee.token /\ ts[l] = toks[l] /\ ts[k] = fee.token
        BY <1>0, <1>1, <1>3, <2>2, <3>2
      <4> QED
        BY <4>1
    <3>3. CASE l = n + 1 /\ k \in 1 .. n
      <4>1. toks[k] # fee.token /\ ts[k] = toks[k] /\ ts[l] = fee.token
        BY <1>0, <1>1, <1>3, <2>2, <3>3
      <4> QED
        BY <4>1
    <3> QED
      BY <1>0, <3>1, <3>2, <3>3
  <2>4. b[n + 1] \in Int
    BY <2>2
  <2>5. \A t : SumFunctionOnSet(b, At(ts, t))
               = SumFunctionOnSet(chs, At(toks, t)) + IF ts[n + 1] = t THEN b[n + 1] ELSE 0
    <3>1. /\ n \in Nat /\ DOMAIN toks = 1 .. n /\ DOMAIN ts = 1 .. n + 1 /\ ts \in Seq(Tokens)
          /\ \A k \in 1 .. n : ts[k] = toks[k]
      BY <1>0, <2>2
    <3>2. \A k \in 1 .. n : chs[k] \in Int /\ b[k] = chs[k]
      BY <1>0, <2>2
    <3>3. Extended(toks, chs, ts, b, n)
      BY <2>4, <3>1, <3>2 DEF Extended
    <3> QED
      BY <2>3, <3>1, <3>3, SumAppended
  <2>6. ASSUME NEW t
        PROVE  SumFunctionOnSet(b, At(ts, t))
                 = SumFunctionOnSet(chs, At(toks, t)) - IF fee.token = t THEN fee.flat ELSE 0
    <3>1. SumFunctionOnSet(chs, At(toks, t)) \in Int
      <4>1. CASE \A k \in DOMAIN toks : toks[k] # t
        BY <4>1, SumNowhere
      <4>2. CASE \E k \in DOMAIN toks : toks[k] = t
        <5>1. PICK k \in DOMAIN toks : toks[k] = t
          BY <4>2
        <5>2. chs[k] \in Int
          BY <1>0
        <5> QED
          BY <5>1, <5>2, SumAt
      <4> QED
        BY <4>1, <4>2
    <3>2. SumFunctionOnSet(b, At(ts, t))
            = SumFunctionOnSet(chs, At(toks, t)) + IF fee.token = t THEN -fee.flat ELSE 0
      BY <2>2, <2>5
    <3> QED
      BY <3>1, <3>2
  <2>7. Len(b) = Len(ts) /\ Len(ts) >= 1 /\ ts[1] = toks[1]
    BY <1>0, <2>2 DEF n
  <2> QED
    BY <2>1, <2>2, <2>3, <2>6, <2>7
<1>4. CASE i # 0
  <2> DEFINE b == [chs EXCEPT ![i] = @ - fee.flat]
  <2>0. i \in DOMAIN toks /\ toks[i] = fee.token
    BY <1>1, <1>4
  <2>1. m.toks = toks /\ m.chs = b
    BY <1>2, <1>4
  <2>2. /\ b \in Seq(Int) /\ Len(b) = Len(chs) /\ b[i] = chs[i] - fee.flat
        /\ \A k \in DOMAIN toks : k # i => b[k] = chs[k]
    BY <2>0
  <2>3. \A k \in DOMAIN toks : chs[k] \in Int
    OBVIOUS
  <2> HIDE DEF b
  <2>4. \A t : SumFunctionOnSet(b, At(toks, t))
                 = SumFunctionOnSet(chs, At(toks, t)) - IF toks[i] = t THEN fee.flat ELSE 0
    <3>1. i \in DOMAIN toks /\ b[i] = chs[i] - fee.flat /\ \A k \in DOMAIN toks : k # i => b[k] = chs[k]
      BY <2>0, <2>2
    <3>2. Changed(toks, chs, b, i, fee.flat)
      BY <2>3, <3>1 DEF Changed
    <3> QED
      BY <3>2, SumChanged
  <2> QED
    BY <2>0, <2>1, <2>2, <2>4
<1> QED
  BY <1>3, <1>4

-----------------------------------------------------------------------------
(***************************************************************************)
(* The amounts of a call once its fee is known.                            *)
(***************************************************************************)
LEMMA BegunFacts ==
  ASSUME NEW cl \in Clients, NEW ch, NEW p, Begun(cl, ch, p), p.req.kind # "claim"
  PROVE  /\ p.req \in cl.requests /\ p.toks = p.req.toks /\ p.chs = p.ask
         /\ p.toks \in Seq(Tokens) /\ IsInjective(p.toks)
         /\ p.ask \in Seq(Int) /\ Len(p.ask) = Len(p.toks) /\ Len(p.ask) >= 1
         /\ DOMAIN p.ask = DOMAIN p.toks
         /\ \A t : Asked(p, t) = SumFunctionOnSet(p.ask, At(p.toks, t))
         /\ PaysFee(p.req.kind) => p.req.feeTok \in Tokens
<1>1. /\ p.req \in cl.requests /\ p.toks = p.req.toks /\ p.chs = p.ask
      /\ p.ask \in Seq(Int) /\ Len(p.ask) = Len(p.toks) /\ Len(p.ask) >= 1
  BY DEF Begun
<1>2. /\ p.toks \in Seq(Tokens) /\ IsInjective(p.toks)
      /\ PaysFee(p.req.kind) => p.req.feeTok \in Tokens
  BY <1>1, RequestFacts
<1>3. DOMAIN p.ask = DOMAIN p.toks
  BY <1>1, <1>2
<1>4. \A t : {i \in DOMAIN p.ask : p.req.toks[i] = t} = At(p.toks, t)
  BY <1>1, <1>3 DEF At
<1>5. \A t : Asked(p, t) = SumFunctionOnSet(p.ask, At(p.toks, t))
  BY <1>4 DEF Asked
<1> QED
  BY <1>1, <1>2, <1>3, <1>5

LEMMA SumAtInt ==
  ASSUME NEW toks \in Seq(Tokens), IsInjective(toks), NEW a \in Seq(Int), Len(a) = Len(toks), NEW t
  PROVE  SumFunctionOnSet(a, At(toks, t)) \in Int
<1>1. CASE \A k \in DOMAIN toks : toks[k] # t
  BY <1>1, SumNowhere
<1>2. CASE \E k \in DOMAIN toks : toks[k] = t
  <2>1. PICK k \in DOMAIN toks : toks[k] = t
    BY <1>2
  <2>2. a[k] \in Int
    OBVIOUS
  <2> QED
    BY <2>1, <2>2, SumAt
<1> QED
  BY <1>1, <1>2

LEMMA ChangeAt ==
  ASSUME NEW p, NEW t PROVE ChangeIn(p, t) = SumFunctionOnSet(p.chs, At(p.toks, t))
BY DEF ChangeIn, At

\* Deposits and withdrawals without relayer pay no fee.
LEMMA MergedAtOnce ==
  ASSUME NEW cl \in Clients, NEW ch, NEW p, Begun(cl, ch, p), ~PaysFee(p.req.kind),
         p.fee = ZeroFee("none"), cl.net = "evm"
  PROVE  Merged(cl, p)
<1>1. p.req.kind # "claim"
  BY DEF PaysFee
<1>2. /\ p.req \in cl.requests /\ p.toks = p.req.toks /\ p.chs = p.ask
      /\ p.toks \in Seq(Tokens) /\ IsInjective(p.toks)
      /\ p.ask \in Seq(Int) /\ Len(p.ask) = Len(p.toks) /\ Len(p.ask) >= 1
      /\ \A t : Asked(p, t) = SumFunctionOnSet(p.ask, At(p.toks, t))
  BY <1>1, BegunFacts
<1>3. p.fee.flat = 0
  BY DEF ZeroFee
<1>4. ASSUME NEW t PROVE ChangeIn(p, t) = Asked(p, t) - FeeIn(p, t)
  <2>1. ChangeIn(p, t) = Asked(p, t)
    BY <1>2, ChangeAt
  <2>2. Asked(p, t) \in Int
    BY <1>2, SumAtInt
  <2>3. FeeIn(p, t) = 0
    BY <1>3 DEF FeeIn
  <2> QED
    BY <2>1, <2>2, <2>3
<1> QED
  BY <1>1, <1>2, <1>3, <1>4 DEF Merged

\* MergeWithFeeStructure takes the fee from one token.
LEMMA MergedWithFee ==
  ASSUME NEW cl \in Clients, NEW ch, NEW p, IsPlan(p), Begun(cl, ch, p), p.req.kind # "claim",
         PaysFee(p.req.kind), cl.net = "evm",
         NEW fee, fee.token \in Tokens, fee.flat \in Int, NEW q, q = WithFee(p, fee)
  PROVE  /\ Merged(cl, q) /\ IsPlan(q) /\ q.req = p.req /\ q.view = p.view /\ q.root = p.root
         /\ q.rootFrom = p.rootFrom /\ q.err = p.err /\ q.approved = p.approved
<1> DEFINE m == MergeWithFeeStructure(p.toks, p.chs, fee)
<1>1. q = [p EXCEPT !.fee = fee, !.toks = m.toks, !.chs = m.chs]
  BY DEF WithFee
<1> HIDE DEF m
<1>2. /\ IsPlan(q) /\ q.fee = fee /\ q.toks = m.toks /\ q.chs = m.chs
      /\ q.req = p.req /\ q.ask = p.ask /\ q.view = p.view /\ q.root = p.root
      /\ q.rootFrom = p.rootFrom /\ q.err = p.err /\ q.approved = p.approved
  BY <1>1 DEF IsPlan
<1>3. /\ p.req \in cl.requests /\ p.toks = p.req.toks /\ p.chs = p.ask
      /\ p.toks \in Seq(Tokens) /\ IsInjective(p.toks)
      /\ p.ask \in Seq(Int) /\ Len(p.ask) = Len(p.toks) /\ Len(p.ask) >= 1
      /\ \A t : Asked(p, t) = SumFunctionOnSet(p.ask, At(p.toks, t))
  <2>1. cl \in Clients /\ Begun(cl, ch, p) /\ p.req.kind # "claim"
    OBVIOUS
  <2> QED
    BY <2>1, BegunFacts, ZenonT(60)
<1>4. /\ m.toks \in Seq(Tokens) /\ IsInjective(m.toks) /\ m.chs \in Seq(Int)
      /\ Len(m.chs) = Len(m.toks) /\ Len(m.toks) >= 1 /\ m.toks[1] = p.toks[1]
      /\ \A t : SumFunctionOnSet(m.chs, At(m.toks, t))
                  = SumFunctionOnSet(p.chs, At(p.toks, t)) - IF fee.token = t THEN fee.flat ELSE 0
  <2>1. Len(p.toks) >= 1 /\ p.chs \in Seq(Int) /\ Len(p.chs) = Len(p.toks)
    BY <1>3
  <2> QED
    BY <1>3, <2>1, MergeStructure DEF m
<1>5. ASSUME NEW t PROVE ChangeIn(q, t) = Asked(q, t) - FeeIn(q, t)
  <2>1. ChangeIn(q, t) = SumFunctionOnSet(m.chs, At(m.toks, t))
    BY <1>2, ChangeAt
  <2>2. Asked(q, t) = Asked(p, t)
    BY <1>2 DEF Asked
  <2>3. FeeIn(q, t) = IF fee.token = t THEN fee.flat ELSE 0
    BY <1>2 DEF FeeIn
  <2> QED
    BY <1>3, <1>4, <2>1, <2>2, <2>3
<1>6. q.fee.flat \in Int /\ q.req.kind # "claim" /\ Len(q.ask) = Len(q.req.toks)
  BY <1>2, <1>3
<1>7. q.toks[1] = q.req.toks[1]
  BY <1>2, <1>3, <1>4
<1> QED
  BY <1>2, <1>3, <1>4, <1>5, <1>6, <1>7 DEF Merged

\* On Solana the fee is taken from one of the changes.
SolanaCharge(cl, p, i, amount) ==
  /\ i \in DOMAIN p.toks /\ amount \in Int
  /\ p.req.kind \in {"withdraw", "transfer", "swap"}
  /\ p.req.kind # "swap" => i = 1 /\ (p.chs[1] < 0 => amount >= 0)
  /\ p.req.kind = "swap" =>
       /\ i = 2 /\ p.chs[2] - amount >= 0
       /\ \E q \in cl.quotes : \E slip \in Slippages(p.chs[2]) :
            amount = SwapKeepsBack(p.chs[2], slip, q)

\* Charge takes it from the token of change i.
LEMMA MergedCharge ==
  ASSUME NEW cl \in Clients, NEW ch, NEW p, IsPlan(p), Begun(cl, ch, p), cl.net = "solana",
         NEW i, NEW amount, SolanaCharge(cl, p, i, amount), NEW q, q = Charge(p, i, amount)
  PROVE  /\ Merged(cl, q) /\ IsPlan(q) /\ q.req = p.req /\ q.view = p.view /\ q.root = p.root
         /\ q.rootFrom = p.rootFrom /\ q.err = p.err /\ q.approved = p.approved
<1>1. /\ IsPlan(q) /\ q.fee = [token |-> p.toks[i], flat |-> amount, rate |-> 0]
      /\ q.chs = [p.chs EXCEPT ![i] = @ - amount]
      /\ q.req = p.req /\ q.ask = p.ask /\ q.toks = p.toks
      /\ q.view = p.view /\ q.root = p.root /\ q.rootFrom = p.rootFrom /\ q.err = p.err
      /\ q.approved = p.approved
  BY PlanCharge
<1>0. /\ i \in DOMAIN p.toks /\ amount \in Int /\ p.req.kind \in {"withdraw", "transfer", "swap"}
  BY DEF SolanaCharge
<1>2. p.req.kind # "claim" /\ PaysFee(p.req.kind)
  BY <1>0 DEF PaysFee
<1>3. /\ p.req \in cl.requests /\ p.toks = p.req.toks /\ p.chs = p.ask
      /\ p.toks \in Seq(Tokens) /\ IsInjective(p.toks)
      /\ p.ask \in Seq(Int) /\ Len(p.ask) = Len(p.toks) /\ Len(p.ask) >= 1
      /\ \A t : Asked(p, t) = SumFunctionOnSet(p.ask, At(p.toks, t))
  BY <1>2, BegunFacts
<1>4. p.ask = p.req.chs /\ Len(p.toks) = IF p.req.kind = "swap" THEN 2 ELSE 1
  BY <1>2 DEF Begun
<1>5. /\ q.chs \in Seq(Int) /\ Len(q.chs) = Len(q.toks) /\ q.chs[i] = p.ask[i] - amount
      /\ \A k \in DOMAIN p.toks : k # i => q.chs[k] = p.ask[k]
  BY <1>0, <1>1, <1>3, SMTT(40)
<1>6. Changed(p.toks, p.ask, q.chs, i, amount)
  BY <1>0, <1>3, <1>5 DEF Changed
<1>7. ASSUME NEW t PROVE ChangeIn(q, t) = Asked(q, t) - FeeIn(q, t)
  <2>1. ChangeIn(q, t) = SumFunctionOnSet(q.chs, At(p.toks, t))
    BY <1>1, ChangeAt
  <2>2. Asked(q, t) = SumFunctionOnSet(p.ask, At(p.toks, t))
    <3>1. Asked(q, t) = Asked(p, t)
      BY <1>1 DEF Asked
    <3> QED
      BY <1>3, <3>1
  <2>3. FeeIn(q, t) = IF p.toks[i] = t THEN amount ELSE 0
    BY <1>1 DEF FeeIn
  <2>4. SumFunctionOnSet(q.chs, At(p.toks, t))
          = SumFunctionOnSet(p.ask, At(p.toks, t)) - IF p.toks[i] = t THEN amount ELSE 0
    BY <1>3, <1>6, SumChanged
  <2> QED
    BY <2>1, <2>2, <2>3, <2>4
<1>8. SolanaAmounts(cl, q)
  <2>1. CASE p.req.kind = "swap"
    <3>1. /\ i = 2 /\ p.chs[2] - amount >= 0 /\ Len(p.toks) = 2
          /\ \E r \in cl.quotes : \E slip \in Slippages(p.ask[2]) :
               amount = SwapKeepsBack(p.ask[2], slip, r)
      BY <1>3, <1>4, <2>1 DEF SolanaCharge
    <3>2. p.ask[2] >= 0
      <4>1. Len(p.req.chs) = 2
        BY <1>3, <1>4, <3>1
      <4> QED
        BY <1>3, <1>4, <2>1, <4>1, RequestFacts
    <3>4. DOMAIN p.toks = {1, 2} /\ p.ask[1] \in Int /\ p.ask[2] \in Int
      BY <1>3, <3>1
    <3>6. q.chs[2] = p.ask[2] - amount /\ q.chs[1] = p.ask[1]
      BY <1>5, <3>1, <3>4
    <3>7. p.ask[2] - amount >= 0
      BY <1>3, <3>1
    <3>3. q.chs[2] = p.ask[2] - amount /\ q.chs[1] = p.ask[1] /\ q.chs[2] >= 0
      BY <3>6, <3>7
    <3>5. \A k \in DOMAIN p.toks : p.ask[k] < 0 => q.chs[k] <= p.ask[k]
      BY <3>2, <3>3, <3>4
    <3> QED
      BY <1>0, <1>1, <1>3, <1>4, <2>1, <3>1, <3>3, <3>5, SMTT(40) DEF SolanaAmounts
  <2>2. CASE p.req.kind # "swap"
    <3>1. i = 1 /\ (p.chs[1] < 0 => amount >= 0) /\ Len(p.toks) = 1
      BY <1>4, <2>2 DEF SolanaCharge
    <3>2. DOMAIN p.toks = {1} /\ p.ask[1] \in Int
      BY <1>3, <3>1
    <3>3. \A k \in DOMAIN p.toks : p.ask[k] < 0 => q.chs[k] <= p.ask[k]
      BY <1>0, <1>3, <1>5, <3>1, <3>2
    <3> QED
      BY <1>0, <1>1, <1>3, <1>4, <2>2, <3>1, <3>3 DEF SolanaAmounts
  <2> QED
    BY <2>1, <2>2
<1>9. q.fee.flat \in Int /\ q.req.kind # "claim" /\ Len(q.ask) = Len(q.req.toks)
  BY <1>0, <1>1, <1>2, <1>3
<1>10. q.toks[1] = q.req.toks[1] /\ Len(q.toks) >= 1
  BY <1>1, <1>3
<1> QED
  BY <1>1, <1>2, <1>3, <1>5, <1>7, <1>8, <1>9, <1>10 DEF Merged

-----------------------------------------------------------------------------
(***************************************************************************)
(* Choosing the inputs.                                                    *)
(***************************************************************************)
\* No six of the UTXOs in U pay for the change c.
TooLittle(U, c) ==
  \A S \in SUBSET U :
    Cardinality(S) <= MaxInput => SumFunctionOnSet([u \in S |-> u.amt], S) + c < 0

\* Where the largest six do not pay, no six do.
LEMMA RowTooLittle ==
  ASSUME NEW U, Stock(U), NEW row, Filled(row, U), Cardinality(U) <= Len(row) \/ Len(row) = MaxInput,
         TotalAmount(row) \in Int, NEW c \in Int, TotalAmount(row) + c < 0
  PROVE  TooLittle(U, c)
<1> SUFFICES ASSUME NEW S \in SUBSET U, Cardinality(S) <= MaxInput
             PROVE  SumFunctionOnSet([u \in S |-> u.amt], S) + c < 0
  BY DEF TooLittle
<1> DEFINE f == [u \in S |-> u.amt]
           s == SumFunctionOnSet(f, S)
<1>1. Cardinality(U) <= Len(row) \/ Cardinality(S) <= Len(row)
  OBVIOUS
<1>2. s <= TotalAmount(row)
  BY <1>1, RowBest
<1>3. s \in Int
  <2>1. IsFiniteSet(S)
    BY FS_Subset DEF Stock
  <2>2. \A u \in S : f[u] \in Int
    BY DEF Stock
  <2> HIDE DEF f
  <2> QED
    BY <2>1, <2>2, SumInt
<1> HIDE DEF s
<1>4. s + c < 0
  BY <1>2, <1>3
<1> QED
  BY <1>4 DEF s

\* The rows that are chosen from.
LEMMA RowFacts ==
  ASSUME NEW cl, NEW ch, GoodChain(ch), NEW p, Merged(cl, p), NEW view, Within(view, Len(ch)),
         NEW i \in DOMAIN p.toks
  PROVE  /\ Supply(ch, StockOf(ch, view, p.toks[i]), p.toks[i], "user")
         /\ Stock(StockOf(ch, view, p.toks[i]))
         /\ RowsOf(ch, p.toks, view)[i] = SortAndPadUtxos(StockOf(ch, view, p.toks[i]))
         /\ p.chs[i] \in Int
<1>1. Supply(ch, StockOf(ch, view, p.toks[i]), p.toks[i], "user")
  BY SupplyOfView
<1>2. p.chs[i] \in Int
  BY DEF Merged
<1> QED
  BY <1>1, <1>2 DEF RowsOf, Supply

\* The two errors of the selection.
LEMMA LimitUnpayable ==
  ASSUME NEW cl, NEW ch, GoodChain(ch), NEW p, Merged(cl, p), Within(p.view, Len(ch)),
         OverLimit(RowsOf(ch, p.toks, p.view), p.chs)
  PROVE  Unpayable(ch, p)
<1> DEFINE rows == RowsOf(ch, p.toks, p.view)
<1>1. DOMAIN rows = DOMAIN p.toks
  BY DEF RowsOf
<1>2. PICK i \in DOMAIN p.toks : /\ Len(rows[i]) > MaxInput
                                 /\ TotalAmount(SubSeq(rows[i], 1, MaxInput)) < -p.chs[i]
  BY <1>1 DEF OverLimit
<1> DEFINE U == StockOf(ch, p.view, p.toks[i])
           cut == SubSeq(rows[i], 1, MaxInput)
<1>3. /\ Supply(ch, U, p.toks[i], "user") /\ Stock(U) /\ rows[i] = SortAndPadUtxos(U)
      /\ p.chs[i] \in Int
  <2>1. Supply(ch, U, p.toks[i], "user")
    BY SupplyOfView
  <2>2. Stock(U)
    BY <2>1 DEF Supply
  <2>3. rows[i] = SortAndPadUtxos(U)
    BY DEF RowsOf
  <2>4. p.chs[i] \in Int
    BY DEF Merged
  <2> QED
    BY <2>1, <2>2, <2>3, <2>4
<1> HIDE DEF U, rows
<1>4. Filled(rows[i], U) /\ Len(rows[i]) \in Nat
  BY <1>3, FilledSortAndPad
<1>5. MaxInput \in 1 .. Len(rows[i])
  <2>1. Len(rows[i]) > MaxInput /\ MaxInput \in Nat /\ 1 < MaxInput
    <3>1. MinInput \in Nat /\ MaxInput \in Nat /\ 1 < MinInput /\ MinInput < MaxInput
      BY Limits
    <3> QED
      BY <1>2, <3>1
  <2> QED
    BY <1>4, <2>1
<1>6. Filled(cut, U) /\ Len(cut) = MaxInput
  BY <1>3, <1>4, <1>5, FilledCut
<1> HIDE DEF cut
<1>7. TotalAmount(cut) \in Nat
  BY <1>3, <1>6, FilledInput
<1>8. TotalAmount(cut) + p.chs[i] < 0 /\ TotalAmount(cut) \in Int
  BY <1>2, <1>3, <1>7 DEF cut
<1>9. TooLittle(U, p.chs[i])
  BY <1>3, <1>6, <1>8, RowTooLittle
<1> QED
  BY <1>9 DEF Unpayable, TooLittle, U

LEMMA FundsUnpayable ==
  ASSUME NEW cl, NEW ch, GoodChain(ch), NEW p, Merged(cl, p), Within(p.view, Len(ch)),
         NEW ins, ins = AddPaddingToUtxos(RowsOf(ch, p.toks, p.view)),
         NEW i \in DOMAIN p.toks, InsufficientFunds(ins[i], p.chs[i])
  PROVE  Unpayable(ch, p)
<1> DEFINE U == StockOf(ch, p.view, p.toks[i])
<1>1. p.toks \in Seq(Tokens)
  BY DEF Merged
<1>2. /\ Filled(ins[i], U) /\ TotalAmount(ins[i]) \in Nat
      /\ (Len(ins[i]) = MinInput /\ Cardinality(U) <= MinInput) \/ Len(ins[i]) = MaxInput
  BY <1>1, ChosenRows
<1>3. Stock(U) /\ p.chs[i] \in Int
  BY RowFacts
<1> HIDE DEF U
<1>4. TotalAmount(ins[i]) + p.chs[i] < 0 /\ TotalAmount(ins[i]) \in Int
  BY <1>2 DEF InsufficientFunds
<1>5. Cardinality(U) <= Len(ins[i]) \/ Len(ins[i]) = MaxInput
  BY <1>2
<1>6. Filled(ins[i], U)
  BY <1>2
<1>7. TooLittle(U, p.chs[i])
  BY <1>3, <1>4, <1>5, <1>6, RowTooLittle
<1> QED
  BY <1>7 DEF Unpayable, TooLittle, U

\* Three flows of Solana have the outputs of the others.
LEMMA SolanaOuts ==
  ASSUME NEW cl, NEW ch, GoodChain(ch), NEW p, Merged(cl, p), SolanaAmounts(cl, p),
         Within(p.view, Len(ch)), NEW ins, ins = AddPaddingToUtxos(RowsOf(ch, p.toks, p.view)),
         \A i \in DOMAIN p.toks : ~InsufficientFunds(ins[i], p.chs[i])
  PROVE  [i \in DOMAIN ins |-> SolanaOutputs(p, ins[i], i)]
           = [i \in DOMAIN p.toks |->
                OutputUtxoProcessing(ins[i], p.toks[i], p.chs[i], "user", RecipientOutput(p, i))]
<1>1. p.toks \in Seq(Tokens) /\ p.req.kind \in {"withdraw", "transfer", "swap"}
  BY DEF Merged, SolanaAmounts
<1>2. DOMAIN ins = DOMAIN p.toks /\ \A i \in DOMAIN p.toks : TotalAmount(ins[i]) \in Nat
  BY <1>1, ChosenRows
<1>3. ASSUME NEW i \in DOMAIN p.toks
      PROVE  SolanaOutputs(p, ins[i], i)
               = OutputUtxoProcessing(ins[i], p.toks[i], p.chs[i], "user", RecipientOutput(p, i))
  <2>1. CASE p.req.kind = "swap"
    <3> DEFINE x == [owner |-> "user", token |-> p.toks[i], amt |-> TotalAmount(ins[i]) + p.chs[i]]
               o == OutputUtxoProcessing(ins[i], p.toks[i], p.chs[i], "user", <<>>)
    <3>1. p.chs[i] \in Int
      BY RowFacts
    <3>2. o = <<x>>
      BY <1>2, <3>1, Processed
    <3>3. SolanaOutputs(p, ins[i], i) = << o[1] >>
      BY <2>1 DEF SolanaOutputs, SolanaSwapOutputs
    <3>4. RecipientOutput(p, i) = <<>>
      BY <2>1 DEF RecipientOutput
    <3> HIDE DEF x, o
    <3>5. << o[1] >> = o
      BY <3>2
    <3> QED
      BY <3>3, <3>4, <3>5 DEF o
  <2>2. CASE p.req.kind = "withdraw"
    <3>1. i = 1
      BY <1>1, <2>2 DEF SolanaAmounts
    <3> QED
      BY <2>2, <3>1 DEF SolanaOutputs, SolanaWithdrawOutputs, RecipientOutput
  <2>3. CASE p.req.kind = "transfer"
    <3>1. i = 1
      BY <1>1, <2>3 DEF SolanaAmounts
    <3> QED
      BY <2>3, <3>1 DEF SolanaOutputs, SolanaTransferOutputs, RecipientOutput
  <2> QED
    BY <1>1, <2>1, <2>2, <2>3
<1> QED
  BY <1>2, <1>3

\* EnsureAmountChanges never finds a difference.
LEMMA AmountsEnsured ==
  ASSUME NEW cl, NEW ch, GoodChain(ch), NEW p, Merged(cl, p), SelectSound(ch, p)
  PROVE  EnsureAmountChanges(p)
<1>1. p.toks \in Seq(Tokens) /\ p.chs \in Seq(Int) /\ Len(p.chs) = Len(p.toks)
  BY DEF Merged
<1>2. DOMAIN p.ins = DOMAIN p.toks /\ DOMAIN p.outs = DOMAIN p.toks
  BY <1>1, ChosenRows DEF SelectSound
<1> DEFINE first == [i \in DOMAIN p.outs |-> << p.outs[i][1] >>]
<1>3. ASSUME NEW i \in DOMAIN p.toks
      PROVE  TotalAmount(first[i]) - TotalAmount(p.ins[i]) = p.chs[i]
  <2> DEFINE x == Change(p, i)
             y == ToOther(p)
  <2>1. /\ x.amt \in Nat /\ p.chs[i] \in Int /\ TotalAmount(p.ins[i]) \in Nat
        /\ p.outs[i] = IF p.req.kind = "transfer" /\ i = 1 THEN <<x, y>> ELSE <<x>>
    BY ChosenOuts
  <2>2. x.amt = TotalAmount(p.ins[i]) + p.chs[i]
    BY DEF Change
  <2> HIDE DEF x, y
  <2>3. p.outs[i][1] = x
    BY <2>1
  <2>4. first[i] = <<x>>
    BY <1>2, <2>3
  <2>5. TotalAmount(<<x>>) = x.amt
    <3>1. x.amt \in Int
      BY <2>1
    <3> QED
      BY <3>1, OneOutput
  <2> QED
    BY <2>1, <2>2, <2>4, <2>5
<1> HIDE DEF first
<1>4. CalcAmountChanges(p.ins, first) = [i \in DOMAIN p.toks |-> p.chs[i]]
  BY <1>2, <1>3 DEF CalcAmountChanges
<1>5. [i \in DOMAIN p.toks |-> p.chs[i]] = p.chs
  BY <1>1
<1> QED
  BY <1>4, <1>5 DEF EnsureAmountChanges, first

-----------------------------------------------------------------------------
(***************************************************************************)
(* A step of call c that leaves the chain alone: where the call is, what   *)
(* became of its transaction, and its variables.                           *)
(***************************************************************************)
Moves(c, label, n, p) ==
  /\ client' = client /\ chain' = chain /\ seen' = seen
  /\ DOMAIN pc' = Calls /\ DOMAIN net' = Calls /\ DOMAIN plan' = Calls
  /\ pc'[c] = label /\ net'[c] = n /\ plan'[c] = p
  /\ \A d \in Calls : d # c => pc'[d] = pc[d] /\ net'[d] = net[d] /\ plan'[d] = plan[d]

\* A step of one call keeps the invariant if it keeps what is known of that
\* call.
LEMMA MovesOK ==
  ASSUME IInv, NEW c \in Calls, NEW label, NEW n, NEW p, Moves(c, label, n, p),
         CallOK(client, chain, label, n, p),
         net[c] = "executed" => n = "executed" /\ p.ins = plan[c].ins /\ p.outs = plan[c].outs
  PROVE  IInv'
<1>1. /\ Shape /\ History(client, chain, net, plan)
      /\ \A d \in Calls : CallOK(client, chain, pc[d], net[d], plan[d])
  BY DEF IInv
<1>2. /\ client' = client /\ chain' = chain /\ seen' = seen
      /\ DOMAIN pc' = Calls /\ DOMAIN net' = Calls /\ DOMAIN plan' = Calls
      /\ pc'[c] = label /\ net'[c] = n /\ plan'[c] = p
      /\ \A d \in Calls : d # c => pc'[d] = pc[d] /\ net'[d] = net[d] /\ plan'[d] = plan[d]
  BY DEF Moves
<1>3. Shape'
  BY <1>1, <1>2 DEF Shape
<1>4. History(client', chain', net', plan')
  <2>1. ASSUME NEW i \in 2 .. Len(chain), NEW d, d = chain[i].call
        PROVE  d \in Calls /\ Recorded(chain[i], net'[d], plan'[d])
    <3>1. d \in Calls /\ Recorded(chain[i], net[d], plan[d])
      BY <1>1, <2>1 DEF History
    <3>2. CASE d = c
      <4>1. net[c] = "executed"
        BY <3>1, <3>2 DEF Recorded
      <4> QED
        BY <1>2, <3>1, <3>2, <4>1 DEF Recorded
    <3>3. CASE d # c
      BY <1>2, <3>1, <3>3
    <3> QED
      BY <3>2, <3>3
  <2> QED
    BY <1>1, <1>2, <2>1 DEF History
<1>5. \A d \in Calls : CallOK(client', chain', pc'[d], net'[d], plan'[d])
  BY <1>1, <1>2
<1> QED
  BY <1>3, <1>4, <1>5 DEF IInv

LEMMA GotoMoves ==
  ASSUME Shape, NEW c \in Calls, NEW label, NEW p, Goto(c, label, p)
  PROVE  Moves(c, label, net[c], p)
BY DEF Shape, Goto, Moves

LEMMA FailMoves ==
  ASSUME Shape, NEW c \in Calls, NEW e, Fail(c, e)
  PROVE  Moves(c, "failed", net[c], [plan[c] EXCEPT !.err = e])
BY DEF Shape, Fail, Moves

\* What is known of a call.
LEMMA CallFacts ==
  ASSUME IInv, NEW c \in Calls
  PROVE  /\ Shape /\ client \in Clients /\ GoodChain(chain) /\ Len(chain) \in Nat /\ Len(chain) >= 1
         /\ CallOK(client, chain, pc[c], net[c], plan[c])
         /\ IsPlan(plan[c]) /\ Within(plan[c].view, Len(chain)) /\ plan[c].root \in 0 .. Len(chain)
         /\ pc[c] \notin {"sent", "done", "failed"} => net[c] = "none"
         /\ pc[c] # "failed" => plan[c].err = "none"
<1>1. Shape /\ client \in Clients /\ GoodChain(chain) /\ CallOK(client, chain, pc[c], net[c], plan[c])
  BY DEF IInv, Shape, History
<1> QED
  BY <1>1 DEF CallOK, GoodChain

\* A call goes on, or gives up, before its transaction is sent.
LEMMA GotoOK ==
  ASSUME IInv, NEW c \in Calls, pc[c] \notin {"sent", "done", "failed"}, NEW label, NEW p,
         Goto(c, label, p), CallOK(client, chain, label, "none", p)
  PROVE  IInv'
<1>1. net[c] = "none" /\ Shape
  BY CallFacts
<1>2. Moves(c, label, "none", p)
  BY <1>1, GotoMoves
<1> QED
  BY <1>1, <1>2, MovesOK

\* An error on the way.
LEMMA FailOK ==
  ASSUME IInv, NEW c \in Calls, NEW e, Fail(c, e),
         e # "amounts", e \in {"funds", "limit"} => plan[c].req.kind = "claim",
         e = "proof" => plan[c].rootFrom # "local", e = "circuit" => NoCircuit(plan[c])
  PROVE  IInv'
<1> DEFINE q == [plan[c] EXCEPT !.err = e]
<1>1. Shape /\ CallOK(client, chain, pc[c], net[c], plan[c]) /\ IsPlan(plan[c])
  BY CallFacts
<1>2. Moves(c, "failed", net[c], q)
  BY <1>1, FailMoves
<1>3. q.ins = plan[c].ins /\ q.outs = plan[c].outs
  BY <1>1, PlanErr
<1>4. CallOK(client, chain, "failed", net[c], q)
  BY <1>1, Failed
<1> HIDE DEF q
<1> QED
  BY <1>2, <1>3, <1>4, MovesOK

\* Another place in the code is reached with the variables as they are.
LEMMA Relabelled ==
  ASSUME NEW cl, NEW ch, NEW label, NEW n, NEW p, CallOK(cl, ch, label, n, p), NEW m, NEW l,
         label \in Later, l \in Later \ {"prove"},
         m \in {"none", "pending"}, m # "none" => l \in {"sent", "done", "failed"}
  PROVE  CallOK(cl, ch, l, m, p)
BY DEF CallOK, Later, Labels

-----------------------------------------------------------------------------
LEMMA SeeOK ==
  ASSUME IInv, SeeOutputs \/ SeeNullifiers \/ SeeTree
  PROVE  IInv'
<1>1. /\ client' = client /\ chain' = chain /\ pc' = pc /\ plan' = plan /\ net' = net
      /\ \E f \in {"outs", "nulls", "tree"} :
           seen' = [seen EXCEPT ![f] = @ + 1] /\ seen[f] < Len(chain)
  BY DEF SeeOutputs, SeeNullifiers, SeeTree
<1>2. Shape /\ History(client, chain, net, plan) /\ Len(chain) \in Nat
  BY DEF IInv, History, GoodChain
<1>3. Shape'
  BY <1>1, <1>2 DEF Shape
<1> QED
  BY <1>1, <1>2, <1>3 DEF IInv

\* The contract's answer.
LEMMA SettleOK ==
  ASSUME IInv, NEW c \in Calls, Settle(c)
  PROVE  IInv'
<1> DEFINE p == plan[c]
<1>1. /\ Shape /\ client \in Clients /\ GoodChain(chain) /\ Len(chain) \in Nat /\ Len(chain) >= 1
      /\ CallOK(client, chain, pc[c], net[c], p)
  BY CallFacts
<1>2. net[c] = "pending" /\ client' = client /\ seen' = seen /\ pc' = pc /\ plan' = plan
  BY DEF Settle
<1>3. Sound(client, chain, p) /\ pc[c] \in {"sent", "done", "failed"}
  BY <1>1, <1>2 DEF CallOK
<1>4. ASSUME NEW n \in {"executed", "rejected"}
      PROVE  CallOK(client, chain, pc[c], n, p)
  BY <1>1, <1>2, <1>3 DEF CallOK
<1>5. CASE Accepts(p)
  <2> DEFINE e == [call    |-> c,
                   ins     |-> BuildInNullifiers(p.ins),
                   outs    |-> BuildOutCommitments(p.outs),
                   changes |-> CalcAmountChanges(p.ins, p.outs)]
  <2>1. chain' = Append(chain, e) /\ net' = [net EXCEPT ![c] = "executed"]
    BY <1>5 DEF Settle
  <2>2. /\ e.call = c /\ e.ins = BuildInNullifiers(p.ins) /\ e.outs = BuildOutCommitments(p.outs)
        /\ e.changes = CalcAmountChanges(p.ins, p.outs)
    OBVIOUS
  <2> HIDE DEF e
  <2>3. Ledger(chain, p.toks, p.ins, p.outs, PayingOwner(p))
    BY <1>1, <1>3, SoundLedger
  <2>4. e.ins \in SUBSET UtxosOf(chain, Len(chain)) /\ GoodOutputs(e.outs)
    BY <2>2, <2>3, LedgerIns, LedgerOuts
  <2>5. e.ins \cap SpentOf(chain, Len(chain)) = {}
    BY <1>5, <2>2 DEF Accepts, Spent, SpentUpTo, SpentOf
  <2>6. /\ Grown(chain, chain') /\ GoodChain(chain')
        /\ Len(chain') = Len(chain) + 1 /\ chain'[Len(chain) + 1] = e
    BY <1>1, <2>1, <2>4, <2>5, ChainAppend
  <2>7. \A i \in 1 .. Len(chain) : chain'[i] = chain[i]
    BY <2>6 DEF Grown
  <2>8. /\ DOMAIN net' = Calls /\ net'[c] = "executed" /\ \A d \in Calls : d # c => net'[d] = net[d]
    BY <1>1, <2>1 DEF Shape
  <2>9. Shape'
    BY <1>1, <1>2, <2>6, <2>8 DEF Shape
  <2>10. History(client', chain', net', plan')
    <3>1. DOMAIN chain'[1].outs = GenesisPlaces(client'.utxos)
      <4>1. 1 \in 1 .. Len(chain) /\ DOMAIN chain[1].outs = GenesisPlaces(client.utxos)
        BY <1>1 DEF IInv, History
      <4> QED
        BY <1>2, <2>7, <4>1
    <3>2. ASSUME NEW i \in 2 .. Len(chain'), NEW d, d = chain'[i].call
          PROVE  d \in Calls /\ Recorded(chain'[i], net'[d], plan'[d])
      <4>1. CASE i = Len(chain) + 1
        BY <1>2, <2>2, <2>6, <2>8, <3>2, <4>1 DEF Recorded
      <4>2. CASE i \in 2 .. Len(chain)
        <5>1. chain'[i] = chain[i] /\ d \in Calls /\ Recorded(chain[i], net[d], plan[d])
          BY <2>7, <3>2, <4>2 DEF IInv, History
        <5>2. d # c
          BY <1>2, <5>1 DEF Recorded
        <5> QED
          BY <1>2, <2>8, <5>1, <5>2
      <4> QED
        BY <1>1, <2>6, <4>1, <4>2
    <3> QED
      BY <2>6, <3>1, <3>2 DEF History
  <2>11. ASSUME NEW d \in Calls PROVE CallOK(client', chain', pc'[d], net'[d], plan'[d])
    <3>1. CallOK(client, chain, pc[d], net'[d], plan[d])
      <4>1. CASE d = c
        BY <1>4, <2>8, <4>1
      <4>2. CASE d # c
        BY <2>8, <4>2 DEF IInv
      <4> QED
        BY <4>1, <4>2
    <3>2. CallOK(client, chain', pc[d], net'[d], plan[d])
      BY <1>1, <2>6, <3>1, CallGrows
    <3> QED
      BY <1>2, <3>2
  <2> QED
    BY <2>9, <2>10, <2>11 DEF IInv
<1>6. CASE ~Accepts(p)
  <2>1. chain' = chain /\ net' = [net EXCEPT ![c] = "rejected"]
    BY <1>6 DEF Settle
  <2>2. Moves(c, pc[c], "rejected", p)
    BY <1>1, <1>2, <2>1 DEF Moves, Shape
  <2>3. CallOK(client, chain, pc[c], "rejected", p)
    BY <1>4
  <2> QED
    BY <1>2, <2>2, <2>3, MovesOK
<1> QED
  BY <1>5, <1>6

-----------------------------------------------------------------------------
(***************************************************************************)
(* The flows step by step.                                                 *)
(***************************************************************************)
\* A call at its beginning.
LEMMA FreshCall ==
  ASSUME NEW cl, NEW ch, Len(ch) \in Nat, NEW r, NEW ask, NEW q,
         q = [NoPlan EXCEPT !.req = r, !.ask = ask, !.toks = r.toks, !.chs = ask],
         NEW label \in {"count", "fee", "select"},
         label \in {"count", "fee"} => Begun(cl, ch, q), label = "select" => Merged(cl, q),
         label = "fee" /\ cl.net = "evm" => PaysFee(r.kind)
  PROVE  CallOK(cl, ch, label, "none", q)
<1>1. /\ IsPlan(q) /\ q.view = [outs |-> 0, nulls |-> 0] /\ q.root = 0
      /\ q.rootFrom = "none" /\ q.err = "none" /\ q.req = r
  BY DEF IsPlan, NoPlan
<1>2. Within(q.view, Len(ch)) /\ q.root \in 0 .. Len(ch)
  BY <1>1 DEF Within
<1>3. label \in Labels /\ label \notin Later /\ label # "failed" /\ label # "prove"
  BY DEF Labels, Later
<1>4. Excused(ch, q)
  BY <1>1 DEF Excused
<1> QED
  BY <1>1, <1>2, <1>3, <1>4 DEF CallOK

\* A claim that passed its checks.
LEMMA ClaimValid ==
  ASSUME IInv, NEW r \in client.requests, r.kind = "claim", ValidRequest(r),
         NEW q, q.req = r, q.toks = r.toks
  PROVE  Claimable(chain, q)
<1>1. client \in Clients /\ DOMAIN chain[1].outs = GenesisPlaces(client.utxos)
  BY DEF IInv, Shape, History
<1>2. r.source \in {1} \X DOMAIN chain[1].outs
  BY <1>1, RequestFacts
<1>3. r.source \in UtxosOf(chain, 1)
  BY <1>2 DEF UtxosOf
<1> QED
  BY <1>3 DEF ValidRequest, Claimable, OutputAt, OutputOf

\* The beginning of a call.
LEMMA SimulatedAmounts ==
  ASSUME NEW r, r.chs \in Seq(Int), NEW sim \in SimulatedTransfers(r),
         NEW ask, ask = ModifyVolatileTokenAmountChanges(r.chs, sim)
  PROVE  ask \in Seq(Int) /\ Len(ask) = Len(r.chs)
<1> DEFINE n == Len(r.chs)
<1>1. n \in Nat /\ DOMAIN r.chs = 1 .. n /\ \A i \in 1 .. n : r.chs[i] \in Int
  OBVIOUS
<1>2. \A i \in 1 .. n : sim[i] \in Int
  BY <1>1 DEF SimulatedTransfers
<1> HIDE DEF n
<1>3. ask = [i \in 1 .. n |-> IF sim[i] # 0 THEN sim[i] ELSE r.chs[i]]
  BY <1>1 DEF ModifyVolatileTokenAmountChanges
<1>4. ask \in [1 .. n -> Int]
  BY <1>1, <1>2, <1>3
<1>5. ask \in Seq(Int) /\ Len(ask) = n
  BY <1>1, <1>4
<1> QED
  BY <1>5 DEF n

LEMMA BeginOK ==
  ASSUME IInv, client.net = "evm", NEW c \in Calls, NEW r \in client.requests,
         NEW sim \in SimulatedTransfers(r), Begin(c, r, sim)
  PROVE  IInv'
<1> DEFINE ask == ModifyVolatileTokenAmountChanges(r.chs, sim)
           q == [NoPlan EXCEPT !.req = r, !.ask = ask, !.toks = r.toks, !.chs = ask]
<1>1. client \in Clients /\ Len(chain) \in Nat
  BY CallFacts
<1>2. /\ r.kind \in Kinds /\ r.toks \in Seq(Tokens) /\ r.chs \in Seq(Int)
      /\ r.kind \in {"swap", "deposit", "depositForOther"} => Len(r.toks) = Len(r.chs)
  BY <1>1, RequestFacts
<1>3. ask \in Seq(Int) /\ Len(ask) = Len(r.chs)
  BY <1>2, SimulatedAmounts
<1>4. pc[c] = "idle"
  BY DEF Begin
<1>5. CASE ValidRequest(r)
  <2> DEFINE label == IF PaysFee(r.kind) THEN "fee" ELSE "select"
  <2>1. Goto(c, label, q)
    BY <1>5 DEF Begin
  <2> HIDE DEF ask
  <2>2. /\ IsPlan(q) /\ q.req = r /\ q.ask = ask /\ q.toks = r.toks /\ q.chs = ask
        /\ q.fee = ZeroFee("none")
    BY DEF IsPlan, NoPlan
  <2>3. r.kind = "claim" => Claimable(chain, q)
    BY <1>5, <2>2, ClaimValid
  <2>4. r.kind # "claim" => Len(ask) = Len(r.toks) /\ Len(ask) >= 1
    <3>1. Len(r.toks) >= 1
      BY <1>2, <1>5 DEF ValidRequest
    <3>2. r.kind # "claim" => Len(r.toks) = Len(r.chs)
      BY <1>2, <1>5 DEF ValidRequest, Kinds
    <3> QED
      BY <1>3, <3>1, <3>2
  <2>5. Begun(client, chain, q)
    BY <1>3, <2>2, <2>3, <2>4 DEF Begun
  <2>6. ~PaysFee(r.kind) => Merged(client, q)
    <3>1. ~PaysFee(r.kind) => ~PaysFee(q.req.kind)
      BY <2>2
    <3> HIDE DEF q
    <3> QED
      BY <1>1, <2>2, <2>5, <3>1, MergedAtOnce
  <2>7. label \in {"count", "fee", "select"} /\ (label = "select" => ~PaysFee(r.kind))
        /\ (label = "fee" => PaysFee(r.kind))
    OBVIOUS
  <2> HIDE DEF label
  <2>8. CallOK(client, chain, label, "none", q)
    BY <1>1, <2>5, <2>6, <2>7, FreshCall
  <2> HIDE DEF q
  <2> QED
    BY <1>4, <2>1, <2>8, GotoOK
<1>6. CASE ~ValidRequest(r)
  <2>1. Fail(c, "invalid")
    BY <1>6 DEF Begin
  <2> QED
    BY <2>1, FailOK
<1> QED
  BY <1>5, <1>6

\* The amounts of a call are merged with its fee.
LEMMA AtSelect ==
  ASSUME NEW cl, NEW ch, NEW n, NEW p, CallOK(cl, ch, "fee", n, p), NEW q,
         Merged(cl, q), IsPlan(q), q.req = p.req, q.view = p.view, q.root = p.root,
         q.rootFrom = p.rootFrom, q.err = p.err
  PROVE  CallOK(cl, ch, "select", "none", q)
<1>1. /\ Within(p.view, Len(ch)) /\ p.root \in 0 .. Len(ch) /\ p.err = "none"
  BY DEF CallOK
<1>2. Excused(ch, q)
  BY <1>1 DEF Excused
<1>3. "select" \in Labels /\ "select" \notin Later
  BY DEF Labels, Later
<1> QED
  BY <1>1, <1>2, <1>3 DEF CallOK

\* The fee.
LEMMA ResolveFeeOK ==
  ASSUME IInv, client.net = "evm", NEW c \in Calls, NEW q \in client.quotes,
         NEW raw, raw = GetFeeStructure(plan[c].req.feeTok, q.flat, q.rate),
         ResolveFee(c, raw, q.cross)
  PROVE  IInv'
<1> DEFINE p == plan[c]
           fee == FeeOfFlow(p, raw, q.cross)
<1>1. /\ client \in Clients /\ IsPlan(p) /\ CallOK(client, chain, pc[c], net[c], p)
  BY CallFacts
<1>2. pc[c] = "fee" /\ p.req.kind # "claim"
  BY DEF ResolveFee
<1>3. Begun(client, chain, p)
  BY <1>1, <1>2 DEF CallOK
<1>4. /\ p.req \in client.requests /\ p.chs = p.ask /\ p.ask \in Seq(Int) /\ Len(p.ask) >= 1
      /\ PaysFee(p.req.kind) => p.req.feeTok \in Tokens
  BY <1>1, <1>2, <1>3, BegunFacts
<1>5. CASE FeeOverTransactionValue(p.toks, p.chs, fee)
  <2>1. Fail(c, "fee")
    BY <1>5 DEF ResolveFee
  <2> QED
    BY <2>1, FailOK
<1>6. CASE ~FeeOverTransactionValue(p.toks, p.chs, fee)
  <2>1. Goto(c, "select", WithFee(p, fee))
    BY <1>6 DEF ResolveFee
  <2>0. PaysFee(p.req.kind)
    BY <1>1, <1>2 DEF CallOK
  <2>2. p.req.kind \in {"withdraw", "transfer", "swap"}
    BY <1>2, <2>0 DEF PaysFee
  <2>3. fee.token = p.req.feeTok /\ fee.flat \in Int
    <3>1. p.chs \in Seq(Int) /\ Len(p.chs) >= 1
      BY <1>4
    <3> QED
      BY <1>1, <2>2, <3>1, FlowFee, SMTT(40)
  <2>4. fee.token \in Tokens
    BY <1>4, <2>0, <2>3
  <2> HIDE DEF fee
  <2> DEFINE w == WithFee(p, fee)
  <2>5. /\ Merged(client, w) /\ IsPlan(w) /\ w.req = p.req /\ w.view = p.view /\ w.root = p.root
        /\ w.rootFrom = p.rootFrom /\ w.err = p.err
    BY <1>1, <1>2, <1>3, <2>0, <2>3, <2>4, MergedWithFee
  <2> HIDE DEF w
  <2>6. CallOK(client, chain, "select", "none", w)
    BY <1>1, <1>2, <2>5, AtSelect
  <2>7. Goto(c, "select", w)
    BY <2>1 DEF w
  <2> QED
    BY <1>2, <2>6, <2>7, GotoOK
<1> QED
  BY <1>5, <1>6

-----------------------------------------------------------------------------
\* The inputs and outputs have been chosen.
LEMMA AtRoot ==
  ASSUME NEW cl, NEW ch, NEW q, Sound(cl, ch, q), IsPlan(q), Within(q.view, Len(ch)),
         q.root \in 0 .. Len(ch), q.err = "none"
  PROVE  CallOK(cl, ch, "root", "none", q)
<1>1. Excused(ch, q)
  BY DEF Excused
<1>2. "root" \in Labels /\ "root" \in Later
  BY DEF Labels, Later
<1> QED
  BY <1>1, <1>2 DEF CallOK

\* The claim.
LEMMA ClaimUtxoOK ==
  ASSUME IInv, NEW c \in Calls, NEW q \in client.quotes,
         NEW raw, raw = GetFeeStructure(plan[c].req.feeTok, q.flat, q.rate),
         ClaimUtxo(c, raw)
  PROVE  IInv'
<1> DEFINE p == plan[c]
           src == OutputOf(chain, p.req.source).amt
           fee == [token |-> raw.token, flat |-> ClaimFee(src, raw), rate |-> 0]
           row == << [id |-> p.req.source, amt |-> src], Pad >>
           gets == [owner |-> "user", token |-> p.toks[1], amt |-> src - fee.flat]
           outs == << OutputUtxoProcessing(row, p.toks[1], -src, "claimable", <<gets>>) >>
           w == [p EXCEPT !.fee = fee, !.chs = << -src >>, !.ins = <<row>>, !.outs = outs]
<1>1. /\ client \in Clients /\ GoodChain(chain) /\ Len(chain) \in Nat /\ Len(chain) >= 1
      /\ IsPlan(p) /\ CallOK(client, chain, pc[c], net[c], p)
      /\ Within(p.view, Len(chain)) /\ p.root \in 0 .. Len(chain)
  BY CallFacts
<1>2. pc[c] = "fee" /\ p.req.kind = "claim"
  BY DEF ClaimUtxo
<1>3. Claimable(chain, p) /\ p.req \in client.requests /\ p.err = "none"
  BY <1>1, <1>2 DEF CallOK, Begun
<1>4. CASE ~ClaimPays(src, raw)
  <2>1. Fail(c, "funds")
    BY <1>4 DEF ClaimUtxo, OutputAt, OutputOf
  <2> QED
    BY <1>2, <2>1, FailOK
<1>5. CASE ClaimPays(src, raw)
  <2>1. Goto(c, "root", w)
    BY <1>5 DEF ClaimUtxo, OutputAt, OutputOf
  <2>2. src \in Int
    <3>1. p.req.source \in UtxosOf(chain, Len(chain))
      <4>1. 1 \in Int /\ Len(chain) \in Int /\ 1 <= Len(chain)
        BY <1>1
      <4> QED
        BY <1>3, <4>1, UtxosMono DEF Claimable
    <3> QED
      BY <1>1, <3>1, OutputGood
  <2>3. raw.token = p.req.feeTok /\ raw.flat \in Nat /\ raw.rate \in Nat
    BY <1>1, QuoteFacts, RawFee
  <2>4. fee.token = p.toks[1] /\ fee.flat = ClaimFee(src, raw)
    BY <1>3, <2>3 DEF Claimable
  <2>5. ClaimFee(src, raw) \in Int /\ src > ClaimFee(src, raw)
    <3>1. ClaimRate(raw) \in Int /\ src - raw.flat \in Int
      BY <2>2, <2>3, RateAssumption DEF ClaimRate
    <3>2. ((src - raw.flat) * ClaimRate(raw)) \div BPS \in Int
      BY <3>1, ShareInt
    <3> QED
      BY <1>5, <2>3, <3>2 DEF ClaimFee, ClaimPays
  <2> HIDE DEF fee, outs, row
  <2>6. /\ IsPlan(w) /\ w.fee = fee /\ w.ins = <<row>> /\ w.outs = outs
        /\ w.req = p.req /\ w.toks = p.toks /\ w.view = p.view /\ w.root = p.root /\ w.err = p.err
    BY <1>1 DEF IsPlan
  <2> HIDE DEF w
  <2>7. Claimable(chain, w)
    BY <1>3, <2>6 DEF Claimable
  <2>8. ClaimSound(chain, w)
    BY <2>4, <2>5, <2>6, <2>7 DEF ClaimSound, outs, row
  <2>9. Sound(client, chain, w)
    BY <1>2, <1>3, <2>6, <2>8 DEF Sound, ChoosesUtxos
  <2>10. CallOK(client, chain, "root", "none", w)
    BY <1>1, <1>3, <2>6, <2>9, AtRoot
  <2> QED
    BY <1>2, <2>1, <2>10, GotoOK
<1> QED
  BY <1>4, <1>5

-----------------------------------------------------------------------------
LEMMA MergedSame ==
  ASSUME NEW cl, NEW p, NEW q,
         q.req = p.req, q.ask = p.ask, q.toks = p.toks, q.chs = p.chs, q.fee = p.fee
  PROVE  Merged(cl, q) <=> Merged(cl, p)
<1>1. \A t : ChangeIn(q, t) = ChangeIn(p, t) /\ Asked(q, t) = Asked(p, t) /\ FeeIn(q, t) = FeeIn(p, t)
  BY DEF ChangeIn, Asked, FeeIn
<1>2. SolanaAmounts(cl, q) <=> SolanaAmounts(cl, p)
  BY DEF SolanaAmounts
<1> QED
  BY <1>1, <1>2 DEF Merged

\* A call that cannot be paid ends.
LEMMA GivesUp ==
  ASSUME NEW cl, NEW ch, NEW q, IsPlan(q), Within(q.view, Len(ch)), q.root \in 0 .. Len(ch),
         q.err \in {"limit", "funds"}, Unpayable(ch, q)
  PROVE  CallOK(cl, ch, "failed", "none", q)
<1>1. Excused(ch, q)
  BY DEF Excused
<1>2. "failed" \in Labels /\ "failed" \notin Later
  BY DEF Labels, Later
<1> QED
  BY <1>1, <1>2 DEF CallOK

\* The selection.
LEMMA ViewRows ==
  ASSUME NEW toks, NEW view
  PROVE  [i \in DOMAIN toks |-> SortAndPadUtxos(UnspentIn(view, toks[i]))] = RowsOf(chain, toks, view)
<1>1. \A t : UnspentIn(view, t) = StockOf(chain, view, t)
  BY DEF UnspentIn, StockOf, Choice, UtxosUpTo, UtxosOf, SpentUpTo, SpentOf, OutputAt, OutputOf
<1> QED
  BY <1>1 DEF RowsOf

LEMMA SelectUtxosOK ==
  ASSUME IInv, client.net = "evm", NEW c \in Calls, SelectUtxos(c)
  PROVE  IInv'
<1> DEFINE p == plan[c]
           view == [outs |-> seen.outs, nulls |-> seen.nulls]
           rows == RowsOf(chain, p.toks, view)
           ins == AddPaddingToUtxos(rows)
           outs == [i \in DOMAIN p.toks |->
                      OutputUtxoProcessing(ins[i], p.toks[i], p.chs[i], "user", RecipientOutput(p, i))]
<1>1. /\ client \in Clients /\ GoodChain(chain) /\ Len(chain) \in Nat /\ Len(chain) >= 1 /\ Shape
      /\ IsPlan(p) /\ CallOK(client, chain, pc[c], net[c], p) /\ p.root \in 0 .. Len(chain)
  BY CallFacts
<1>2. pc[c] = "select" /\ p.req.kind # "depositForOther"
  BY DEF SelectUtxos
<1>3. Merged(client, p) /\ p.err = "none"
  BY <1>1, <1>2 DEF CallOK
<1>4. Within(view, Len(chain))
  BY <1>1 DEF Within, Shape
<1>5. [i \in DOMAIN p.toks |-> SortAndPadUtxos(UnspentIn(view, p.toks[i]))] = rows
  BY ViewRows
<1> HIDE DEF view
<1>6. DOMAIN ins = DOMAIN p.toks
  <2>1. p.toks \in Seq(Tokens)
    BY <1>3 DEF Merged
  <2> QED
    BY <1>1, <1>4, <2>1, ChosenRows
<1>7. ASSUME NEW e \in {"limit", "funds"}, Goto(c, "failed", [p EXCEPT !.view = view, !.err = e]),
             \A q : Merged(client, q) /\ q.view = view /\ q.toks = p.toks /\ q.chs = p.chs =>
                      Unpayable(chain, q)
      PROVE  IInv'
  <2> DEFINE q == [p EXCEPT !.view = view, !.err = e]
  <2>1. /\ IsPlan(q) /\ q.view = view /\ q.err = e /\ q.root = p.root
        /\ q.req = p.req /\ q.ask = p.ask /\ q.toks = p.toks /\ q.chs = p.chs /\ q.fee = p.fee
    BY <1>1 DEF IsPlan
  <2>2. Goto(c, "failed", q)
    BY <1>7
  <2> HIDE DEF q
  <2>3. Merged(client, q)
    BY <1>3, <2>1, MergedSame
  <2>4. Unpayable(chain, q)
    BY <1>7, <2>1, <2>3
  <2>5. CallOK(client, chain, "failed", "none", q)
    BY <1>1, <1>4, <2>1, <2>4, GivesUp
  <2> QED
    BY <1>2, <2>2, <2>5, GotoOK
<1>8. CASE OverLimit(rows, p.chs)
  <2>1. Goto(c, "failed", [p EXCEPT !.view = view, !.err = "limit"])
    BY <1>5, <1>8 DEF SelectUtxos, view
  <2>2. \A q : Merged(client, q) /\ q.view = view /\ q.toks = p.toks /\ q.chs = p.chs =>
                 Unpayable(chain, q)
    BY <1>1, <1>4, <1>8, LimitUnpayable
  <2> QED
    BY <1>7, <2>1, <2>2
<1>9. CASE ~OverLimit(rows, p.chs) /\ \E i \in DOMAIN ins : InsufficientFunds(ins[i], p.chs[i])
  <2>1. Goto(c, "failed", [p EXCEPT !.view = view, !.err = "funds"])
    BY <1>5, <1>9 DEF SelectUtxos, view
  <2>2. PICK i \in DOMAIN p.toks : InsufficientFunds(ins[i], p.chs[i])
    BY <1>6, <1>9
  <2>3. \A q : Merged(client, q) /\ q.view = view /\ q.toks = p.toks /\ q.chs = p.chs =>
                 Unpayable(chain, q)
    BY <1>1, <1>4, <2>2, FundsUnpayable
  <2> QED
    BY <1>7, <2>1, <2>3
<1>10. CASE ~OverLimit(rows, p.chs) /\ ~\E i \in DOMAIN ins : InsufficientFunds(ins[i], p.chs[i])
  <2> DEFINE q == [p EXCEPT !.view = view, !.ins = ins, !.outs = outs]
  <2>1. Goto(c, "root", q)
    BY <1>5, <1>10 DEF SelectUtxos, view
  <2>9. \A i \in DOMAIN p.toks : ~InsufficientFunds(ins[i], p.chs[i])
    BY <1>6, <1>10
  <2>10. ins = AddPaddingToUtxos(RowsOf(chain, p.toks, view)) /\ ~OverLimit(RowsOf(chain, p.toks, view), p.chs)
    BY <1>10
  <2>11. outs = [i \in DOMAIN p.toks |->
                   OutputUtxoProcessing(ins[i], p.toks[i], p.chs[i], "user", RecipientOutput(p, i))]
    OBVIOUS
  <2> HIDE DEF ins, outs, rows
  <2>2. /\ IsPlan(q) /\ q.view = view /\ q.ins = ins /\ q.outs = outs /\ q.root = p.root /\ q.err = p.err
        /\ q.req = p.req /\ q.ask = p.ask /\ q.toks = p.toks /\ q.chs = p.chs /\ q.fee = p.fee
    BY <1>1 DEF IsPlan
  <2> HIDE DEF q
  <2>3. Merged(client, q)
    BY <1>3, <2>2, MergedSame
  <2>4. \A i : RecipientOutput(q, i) = RecipientOutput(p, i)
    BY <2>2 DEF RecipientOutput
  <2>5. SelectSound(chain, q)
    BY <1>4, <2>2, <2>4, <2>9, <2>10, <2>11 DEF SelectSound
  <2>6. Sound(client, chain, q)
    BY <1>2, <2>2, <2>3, <2>5 DEF Sound, Merged
  <2>7. CallOK(client, chain, "root", "none", q)
    BY <1>1, <1>3, <1>4, <2>2, <2>6, AtRoot
  <2> QED
    BY <1>2, <2>1, <2>7, GotoOK
<1> QED
  BY <1>8, <1>9, <1>10

LEMMA RecipientOK ==
  ASSUME IInv, NEW c \in Calls, RecipientInputOutputUtxos(c)
  PROVE  IInv'
<1> DEFINE p == plan[c]
           ins == [i \in DOMAIN p.toks |-> <<Pad, Pad>>]
           outs == [i \in DOMAIN p.toks |->
                      << [owner |-> "other", token |-> p.toks[i], amt |-> p.chs[i]] >>]
           q == [p EXCEPT !.ins = ins, !.outs = outs]
<1>1. /\ IsPlan(p) /\ CallOK(client, chain, pc[c], net[c], p)
      /\ Within(p.view, Len(chain)) /\ p.root \in 0 .. Len(chain)
  BY CallFacts
<1>2. pc[c] = "select" /\ p.req.kind = "depositForOther" /\ Goto(c, "root", q)
  BY DEF RecipientInputOutputUtxos
<1>3. Merged(client, p) /\ p.err = "none"
  BY <1>1, <1>2 DEF CallOK
<1>4. /\ ins = [i \in DOMAIN p.toks |-> <<Pad, Pad>>]
      /\ outs = [i \in DOMAIN p.toks |->
                   << [owner |-> "other", token |-> p.toks[i], amt |-> p.chs[i]] >>]
  OBVIOUS
<1> HIDE DEF ins, outs
<1>5. /\ IsPlan(q) /\ q.ins = ins /\ q.outs = outs /\ q.view = p.view /\ q.root = p.root /\ q.err = p.err
      /\ q.req = p.req /\ q.ask = p.ask /\ q.toks = p.toks /\ q.chs = p.chs /\ q.fee = p.fee
  BY <1>1 DEF IsPlan
<1> HIDE DEF q
<1>6. Merged(client, q)
  BY <1>3, <1>5, MergedSame
<1>7. OtherSound(q)
  BY <1>4, <1>5 DEF OtherSound
<1>8. Sound(client, chain, q)
  BY <1>2, <1>5, <1>6, <1>7 DEF Sound, ChoosesUtxos, Merged
<1>9. CallOK(client, chain, "root", "none", q)
  BY <1>1, <1>3, <1>5, <1>8, AtRoot
<1> QED
  BY <1>2, <1>9, GotoOK

-----------------------------------------------------------------------------
\* The Merkle root, the proof and the approvals leave the rows alone.
LEMMA SameSound ==
  ASSUME NEW cl, NEW ch, NEW p, NEW q, Sound(cl, ch, p), IsPlan(q),
         q.req = p.req, q.ask = p.ask, q.toks = p.toks, q.chs = p.chs, q.fee = p.fee,
         q.view = p.view, q.ins = p.ins, q.outs = p.outs, Within(p.view, Len(ch)),
         q.err = "none", q.root \in 0 .. Len(ch), NEW label \in Later \ {"sent", "done"},
         label = "prove" /\ q.rootFrom = "local" => BuildInNullifiers(q.ins) \in SUBSET UtxosOf(ch, q.root)
  PROVE  CallOK(cl, ch, label, "none", q)
<1>1. Sound(cl, ch, q)
  BY ErrSound
<1>2. Excused(ch, q)
  BY DEF Excused
<1>3. label \in Labels /\ label \notin {"count", "fee", "select", "failed", "sent", "done"}
  BY DEF Labels, Later
<1> QED
  BY <1>1, <1>2, <1>3 DEF CallOK

\* From the Merkle root to the answer.
LEMMA LaterFacts ==
  ASSUME IInv, NEW c \in Calls, pc[c] \in Later \ {"sent", "done"}
  PROVE  /\ Sound(client, chain, plan[c]) /\ IsPlan(plan[c]) /\ plan[c].err = "none"
         /\ Within(plan[c].view, Len(chain)) /\ plan[c].root \in 0 .. Len(chain)
         /\ Len(chain) \in Nat /\ Len(chain) >= 1 /\ GoodChain(chain) /\ client \in Clients /\ Shape
         /\ net[c] = "none"
         /\ CallOK(client, chain, pc[c], net[c], plan[c])
         /\ pc[c] \notin {"sent", "done", "failed"}
<1>1. /\ Shape /\ client \in Clients /\ GoodChain(chain) /\ Len(chain) \in Nat /\ Len(chain) >= 1
      /\ CallOK(client, chain, pc[c], net[c], plan[c])
  BY CallFacts
<1>2. pc[c] \in Later /\ pc[c] \notin {"sent", "done", "failed"}
  BY DEF Later
<1> QED
  BY <1>1, <1>2 DEF CallOK

LEMMA HandleLocalOK ==
  ASSUME IInv, NEW c \in Calls, HandleLocalMerkleTrees(c)
  PROVE  IInv'
<1> DEFINE p == plan[c]
           q == [p EXCEPT !.root = seen.tree, !.rootFrom = "local"]
<1>1. pc[c] = "root" /\ seen.tree = Len(chain) /\ Goto(c, "prove", q)
  BY DEF HandleLocalMerkleTrees, AreLocalTreesUpToDate
<1>2. pc[c] \in Later \ {"sent", "done"} /\ "prove" \in Later \ {"sent", "done"}
  BY <1>1 DEF Later
<1>3. /\ Sound(client, chain, p) /\ IsPlan(p) /\ p.err = "none" /\ Within(p.view, Len(chain))
      /\ Len(chain) \in Nat /\ GoodChain(chain) /\ client \in Clients
      /\ pc[c] \notin {"sent", "done", "failed"}
  BY <1>2, LaterFacts
<1>4. /\ IsPlan(q) /\ q.root = Len(chain) /\ q.err = p.err
      /\ q.req = p.req /\ q.ask = p.ask /\ q.toks = p.toks /\ q.chs = p.chs /\ q.fee = p.fee
      /\ q.view = p.view /\ q.ins = p.ins /\ q.outs = p.outs
  BY <1>1, <1>3 DEF IsPlan
<1> HIDE DEF q
<1>5. BuildInNullifiers(q.ins) \in SUBSET UtxosOf(chain, q.root)
  <2>1. Ledger(chain, p.toks, p.ins, p.outs, PayingOwner(p))
    BY <1>3, SoundLedger
  <2>2. BuildInNullifiers(p.ins) \in SUBSET UtxosOf(chain, Len(chain))
    BY <2>1, LedgerIns
  <2> QED
    BY <1>4, <2>2
<1>6. q.root \in 0 .. Len(chain) /\ q.err = "none"
  BY <1>3, <1>4
<1>7. CallOK(client, chain, "prove", "none", q)
  BY <1>2, <1>3, <1>4, <1>5, <1>6, SameSound
<1> QED
  BY <1>1, <1>3, <1>7, GotoOK

LEMMA HandleRemoteOK ==
  ASSUME IInv, NEW c \in Calls, NEW k \in 1 .. Len(chain), HandleRemoteMerkleTrees(c, k)
  PROVE  IInv'
<1> DEFINE p == plan[c]
           q == [p EXCEPT !.root = k, !.rootFrom = "remote"]
<1>1. pc[c] = "root" /\ Goto(c, "prove", q)
  BY DEF HandleRemoteMerkleTrees
<1>2. pc[c] \in Later \ {"sent", "done"} /\ "prove" \in Later \ {"sent", "done"}
  BY <1>1 DEF Later
<1>3. /\ Sound(client, chain, p) /\ IsPlan(p) /\ p.err = "none" /\ Within(p.view, Len(chain))
      /\ Len(chain) \in Nat /\ pc[c] \notin {"sent", "done", "failed"}
  BY <1>2, LaterFacts
<1>4. /\ IsPlan(q) /\ q.root = k /\ q.err = p.err /\ q.rootFrom = "remote"
      /\ q.req = p.req /\ q.ask = p.ask /\ q.toks = p.toks /\ q.chs = p.chs /\ q.fee = p.fee
      /\ q.view = p.view /\ q.ins = p.ins /\ q.outs = p.outs
  BY <1>3 DEF IsPlan
<1> HIDE DEF q
<1>5. q.root \in 0 .. Len(chain) /\ q.err = "none" /\ q.rootFrom # "local"
  BY <1>3, <1>4
<1>6. CallOK(client, chain, "prove", "none", q)
  BY <1>2, <1>3, <1>4, <1>5, SameSound
<1> QED
  BY <1>1, <1>3, <1>6, GotoOK

\* From the proof on.
LEMMA OnwardOK ==
  ASSUME IInv, NEW c \in Calls, pc[c] \in Later \ {"sent", "done"},
         NEW label \in Later \ {"prove", "sent", "done"}, Goto(c, label, plan[c])
  PROVE  IInv'
<1>1. /\ Sound(client, chain, plan[c]) /\ IsPlan(plan[c]) /\ plan[c].err = "none"
      /\ Within(plan[c].view, Len(chain)) /\ plan[c].root \in 0 .. Len(chain)
      /\ pc[c] \notin {"sent", "done", "failed"}
  BY LaterFacts
<1>2. CallOK(client, chain, label, "none", plan[c])
  BY <1>1, SameSound
<1> QED
  BY <1>1, <1>2, GotoOK

LEMMA ProofFailsOK ==
  ASSUME IInv, NEW c \in Calls, pc[c] = "prove", ~Provable(plan[c]), Fail(c, "proof")
  PROVE  IInv'
<1>1. CallOK(client, chain, pc[c], net[c], plan[c])
  BY CallFacts
<1>2. plan[c].rootFrom # "local"
  BY <1>1 DEF CallOK, Provable, UtxosUpTo, UtxosOf
<1> QED
  BY <1>2, FailOK

LEMMA ConstructOK ==
  ASSUME IInv, NEW c \in Calls,
         ConstructZkProof(c) \/ (client.net = "solana" /\ ConstructSolanaZkProof(c))
  PROVE  IInv'
<1> DEFINE p == plan[c]
<1>1. pc[c] = "prove" /\ pc[c] \in Later \ {"sent", "done"}
  BY DEF ConstructZkProof, ConstructSolanaZkProof, Later
<1>2. CASE ~Provable(p)
  <2>1. Fail(c, "proof")
    BY <1>2 DEF ConstructZkProof, ConstructSolanaZkProof
  <2> QED
    BY <1>1, <1>2, <2>1, ProofFailsOK
<1>3. CASE Fail(c, "circuit") /\ NoCircuit(p)
  BY <1>3, FailOK
<1>4. CASE \E label \in {"approve", "send"} : Goto(c, label, p)
  <2>1. {"approve", "send"} \in SUBSET (Later \ {"prove", "sent", "done"})
    BY DEF Later
  <2> QED
    BY <1>1, <1>4, <2>1, OnwardOK
<1>5. /\ ~NoCircuit(p) => HasCircuit(EvmCircuits, p.ins, p.outs)
      /\ client.net = "solana" => HasCircuit(SolanaCircuits, p.ins, p.outs)
  <2>1. Sound(client, chain, p) /\ client \in Clients /\ GoodChain(chain)
    BY <1>1, LaterFacts, CallFacts
  <2> HIDE DEF p
  <2> QED
    BY <2>1, SoundFits
<1>6. CASE Provable(p) /\ ConstructZkProof(c)
  BY <1>3, <1>4, <1>5, <1>6 DEF ConstructZkProof
<1>7. CASE Provable(p) /\ client.net = "solana" /\ ConstructSolanaZkProof(c)
  BY <1>4, <1>5, <1>7 DEF ConstructSolanaZkProof
<1> QED
  BY <1>2, <1>6, <1>7

LEMMA ReadAllowancesOK ==
  ASSUME IInv, NEW c \in Calls, ReadAllowances(c)
  PROVE  IInv'
<1> DEFINE p == plan[c]
<1>1. pc[c] = "approve" /\ pc[c] \in Later \ {"sent", "done"}
  BY DEF ReadAllowances, Short, Later
<1>2. \/ Goto(c, "send", p)
      \/ \E label \in {"reset", "approving"} : \E k : Goto(c, label, [p EXCEPT !.approved = k])
  BY DEF ReadAllowances, Short
<1>3. CASE Goto(c, "send", p)
  <2>1. "send" \in Later \ {"prove", "sent", "done"}
    BY DEF Later
  <2> QED
    BY <1>1, <1>3, <2>1, OnwardOK
<1>4. ASSUME NEW label \in {"reset", "approving"}, NEW k, Goto(c, label, [p EXCEPT !.approved = k])
      PROVE  IInv'
  <2> DEFINE q == [p EXCEPT !.approved = k]
  <2>1. /\ Sound(client, chain, p) /\ IsPlan(p) /\ p.err = "none"
        /\ Within(p.view, Len(chain)) /\ p.root \in 0 .. Len(chain)
        /\ pc[c] \notin {"sent", "done", "failed"}
    BY <1>1, LaterFacts
  <2>2. /\ IsPlan(q) /\ q.root = p.root /\ q.err = p.err
        /\ q.req = p.req /\ q.ask = p.ask /\ q.toks = p.toks /\ q.chs = p.chs /\ q.fee = p.fee
        /\ q.view = p.view /\ q.ins = p.ins /\ q.outs = p.outs
    BY <2>1 DEF IsPlan
  <2>3. Goto(c, label, q)
    BY <1>4
  <2> HIDE DEF q
  <2>4. label \in Later \ {"sent", "done"} /\ label # "prove" /\ q.err = "none" /\ q.root \in 0 .. Len(chain)
    BY <2>1, <2>2 DEF Later
  <2>5. CallOK(client, chain, label, "none", q)
    BY <2>1, <2>2, <2>4, SameSound
  <2> QED
    BY <2>1, <2>3, <2>5, GotoOK
<1> QED
  BY <1>2, <1>3, <1>4

LEMMA ApproveOK ==
  ASSUME IInv, NEW c \in Calls, ResetAllowance(c) \/ ApproveTokenToHinkal(c)
  PROVE  IInv'
<1>1. /\ pc[c] \in Later \ {"sent", "done"}
      /\ \E label \in {"approving", "approve"} : \E amount : ApproveCall(c, amount, label)
  BY DEF ResetAllowance, ApproveTokenToHinkal, Later
<1>2. PICK label \in {"approving", "approve"} : \E amount : ApproveCall(c, amount, label)
  BY <1>1
<1>3. /\ Sound(client, chain, plan[c]) /\ IsPlan(plan[c]) /\ plan[c].err = "none" /\ Shape
      /\ Within(plan[c].view, Len(chain)) /\ plan[c].root \in 0 .. Len(chain) /\ net[c] = "none"
  BY <1>1, LaterFacts
<1>4. label \in Later \ {"sent", "done"} /\ label # "prove"
  BY DEF Later
<1>5. CallOK(client, chain, label, "none", plan[c])
  BY <1>3, <1>4, SameSound
<1>6. Moves(c, label, "none", plan[c])
  BY <1>2, <1>3 DEF ApproveCall, Moves, Shape
<1> QED
  BY <1>3, <1>5, <1>6, MovesOK

LEMMA SendOK ==
  ASSUME IInv, NEW c \in Calls, Send(c)
  PROVE  IInv'
<1>1. pc[c] = "send" /\ pc[c] \in Later \ {"sent", "done"}
  BY DEF Send, Later
<1>2. CallOK(client, chain, pc[c], net[c], plan[c]) /\ net[c] = "none" /\ Shape
  BY <1>1, LaterFacts
<1>3. pc[c] \in Later /\ "sent" \in Later \ {"prove"}
  BY <1>1 DEF Later
<1>4. CallOK(client, chain, "sent", "pending", plan[c])
  BY <1>2, <1>3, Relabelled
<1>5. Moves(c, "sent", "pending", plan[c])
  BY <1>2 DEF Send, Moves, Shape
<1> QED
  BY <1>2, <1>4, <1>5, MovesOK

LEMMA AnswerOK ==
  ASSUME IInv, NEW c \in Calls, Answer(c)
  PROVE  IInv'
<1>1. Shape /\ CallOK(client, chain, pc[c], net[c], plan[c])
  BY CallFacts
<1>2. pc[c] = "sent"
  BY DEF Answer
<1>3. CASE Fail(c, "answer")
  BY <1>3, FailOK
<1>4. CASE ~Fail(c, "answer")
  <2>1. Moves(c, "done", net[c], plan[c])
    BY <1>1, <1>4 DEF Answer, Moves, Shape
  <2>2. CallOK(client, chain, "done", net[c], plan[c])
    BY <1>1, <1>2 DEF CallOK, Labels, Later
  <2> QED
    BY <2>1, <2>2, MovesOK
<1> QED
  BY <1>3, <1>4

LEMMA RequestFailsOK ==
  ASSUME IInv, NEW c \in Calls, RequestFails(c) \/ SolanaRequestFails(c)
  PROVE  IInv'
<1>1. Fail(c, "request")
  BY DEF RequestFails, SolanaRequestFails
<1> QED
  BY <1>1, FailOK

-----------------------------------------------------------------------------
(***************************************************************************)
(* The flows of Solana.                                                    *)
(***************************************************************************)
LEMMA SolanaBeginOK ==
  ASSUME IInv, client.net = "solana", NEW c \in Calls, NEW r \in client.requests, SolanaBegin(c, r)
  PROVE  IInv'
<1> DEFINE q == [NoPlan EXCEPT !.req = r, !.ask = r.chs, !.toks = r.toks, !.chs = r.chs]
           label == IF r.kind = "claim" THEN "fee" ELSE "count"
<1>1. client \in Clients /\ Len(chain) \in Nat
  BY CallFacts
<1>2. r.toks \in Seq(Tokens) /\ r.chs \in Seq(Int)
  BY <1>1, RequestFacts
<1>3. pc[c] = "idle"
  BY DEF SolanaBegin
<1>4. CASE ValidSolanaRequest(r)
  <2>1. Goto(c, label, q)
    BY <1>4 DEF SolanaBegin
  <2>2. q.req = r /\ q.ask = r.chs /\ q.toks = r.toks /\ q.chs = r.chs
    BY DEF NoPlan
  <2>3. r.kind = "claim" => Claimable(chain, q)
    BY <1>4, <2>2, ClaimValid DEF ValidSolanaRequest
  <2>4. r.kind # "claim" => /\ Len(r.chs) = Len(r.toks) /\ Len(r.chs) >= 1
                            /\ Len(r.toks) = IF r.kind = "swap" THEN 2 ELSE 1
    BY <1>4 DEF ValidSolanaRequest
  <2>5. Begun(client, chain, q)
    BY <1>2, <2>2, <2>3, <2>4 DEF Begun
  <2>6. label \in {"count", "fee", "select"} /\ label # "select"
    OBVIOUS
  <2> HIDE DEF label
  <2>7. CallOK(client, chain, label, "none", q)
    BY <1>1, <2>5, <2>6, FreshCall
  <2> HIDE DEF q
  <2> QED
    BY <1>3, <2>1, <2>7, GotoOK
<1>5. CASE ~ValidSolanaRequest(r)
  <2>1. Fail(c, "invalid")
    BY <1>5 DEF SolanaBegin
  <2> QED
    BY <2>1, FailOK
<1> QED
  BY <1>4, <1>5

\* The count and the fees.
LEMMA CountOK ==
  ASSUME IInv, client.net = "solana", NEW c \in Calls, CalculateSolanaNullifierCount(c)
  PROVE  IInv'
<1>1. pc[c] = "count" /\ Goto(c, "fee", plan[c])
  BY DEF CalculateSolanaNullifierCount
<1>2. CallOK(client, chain, pc[c], net[c], plan[c])
  BY CallFacts
<1>3. CallOK(client, chain, "fee", "none", plan[c])
  BY <1>1, <1>2 DEF CallOK, Labels, Later
<1> QED
  BY <1>1, <1>3, GotoOK

\* What is known of a call whose fee is resolved.
LEMMA FeeFacts ==
  ASSUME IInv, client.net = "solana", NEW c \in Calls, pc[c] = "fee", plan[c].req.kind # "claim"
  PROVE  /\ client \in Clients /\ IsPlan(plan[c]) /\ CallOK(client, chain, "fee", net[c], plan[c])
         /\ Begun(client, chain, plan[c])
         /\ plan[c].toks \in Seq(Tokens) /\ plan[c].chs \in Seq(Int) /\ Len(plan[c].chs) = Len(plan[c].toks)
         /\ Len(plan[c].toks) = IF plan[c].req.kind = "swap" THEN 2 ELSE 1
<1>1. client \in Clients /\ IsPlan(plan[c]) /\ CallOK(client, chain, "fee", net[c], plan[c])
  BY CallFacts
<1>2. Begun(client, chain, plan[c])
  BY <1>1 DEF CallOK
<1>3. /\ plan[c].toks \in Seq(Tokens) /\ plan[c].chs \in Seq(Int) /\ Len(plan[c].chs) = Len(plan[c].toks)
  BY <1>1, <1>2, BegunFacts
<1> QED
  BY <1>1, <1>2, <1>3 DEF Begun

LEMMA ChargeOK ==
  ASSUME IInv, client.net = "solana", NEW c \in Calls, pc[c] = "fee", plan[c].req.kind # "claim",
         NEW i, NEW amount, SolanaCharge(client, plan[c], i, amount),
         Goto(c, "select", Charge(plan[c], i, amount))
  PROVE  IInv'
<1> DEFINE w == Charge(plan[c], i, amount)
<1>1. /\ client \in Clients /\ IsPlan(plan[c]) /\ CallOK(client, chain, "fee", net[c], plan[c])
      /\ Begun(client, chain, plan[c])
  BY FeeFacts
<1>2. /\ Merged(client, w) /\ IsPlan(w) /\ w.req = plan[c].req /\ w.view = plan[c].view
      /\ w.root = plan[c].root /\ w.rootFrom = plan[c].rootFrom /\ w.err = plan[c].err
  BY <1>1, MergedCharge
<1> HIDE DEF w
<1>3. CallOK(client, chain, "select", "none", w)
  BY <1>1, <1>2, AtSelect
<1>4. Goto(c, "select", w)
  BY DEF w
<1> QED
  BY <1>3, <1>4, GotoOK

LEMMA ShareNat ==
  ASSUME NEW a \in Nat, NEW r \in Nat
  PROVE  (a * r) \div BPS \in Int /\ (a * r) \div BPS >= 0
<1>1. a * r \in Int /\ a * r >= 0
  OBVIOUS
<1> QED
  BY <1>1, DivInt, RateAssumption

LEMMA TotalFee ==
  ASSUME NEW a \in Int, NEW fee, fee.flat \in Nat, fee.rate \in Nat
  PROVE  CalculateTotalFee(a, fee) \in Int /\ (a >= 0 => CalculateTotalFee(a, fee) >= 0)
<1>1. CalculateTotalFee(a, fee) \in Int
  BY ShareInt DEF CalculateTotalFee
<1>2. ASSUME a >= 0 PROVE CalculateTotalFee(a, fee) >= 0
  <2>1. (a * fee.rate) \div BPS \in Int /\ (a * fee.rate) \div BPS >= 0
    BY <1>2, ShareNat
  <2> QED
    BY <2>1 DEF CalculateTotalFee
<1> QED
  BY <1>1, <1>2

LEMMA SolanaWithdrawOK ==
  ASSUME IInv, client.net = "solana", NEW c \in Calls, NEW q \in client.quotes,
         NEW raw, raw = GetFeeStructure(plan[c].req.feeTok, q.flat, q.rate),
         SolanaWithdraw(c, raw, q.cross) \/ SolanaTransfer(c, raw)
  PROVE  IInv'
<1> DEFINE p == plan[c]
<1>1. pc[c] = "fee" /\ p.req.kind \in {"withdraw", "transfer"} /\ p.req.kind # "claim"
  BY DEF SolanaWithdraw, SolanaTransfer
<1>2. /\ client \in Clients /\ p.toks \in Seq(Tokens) /\ p.chs \in Seq(Int) /\ Len(p.chs) = Len(p.toks)
      /\ Len(p.toks) = 1
  <2>1. Len(p.toks) = IF p.req.kind = "swap" THEN 2 ELSE 1
    BY <1>1, FeeFacts
  <2> QED
    BY <1>1, <2>1, FeeFacts
<1>3. 1 \in DOMAIN p.toks /\ p.chs[1] \in Int /\ -p.chs[1] \in Int
  BY <1>2
<1>4. raw.flat \in Nat /\ raw.rate \in Nat /\ q.cross \in Nat
  BY <1>2, QuoteFacts, RawFee
<1>5. ASSUME NEW amount \in Int, p.chs[1] < 0 => amount >= 0,
             Goto(c, "select", Charge(p, 1, amount))
      PROVE  IInv'
  <2>1. SolanaCharge(client, p, 1, amount)
    BY <1>1, <1>3, <1>5 DEF SolanaCharge
  <2> QED
    BY <1>1, <1>5, <2>1, ChargeOK
<1>6. CASE SolanaWithdraw(c, raw, q.cross)
  <2> DEFINE amount == WithdrawFee(p, raw, q.cross).flat
  <2>1. Goto(c, "select", Charge(p, 1, amount))
    BY <1>6 DEF SolanaWithdraw
  <2>2. /\ CalculateTotalFee(-p.chs[1], raw) \in Int
        /\ -p.chs[1] >= 0 => CalculateTotalFee(-p.chs[1], raw) >= 0
    BY <1>3, <1>4, TotalFee
  <2>3. amount = IF raw.token = p.toks[1] \/ raw.rate = 0
                 THEN CalculateTotalFee(-p.chs[1], raw) ELSE raw.flat + q.cross
    BY DEF WithdrawFee, CalculateModifiedFeeStructure
  <2> HIDE DEF amount
  <2>4. amount \in Int /\ (p.chs[1] < 0 => amount >= 0)
    BY <1>3, <1>4, <2>2, <2>3
  <2> QED
    BY <1>5, <2>1, <2>4
<1>7. CASE SolanaTransfer(c, raw)
  <2> DEFINE fee == PrivateSendFeeStructure(raw)
             amount == CalculateTotalFee(-p.chs[1], fee)
  <2>1. Goto(c, "select", Charge(p, 1, amount))
    BY <1>7 DEF SolanaTransfer, SolanaTransferFee
  <2>2. fee.flat \in Nat /\ fee.rate \in Nat
    <3>1. q.flat \in Nat /\ q.rate \in Nat
      BY <1>2, QuoteFacts
    <3> QED
      BY <3>1, PrivateFee
  <2> HIDE DEF fee
  <2>3. amount \in Int /\ (-p.chs[1] >= 0 => amount >= 0)
    BY <1>3, <2>2, TotalFee
  <2> HIDE DEF amount
  <2>4. amount \in Int /\ (p.chs[1] < 0 => amount >= 0)
    BY <1>3, <2>3
  <2> QED
    BY <1>5, <2>1, <2>4
<1> QED
  BY <1>6, <1>7

LEMMA SlippageInt ==
  ASSUME NEW a \in Int, NEW slip \in Slippages(a)
  PROVE  slip \in Int
<1>1. SlippageRate \in Int /\ BPS \in Nat \ {0}
  BY SlippageAssumption, RateAssumption
<1>2. a * SlippageRate \in Int
  BY <1>1
<1>3. a * SlippageRate + BPS - 1 \in Int
  BY <1>1, <1>2
<1>4. (a * SlippageRate) \div BPS \in Int /\ (a * SlippageRate + BPS - 1) \div BPS \in Int
  BY <1>1, <1>2, <1>3, DivInt
<1> QED
  BY <1>4 DEF Slippages

LEMMA SolanaSwapOK ==
  ASSUME IInv, client.net = "solana", NEW c \in Calls, NEW q \in client.quotes,
         NEW raw, raw = GetFeeStructure(plan[c].req.feeTok, q.flat, q.rate),
         NEW slip, SolanaSwap(c, raw, slip)
  PROVE  IInv'
<1> DEFINE p == plan[c]
           amount == SwapKeepsBack(p.chs[2], slip, raw)
<1>1. pc[c] = "fee" /\ p.req.kind = "swap" /\ p.req.kind # "claim" /\ slip \in Slippages(p.chs[2])
  BY DEF SolanaSwap
<1>2. /\ client \in Clients /\ p.toks \in Seq(Tokens) /\ p.chs \in Seq(Int) /\ Len(p.chs) = Len(p.toks)
      /\ Len(p.toks) = 2
  <2>1. Len(p.toks) = IF p.req.kind = "swap" THEN 2 ELSE 1
    BY <1>1, FeeFacts
  <2> QED
    BY <1>1, <2>1, FeeFacts
<1>3. 2 \in DOMAIN p.toks /\ p.chs[2] \in Int
  BY <1>2
<1>4. raw.flat = q.flat /\ raw.rate = q.rate /\ raw.flat \in Int /\ raw.rate \in Int
  BY <1>2, QuoteFacts, RawFee
<1>5. amount = SwapKeepsBack(p.chs[2], slip, q)
  BY <1>4 DEF SwapKeepsBack
<1>6. amount \in Int
  <2>1. slip \in Int
    BY <1>1, <1>3, SlippageInt
  <2>2. (p.chs[2] * raw.rate) \div BPS \in Int
    BY <1>3, <1>4, ShareInt
  <2> QED
    BY <1>4, <2>1, <2>2 DEF SwapKeepsBack
<1>7. CASE p.chs[2] - amount < 0
  <2>1. Fail(c, "low output")
    BY <1>7 DEF SolanaSwap
  <2> QED
    BY <2>1, FailOK
<1>8. CASE ~(p.chs[2] - amount < 0)
  <2>1. Goto(c, "select", Charge(p, 2, amount))
    BY <1>8 DEF SolanaSwap
  <2> HIDE DEF amount
  <2>3. p.chs[2] - amount >= 0
    BY <1>3, <1>6, <1>8
  <2>2. SolanaCharge(client, p, 2, amount)
    BY <1>1, <1>3, <1>5, <1>6, <2>3 DEF SolanaCharge
  <2> QED
    BY <1>1, <2>1, <2>2, ChargeOK
<1> QED
  BY <1>7, <1>8

-----------------------------------------------------------------------------
LEMMA RowsHere ==
  ASSUME NEW p
  PROVE  Rows(p) = RowsOf(chain, p.toks, View)
BY ViewRows DEF Rows

\* The selection, which compares the amounts once more.
LEMMA SelectSolanaOK ==
  ASSUME IInv, client.net = "solana", NEW c \in Calls, SelectSolanaUtxos(c)
  PROVE  IInv'
<1> DEFINE o == plan[c]
           v == View
           p == [o EXCEPT !.view = View]
           rows == RowsOf(chain, p.toks, View)
           ins == AddPaddingToUtxos(Rows(p))
           outs == [i \in DOMAIN ins |-> SolanaOutputs(p, ins[i], i)]
           next == [p EXCEPT !.ins = ins, !.outs = outs]
<1>1. /\ client \in Clients /\ GoodChain(chain) /\ Len(chain) \in Nat /\ Len(chain) >= 1 /\ Shape
      /\ IsPlan(o) /\ CallOK(client, chain, pc[c], net[c], o) /\ o.root \in 0 .. Len(chain)
  BY CallFacts
<1>2. pc[c] = "select"
  BY DEF SelectSolanaUtxos
<1>3. Merged(client, o) /\ o.err = "none"
  BY <1>1, <1>2 DEF CallOK
<1>4. Within(View, Len(chain))
  BY <1>1 DEF Within, Shape, View
<1>5. Rows(p) = rows
  BY RowsHere
<1>6. /\ \/ OverLimit(Rows(p), p.chs) /\ Goto(c, "failed", [p EXCEPT !.err = "limit"])
         \/ ~OverLimit(Rows(p), p.chs) /\ (\E i \in DOMAIN ins : InsufficientFunds(ins[i], p.chs[i]))
              /\ Goto(c, "failed", [p EXCEPT !.err = "funds"])
         \/ ~OverLimit(Rows(p), p.chs) /\ ~(\E i \in DOMAIN ins : InsufficientFunds(ins[i], p.chs[i]))
              /\ ~EnsureAmountChanges(next)
         \/ ~OverLimit(Rows(p), p.chs) /\ ~(\E i \in DOMAIN ins : InsufficientFunds(ins[i], p.chs[i]))
              /\ Goto(c, "root", next)
  BY DEF SelectSolanaUtxos
<1>7. /\ IsPlan(p) /\ p.view = View /\ p.root = o.root /\ p.err = o.err
      /\ p.req = o.req /\ p.ask = o.ask /\ p.toks = o.toks /\ p.chs = o.chs /\ p.fee = o.fee
  BY <1>1 DEF IsPlan
<1> HIDE DEF p
<1>8. Merged(client, p)
  BY <1>3, <1>7, MergedSame
<1>9. SolanaAmounts(client, p)
  BY <1>8 DEF Merged
<1>10. ins = AddPaddingToUtxos(rows) /\ Within(p.view, Len(chain)) /\ rows = RowsOf(chain, p.toks, p.view)
  BY <1>4, <1>5, <1>7
<1>11. DOMAIN ins = DOMAIN p.toks
  <2>1. p.toks \in Seq(Tokens)
    BY <1>8 DEF Merged
  <2>2. ins = AddPaddingToUtxos(RowsOf(chain, p.toks, p.view))
    BY <1>10
  <2> QED
    BY <1>1, <1>10, <2>1, <2>2, ChosenRows
<1>12. ASSUME NEW e \in {"limit", "funds"}, Goto(c, "failed", [p EXCEPT !.err = e]), Unpayable(chain, p)
       PROVE  IInv'
  <2> DEFINE q == [p EXCEPT !.err = e]
  <2>1. /\ IsPlan(q) /\ q.view = p.view /\ q.err = e /\ q.root = p.root
        /\ q.req = p.req /\ q.toks = p.toks /\ q.chs = p.chs
    BY <1>7 DEF IsPlan
  <2>2. Goto(c, "failed", q)
    BY <1>12
  <2> HIDE DEF q
  <2>3. Unpayable(chain, q)
    BY <1>12, <2>1 DEF Unpayable
  <2>4. Within(q.view, Len(chain)) /\ q.root \in 0 .. Len(chain) /\ q.err \in {"limit", "funds"}
    BY <1>1, <1>7, <1>10, <2>1
  <2>5. CallOK(client, chain, "failed", "none", q)
    BY <2>1, <2>3, <2>4, GivesUp
  <2> QED
    BY <1>2, <2>2, <2>5, GotoOK
<1>13. CASE OverLimit(rows, p.chs)
  <2>1. Goto(c, "failed", [p EXCEPT !.err = "limit"])
    BY <1>5, <1>6, <1>13
  <2>2. OverLimit(RowsOf(chain, p.toks, p.view), p.chs)
    BY <1>10, <1>13
  <2>3. Unpayable(chain, p)
    BY <1>1, <1>8, <1>10, <2>2, LimitUnpayable
  <2> QED
    BY <1>12, <2>1, <2>3
<1>14. CASE ~OverLimit(rows, p.chs) /\ \E i \in DOMAIN ins : InsufficientFunds(ins[i], p.chs[i])
  <2>1. Goto(c, "failed", [p EXCEPT !.err = "funds"])
    BY <1>5, <1>6, <1>14
  <2>2. PICK i \in DOMAIN p.toks : InsufficientFunds(ins[i], p.chs[i])
    BY <1>11, <1>14
  <2>3. ins = AddPaddingToUtxos(RowsOf(chain, p.toks, p.view))
    BY <1>10
  <2> HIDE DEF ins
  <2>4. Unpayable(chain, p)
    BY <1>1, <1>8, <1>10, <2>2, <2>3, FundsUnpayable
  <2> QED
    BY <1>12, <2>1, <2>4
<1>15. CASE ~OverLimit(rows, p.chs) /\ ~\E i \in DOMAIN ins : InsufficientFunds(ins[i], p.chs[i])
  <2>1. ~EnsureAmountChanges(next) \/ Goto(c, "root", next)
    BY <1>5, <1>6, <1>15
  <2>2. \A i \in DOMAIN p.toks : ~InsufficientFunds(ins[i], p.chs[i])
    BY <1>11, <1>15
  <2>3. ins = AddPaddingToUtxos(RowsOf(chain, p.toks, p.view)) /\ ~OverLimit(RowsOf(chain, p.toks, p.view), p.chs)
    BY <1>10, <1>15
  <2>0. outs = [i \in DOMAIN ins |-> SolanaOutputs(p, ins[i], i)]
    OBVIOUS
  <2> HIDE DEF ins, rows
  <2>4. outs = [i \in DOMAIN p.toks |->
                  OutputUtxoProcessing(ins[i], p.toks[i], p.chs[i], "user", RecipientOutput(p, i))]
    <3>1. [i \in DOMAIN ins |-> SolanaOutputs(p, ins[i], i)]
            = [i \in DOMAIN p.toks |->
                 OutputUtxoProcessing(ins[i], p.toks[i], p.chs[i], "user", RecipientOutput(p, i))]
      BY <1>1, <1>8, <1>9, <1>10, <2>2, <2>3, SolanaOuts
    <3> QED
      BY <2>0, <3>1
  <2> HIDE DEF outs
  <2>5. /\ IsPlan(next) /\ next.view = p.view /\ next.ins = ins /\ next.outs = outs
        /\ next.root = p.root /\ next.err = p.err
        /\ next.req = p.req /\ next.ask = p.ask /\ next.toks = p.toks /\ next.chs = p.chs
        /\ next.fee = p.fee
    BY <1>7 DEF IsPlan
  <2> HIDE DEF next
  <2>6. Merged(client, next)
    BY <1>8, <2>5, MergedSame
  <2>7. \A i : RecipientOutput(next, i) = RecipientOutput(p, i)
    BY <2>5 DEF RecipientOutput
  <2>8. SelectSound(chain, next)
    BY <1>10, <2>2, <2>3, <2>4, <2>5, <2>7 DEF SelectSound
  <2>9. EnsureAmountChanges(next)
    BY <1>1, <2>6, <2>8, AmountsEnsured
  <2>10. Sound(client, chain, next)
    <3>1. next.req.kind \in {"withdraw", "transfer", "swap"} /\ next.req \in client.requests
      BY <1>8, <1>9, <2>5 DEF SolanaAmounts, Merged
    <3> QED
      BY <2>6, <2>8, <3>1 DEF Sound
  <2>11. CallOK(client, chain, "root", "none", next)
    <3>1. Within(next.view, Len(chain)) /\ next.root \in 0 .. Len(chain) /\ next.err = "none"
      BY <1>1, <1>3, <1>7, <1>10, <2>5
    <3> QED
      BY <2>5, <2>10, <3>1, AtRoot
  <2>12. Goto(c, "root", next)
    BY <2>1, <2>9
  <2> QED
    BY <1>2, <2>11, <2>12, GotoOK
<1> QED
  BY <1>13, <1>14, <1>15

-----------------------------------------------------------------------------
LEMMA Idle ==
  ASSUME NEW cl, NEW ch, Len(ch) \in Nat
  PROVE  CallOK(cl, ch, "idle", "none", NoPlan)
<1>1. /\ IsPlan(NoPlan) /\ NoPlan.view = [outs |-> 0, nulls |-> 0] /\ NoPlan.root = 0
      /\ NoPlan.rootFrom = "none" /\ NoPlan.err = "none"
  BY DEF IsPlan, NoPlan
<1>2. Within(NoPlan.view, Len(ch)) /\ NoPlan.root \in 0 .. Len(ch)
  BY <1>1 DEF Within
<1> QED
  BY <1>1, <1>2 DEF CallOK, Labels, Later, Excused

\* The invariant at the beginning and in every step.
LEMMA InitOK == SolInit => IInv
<1> SUFFICES ASSUME Init PROVE IInv
  BY DEF SolInit
<1> DEFINE outs == [x \in GenesisPlaces(client.utxos) |-> client.utxos[x[2]]]
           e == [call |-> "genesis", ins |-> {}, outs |-> outs, changes |-> <<>>]
<1>1. /\ client \in Clients /\ chain = <<e>>
      /\ seen = [outs |-> 1, nulls |-> 1, tree |-> 1]
      /\ pc = [c \in Calls |-> "idle"] /\ plan = [c \in Calls |-> NoPlan]
      /\ net = [c \in Calls |-> "none"]
  BY DEF Init
<1>2. e.ins = {} /\ e.outs = outs
  OBVIOUS
<1> HIDE DEF e
<1>3. Len(chain) = 1 /\ chain[1] = e /\ chain = [i \in 1 .. 1 |-> chain[i]]
  BY <1>1
<1>4. GoodOutputs(outs)
  <2> DEFINE n == Len(client.utxos)
  <2>1. n \in Nat /\ DOMAIN client.utxos = 1 .. n
    BY <1>1, TransactAssumption
  <2>2. \A j \in 1 .. n : client.utxos[j] \in Output /\ client.utxos[j].amt > 0
    BY <1>1, <2>1, TransactAssumption
  <2> HIDE DEF n
  <2>3. DOMAIN outs = {1} \X (1 .. n)
    BY <2>1 DEF GenesisPlaces
  <2> DEFINE h == [j \in 1 .. n |-> <<1, j>>]
  <2>10. {h[j] : j \in 1 .. n} = {1} \X (1 .. n)
    OBVIOUS
  <2>4. DOMAIN outs \in SUBSET (Nat \X Nat)
    BY <2>1, <2>3
  <2>5. IsFiniteSet(DOMAIN outs)
    <3>1. IsFiniteSet(1 .. n)
      BY <2>1, FS_Interval
    <3>2. DOMAIN outs = {h[j] : j \in 1 .. n}
      BY <2>3, <2>10
    <3> HIDE DEF h, outs
    <3>3. IsFiniteSet({h[j] : j \in 1 .. n})
      BY <3>1, FiniteImage
    <3> QED
      BY <3>2, <3>3, Zenon
  <2>6. \A x \in DOMAIN outs : x[2] \in 1 .. n /\ outs[x] = client.utxos[x[2]]
    BY <2>1, <2>3 DEF GenesisPlaces
  <2> HIDE DEF outs
  <2>7. ASSUME NEW x \in DOMAIN outs
        PROVE  /\ outs[x].owner \in Owners /\ outs[x].token \in Tokens /\ outs[x].amt \in Int
               /\ outs[x].amt > 0
    <3>1. outs[x] \in Output /\ outs[x].amt > 0
      BY <2>2, <2>6
    <3> QED
      BY <3>1 DEF Output
  <2> QED
    BY <2>4, <2>5, <2>7 DEF GoodOutputs
<1>5. History(client, chain, net, plan)
  <2>1. DOMAIN chain[1].outs = GenesisPlaces(client.utxos)
    BY <1>2, <1>3
  <2> HIDE DEF outs
  <2>2. GoodChain(chain)
    BY <1>2, <1>3, <1>4 DEF GoodChain
  <2>3. 2 .. Len(chain) = {}
    BY <1>3
  <2> QED
    BY <2>1, <2>2, <2>3 DEF History
<1>6. Shape
  BY <1>1, <1>3 DEF Shape
<1>7. \A c \in Calls : CallOK(client, chain, pc[c], net[c], plan[c])
  BY <1>1, <1>3, Idle
<1> QED
  BY <1>5, <1>6, <1>7 DEF IInv

LEMMA NextOK ==
  ASSUME IInv, AnyNext
  PROVE  IInv'
<1>1. CASE client.net = "evm" /\ Next
  <2>1. CASE SeeOutputs \/ SeeNullifiers \/ SeeTree
    BY <2>1, SeeOK
  <2>2. ASSUME NEW c \in Calls, NEW r \in client.requests, NEW sim \in SimulatedTransfers(r),
               Begin(c, r, sim)
        PROVE  IInv'
    BY <1>1, <2>2, BeginOK
  <2>3. ASSUME NEW c \in Calls, NEW q \in client.quotes,
               NEW raw, raw = GetFeeStructure(plan[c].req.feeTok, q.flat, q.rate),
               ResolveFee(c, raw, q.cross) \/ ClaimUtxo(c, raw)
        PROVE  IInv'
    BY <1>1, <2>3, ResolveFeeOK, ClaimUtxoOK
  <2>4. ASSUME NEW c \in Calls, SelectUtxos(c)
        PROVE  IInv'
    BY <1>1, <2>4, SelectUtxosOK
  <2>5. ASSUME NEW c \in Calls, RecipientInputOutputUtxos(c)
        PROVE  IInv'
    BY <2>5, RecipientOK
  <2>6. ASSUME NEW c \in Calls, HandleLocalMerkleTrees(c)
        PROVE  IInv'
    BY <2>6, HandleLocalOK
  <2>7. ASSUME NEW c \in Calls, NEW k \in 1 .. Len(chain), HandleRemoteMerkleTrees(c, k)
        PROVE  IInv'
    BY <2>7, HandleRemoteOK
  <2>8. ASSUME NEW c \in Calls, ConstructZkProof(c)
        PROVE  IInv'
    BY <2>8, ConstructOK
  <2>9. ASSUME NEW c \in Calls, ReadAllowances(c)
        PROVE  IInv'
    BY <2>9, ReadAllowancesOK
  <2>10. ASSUME NEW c \in Calls, ResetAllowance(c) \/ ApproveTokenToHinkal(c)
         PROVE  IInv'
    BY <2>10, ApproveOK
  <2>11. ASSUME NEW c \in Calls, Send(c)
         PROVE  IInv'
    BY <2>11, SendOK
  <2>12. ASSUME NEW c \in Calls, Answer(c)
         PROVE  IInv'
    BY <2>12, AnswerOK
  <2>13. ASSUME NEW c \in Calls, RequestFails(c)
         PROVE  IInv'
    BY <2>13, RequestFailsOK
  <2>14. ASSUME NEW c \in Calls, Settle(c)
         PROVE  IInv'
    BY <2>14, SettleOK
  <2> QED
    BY <1>1, <2>1, <2>2, <2>3, <2>4, <2>5, <2>6, <2>7, <2>8, <2>9, <2>10, <2>11, <2>12, <2>13, <2>14
       DEF Next
<1>2. CASE client.net = "solana" /\ SolNext
  <2>1. CASE SeeOutputs \/ SeeNullifiers \/ SeeTree
    BY <2>1, SeeOK
  <2>2. ASSUME NEW c \in Calls, NEW r \in client.requests, SolanaBegin(c, r)
        PROVE  IInv'
    BY <1>2, <2>2, SolanaBeginOK
  <2>3. ASSUME NEW c \in Calls, CalculateSolanaNullifierCount(c)
        PROVE  IInv'
    BY <1>2, <2>3, CountOK
  <2>4. ASSUME NEW c \in Calls, NEW q \in client.quotes,
               NEW raw, raw = GetFeeStructure(plan[c].req.feeTok, q.flat, q.rate),
               SolanaWithdraw(c, raw, q.cross) \/ SolanaTransfer(c, raw)
        PROVE  IInv'
    BY <1>2, <2>4, SolanaWithdrawOK
  <2>5. ASSUME NEW c \in Calls, NEW q \in client.quotes,
               NEW raw, raw = GetFeeStructure(plan[c].req.feeTok, q.flat, q.rate),
               NEW slip, SolanaSwap(c, raw, slip)
        PROVE  IInv'
    BY <1>2, <2>5, SolanaSwapOK
  <2>6. ASSUME NEW c \in Calls, NEW q \in client.quotes,
               NEW raw, raw = GetFeeStructure(plan[c].req.feeTok, q.flat, q.rate),
               SolanaClaimUtxo(c, raw)
        PROVE  IInv'
    BY <2>6, ClaimUtxoOK DEF SolanaClaimUtxo
  <2>7. ASSUME NEW c \in Calls, SelectSolanaUtxos(c)
        PROVE  IInv'
    BY <1>2, <2>7, SelectSolanaOK
  <2>8. ASSUME NEW c \in Calls, HandleLocalMerkleTrees(c)
        PROVE  IInv'
    BY <2>8, HandleLocalOK
  <2>9. ASSUME NEW c \in Calls, NEW k \in 1 .. Len(chain), HandleRemoteMerkleTrees(c, k)
        PROVE  IInv'
    BY <2>9, HandleRemoteOK
  <2>10. ASSUME NEW c \in Calls, ConstructSolanaZkProof(c)
         PROVE  IInv'
    BY <1>2, <2>10, ConstructOK
  <2>11. ASSUME NEW c \in Calls, Send(c) \/ Answer(c) \/ Settle(c)
         PROVE  IInv'
    BY <2>11, SendOK, AnswerOK, SettleOK
  <2>12. ASSUME NEW c \in Calls, SolanaRequestFails(c)
         PROVE  IInv'
    BY <2>12, RequestFailsOK
  <2> QED
    BY <1>2, <2>1, <2>2, <2>3, <2>4, <2>5, <2>6, <2>7, <2>8, <2>9, <2>10, <2>11, <2>12 DEF SolNext
<1> QED
  BY <1>1, <1>2 DEF AnyNext

LEMMA StutterOK ==
  ASSUME IInv, UNCHANGED vars
  PROVE  IInv'
BY DEF IInv, Shape, History, vars

(***************************************************************************)
(* The invariant holds for every client, on an EVM chain or on Solana: the *)
(* chain is a history of calls, no UTXO is created after or spent before   *)
(* it could be, and every call has, wherever it is, the amounts, inputs    *)
(* and outputs of its request (the flows of                                *)
(* internal/functions/transactions).                                       *)
(***************************************************************************)
THEOREM Invariance == AnySpec => []IInv
<1>1. SolInit => IInv
  BY InitOK
<1>2. IInv /\ [AnyNext]_solVars => IInv'
  BY NextOK, StutterOK DEF solVars
<1> QED
  BY <1>1, <1>2, PTL DEF AnySpec

-----------------------------------------------------------------------------
LEMMA ViewStock ==
  ASSUME NEW view, NEW t
  PROVE  UnspentIn(view, t) = StockOf(chain, view, t)
BY DEF UnspentIn, StockOf, Choice, UtxosUpTo, SpentUpTo, OutputAt, UtxosOf, SpentOf, OutputOf

\* Three properties are part of the invariant.
LEMMA Refused == IInv => LocalRootCovers /\ RefusedOnlyIfUnpayable /\ FitsCircuit
<1> SUFFICES ASSUME IInv PROVE LocalRootCovers /\ RefusedOnlyIfUnpayable /\ FitsCircuit
  OBVIOUS
<1>1. ASSUME NEW c \in Calls PROVE Excused(chain, plan[c])
  <2>1. CallOK(client, chain, pc[c], net[c], plan[c])
    BY CallFacts
  <2> QED
    BY <2>1 DEF CallOK
<1>2. LocalRootCovers
  BY <1>1 DEF Excused, LocalRootCovers
<1>3. ASSUME NEW c \in Calls,
             plan[c].err \in {"funds", "limit"}, plan[c].req.kind # "claim"
      PROVE  \E i \in DOMAIN plan[c].toks :
               \A S \in SUBSET UnspentIn(plan[c].view, plan[c].toks[i]) :
                 Cardinality(S) <= MaxInput =>
                   SumFunctionOnSet([u \in S |-> u.amt], S) + plan[c].chs[i] < 0
  <2>1. Unpayable(chain, plan[c])
    BY <1>1, <1>3 DEF Excused
  <2> QED
    BY <2>1, ViewStock DEF Unpayable
<1>4. \A c \in Calls : plan[c].err # "amounts"
  BY <1>1 DEF Excused
<1>5. FitsCircuit
  BY <1>1 DEF Excused, NoCircuit, FitsCircuit
<1> QED
  BY <1>2, <1>3, <1>4, <1>5 DEF RefusedOnlyIfUnpayable

(***************************************************************************)
(* HandleLocalMerkleTrees: a local root that passed the comparison with    *)
(* the contract's covers the inputs that were chosen before.               *)
(***************************************************************************)
THEOREM RootCovers == AnySpec => []LocalRootCovers
BY Invariance, Refused, PTL

(***************************************************************************)
(* AddPaddingToUtxos and the check of the funds refuse a call only where   *)
(* no six UTXOs of the view would pay, and EnsureAmountChanges never       *)
(* refuses one.                                                            *)
(***************************************************************************)
THEOREM RefusedForGoodReason == AnySpec => []RefusedOnlyIfUnpayable
BY Invariance, Refused, PTL

(***************************************************************************)
(* sortAndPadUtxos and AddPaddingToUtxos give all tokens of a call one     *)
(* number of inputs, whatever UTXOs there are, and the rows that come out  *)
(* fit the circuit that GetZkProofVerifierName names; but for a transfer   *)
(* that spends a second token, and for more than five tokens.              *)
(***************************************************************************)
THEOREM RowsFitCircuit == AnySpec => []FitsCircuit
BY Invariance, Refused, PTL

-----------------------------------------------------------------------------
\* What the transactions of the chain are.
LEMMA ExecutedFacts ==
  ASSUME IInv, NEW i \in 2 .. Len(chain), NEW c, c = chain[i].call, NEW p, p = plan[c]
  PROVE  /\ c \in Calls /\ net[c] = "executed" /\ client \in Clients /\ GoodChain(chain)
         /\ chain[i].ins = BuildInNullifiers(p.ins)
         /\ Sound(client, chain, p)
         /\ EntryOf(chain, i, p)
<1>1. c \in Calls /\ Recorded(chain[i], net[c], p)
  BY DEF IInv, History
<1>2. net[c] = "executed" /\ chain[i].ins = BuildInNullifiers(p.ins)
      /\ chain[i].outs = BuildOutCommitments(p.outs)
      /\ chain[i].changes = CalcAmountChanges(p.ins, p.outs)
  BY <1>1 DEF Recorded
<1>3. client \in Clients /\ GoodChain(chain) /\ CallOK(client, chain, pc[c], net[c], p)
  BY <1>1, CallFacts
<1>4. Sound(client, chain, p)
  BY <1>2, <1>3 DEF CallOK
<1>5. Ledger(chain, p.toks, p.ins, p.outs, PayingOwner(p))
  BY <1>3, <1>4, SoundLedger
<1> QED
  BY <1>1, <1>2, <1>3, <1>4, <1>5 DEF EntryOf, Entry

\* The largest UTXO of a token is an input of every call that chooses among
\* them.
LEMMA LargestChosen ==
  ASSUME NEW ch, GoodChain(ch), NEW toks \in Seq(Tokens), NEW view, Within(view, Len(ch)),
         NEW ins, ins = AddPaddingToUtxos(RowsOf(ch, toks, view)),
         NEW k \in DOMAIN toks, StockOf(ch, view, toks[k]) # {}
  PROVE  SortUtxos(StockOf(ch, view, toks[k]))[1].id \in BuildInNullifiers(ins)
<1> DEFINE U == StockOf(ch, view, toks[k])
           row == ins[k]
<1>1. /\ DOMAIN ins = DOMAIN toks /\ Filled(row, U) /\ Supply(ch, U, toks[k], "user")
      /\ Len(row) = MinInput \/ Len(row) = MaxInput
  BY ChosenRows
<1>2. Stock(U)
  BY <1>1 DEF Supply
<1>3. U # {}
  OBVIOUS
<1>4. k \in DOMAIN ins
  BY <1>1
<1> HIDE DEF U, row
<1>5. IsFiniteSet(U)
  BY <1>2 DEF Stock
<1>6. Cardinality(U) \in Nat /\ Cardinality(U) # 0
  BY <1>3, <1>5, FS_CardinalityType, FS_EmptySet
<1>7. DOMAIN row = 1 .. Len(row) /\ \A j \in DOMAIN row : j \in Taken(row) <=> j <= Cardinality(U)
  BY <1>1, <1>2, RowPlaces
<1>8. Len(row) \in Nat /\ Len(row) >= 1
  BY <1>1, Limits
<1>9. 1 \in Taken(row)
  BY <1>6, <1>7, <1>8
<1>10. row[1] = SortUtxos(U)[1]
  BY <1>1, <1>2, <1>9, RowPlaces
<1>11. SortUtxos(U)[1].id \in RowIds(row)
  BY <1>9, <1>10 DEF RowIds
<1>12. RowIds(row) \in SUBSET BuildInNullifiers(ins)
  <2>1. BuildInNullifiers(ins) = UNION {RowIds(ins[i]) : i \in DOMAIN ins}
    BY NullifiersAreRows
  <2> QED
    BY <2>1, <1>4 DEF row
<1> QED
  BY <1>11, <1>12 DEF U

\* Two calls of one view share its largest UTXO, which is spent once.
LEMMA OncePerView == IInv => AtMostOncePerView
<1> SUFFICES ASSUME IInv, NEW i \in 2 .. Len(chain), NEW j \in 2 .. Len(chain), i # j,
                    NEW p, p = plan[chain[i].call], NEW q, q = plan[chain[j].call],
                    ChoosesUtxos(p), ChoosesUtxos(q), p.view = q.view,
                    NEW t \in Range(p.toks) \cap Range(q.toks)
             PROVE  UnspentIn(p.view, t) = {}
  BY DEF AtMostOncePerView
<1>1. GoodChain(chain) /\ Sound(client, chain, p) /\ chain[i].ins = BuildInNullifiers(p.ins)
  BY ExecutedFacts
<1>2. Sound(client, chain, q) /\ chain[j].ins = BuildInNullifiers(q.ins)
  BY ExecutedFacts
<1>3. SelectSound(chain, p) /\ Merged(client, p)
  BY <1>1 DEF Sound, ChoosesUtxos
<1>4. SelectSound(chain, q) /\ Merged(client, q)
  BY <1>2 DEF Sound, ChoosesUtxos
<1>5. p.toks \in Seq(Tokens) /\ q.toks \in Seq(Tokens)
  BY <1>3, <1>4 DEF Merged
<1>6. /\ Within(p.view, Len(chain))
      /\ p.ins = AddPaddingToUtxos(RowsOf(chain, p.toks, p.view))
      /\ q.ins = AddPaddingToUtxos(RowsOf(chain, q.toks, p.view))
  BY <1>3, <1>4 DEF SelectSound
<1>7. PICK k \in DOMAIN p.toks : p.toks[k] = t
  BY DEF Range
<1>8. PICK m \in DOMAIN q.toks : q.toks[m] = t
  BY DEF Range
<1> SUFFICES ASSUME StockOf(chain, p.view, t) # {} PROVE FALSE
  BY ViewStock
<1> DEFINE id == SortUtxos(StockOf(chain, p.view, t))[1].id
<1>9. id \in BuildInNullifiers(p.ins)
  BY <1>1, <1>5, <1>6, <1>7, LargestChosen
<1>10. id \in BuildInNullifiers(q.ins)
  BY <1>1, <1>5, <1>6, <1>8, LargestChosen
<1>11. chain[i].ins \cap chain[j].ins = {}
  BY <1>1, SpentOnce
<1> QED
  BY <1>1, <1>2, <1>9, <1>10, <1>11

(***************************************************************************)
(* Of two calls that chose in the same token from the same view of the     *)
(* client's cache, the chain executes at most one.                         *)
(***************************************************************************)
THEOREM OneEffectPerView == AnySpec => []AtMostOncePerView
BY Invariance, OncePerView, PTL

-----------------------------------------------------------------------------
LEMMA OwnerGainIs ==
  ASSUME NEW i, NEW owner, NEW t
  PROVE  OwnerGains(i, owner, t) = Gain(chain, i, owner, t)
BY DEF OwnerGains, Gain, Worth, WorthOf, In, InToken, Of, OfOwner, Created, CreatedBy,
       OutputAt, OutputOf

LEMMA PoolGainIs ==
  ASSUME NEW i, NEW t, NEW p, p = plan[chain[i].call]
  PROVE  PoolGains(i, t) = Pool(chain, i, p.toks, t)
BY DEF PoolGains, Pool

\* is of ExecutedAsRequested.
Are(i, t, user, other, claimable, pool) ==
  /\ OwnerGains(i, "user", t) = user
  /\ OwnerGains(i, "other", t) = other
  /\ OwnerGains(i, "claimable", t) = claimable
  /\ PoolGains(i, t) = pool

LEMMA GainsBridge ==
  ASSUME NEW i, NEW t, NEW p, p = plan[chain[i].call], NEW user, NEW other, NEW claimable, NEW pool,
         GainsAre(chain, i, p, t, user, other, claimable, pool)
  PROVE  Are(i, t, user, other, claimable, pool)
BY OwnerGainIs, PoolGainIs DEF GainsAre, Are

LEMMA AskedInt ==
  ASSUME NEW cl \in Clients, NEW p, Merged(cl, p), NEW t \in Tokens
  PROVE  /\ Asked(p, t) \in Int /\ FeeIn(p, t) \in Int
         /\ ChangeIn(p, t) = Asked(p, t) - FeeIn(p, t)
         /\ Asked(p, t) = SumFunctionOnSet(p.ask, At(p.req.toks, t))
<1>1. p.req \in cl.requests /\ p.ask \in Seq(Int) /\ Len(p.ask) = Len(p.req.toks)
      /\ p.fee.flat \in Int
  BY DEF Merged
<1>2. p.req.toks \in Seq(Tokens) /\ IsInjective(p.req.toks)
  BY <1>1, RequestFacts
<1>3. DOMAIN p.ask = DOMAIN p.req.toks
  BY <1>1, <1>2
<1>4. Asked(p, t) = SumFunctionOnSet(p.ask, At(p.req.toks, t))
  BY <1>3 DEF Asked, At
<1>5. SumFunctionOnSet(p.ask, At(p.req.toks, t)) \in Int
  BY <1>1, <1>2, SumAtInt
<1>6. FeeIn(p, t) \in Int
  BY <1>1 DEF FeeIn
<1>7. ChangeIn(p, t) = Asked(p, t) - FeeIn(p, t)
  BY DEF Merged
<1> QED
  BY <1>4, <1>5, <1>6, <1>7

\* What a transfer of one token asks for in each token.
LEMMA TransferAsked ==
  ASSUME NEW cl \in Clients, NEW p, Merged(cl, p), Len(p.req.toks) = 1, NEW t \in Tokens
  PROVE  /\ t = p.toks[1] => Asked(p, t) = p.ask[1]
         /\ t # p.toks[1] => Asked(p, t) = 0
         /\ p.ask[1] \in Int
<1>1. /\ p.req \in cl.requests /\ p.ask \in Seq(Int) /\ Len(p.ask) = Len(p.req.toks)
      /\ p.toks[1] = p.req.toks[1]
  BY DEF Merged
<1>2. p.req.toks \in Seq(Tokens) /\ IsInjective(p.req.toks)
  BY <1>1, RequestFacts
<1>3. Asked(p, t) = SumFunctionOnSet(p.ask, At(p.req.toks, t))
  BY AskedInt
<1>4. 1 \in DOMAIN p.req.toks /\ p.ask[1] \in Int /\ \A k \in DOMAIN p.req.toks : k = 1
  BY <1>1, <1>2
<1>5. ASSUME t = p.toks[1] PROVE Asked(p, t) = p.ask[1]
  <2>1. p.req.toks[1] = t
    BY <1>1, <1>5
  <2> QED
    BY <1>2, <1>3, <1>4, <2>1, SumAt
<1>6. ASSUME t # p.toks[1] PROVE Asked(p, t) = 0
  <2>1. \A k \in DOMAIN p.req.toks : p.req.toks[k] # t
    BY <1>1, <1>4, <1>6
  <2> QED
    BY <1>3, <2>1, SumNowhere
<1> QED
  BY <1>4, <1>5, <1>6

Source(p, t) ==
  IF p.req.kind = "claim" /\ p.toks[1] = t THEN OutputAt(p.req.source).amt ELSE 0

\* The four cases of ExecutedAsRequested.
LEMMA TransferDone ==
  ASSUME IInv, NEW i \in 2 .. Len(chain), NEW t \in Tokens, NEW p, p = plan[chain[i].call],
         p.req.kind = "transfer", Len(p.req.toks) = 1
  PROVE  Are(i, t, Asked(p, t) - FeeIn(p, t), -Asked(p, t), 0, -FeeIn(p, t))
<1>1. client \in Clients /\ GoodChain(chain) /\ Sound(client, chain, p) /\ EntryOf(chain, i, p)
  BY ExecutedFacts
<1>2. Merged(client, p) /\ SelectSound(chain, p)
  BY <1>1 DEF Sound, ChoosesUtxos
<1> DEFINE gets == IF p.req.kind = "transfer" /\ t = p.toks[1] THEN -p.ask[1] ELSE 0
<1>3. GainsAre(chain, i, p, t, ChangeIn(p, t), gets, 0, ChangeIn(p, t) + gets)
  BY <1>1, <1>2, SelectGains
<1>4. /\ Asked(p, t) \in Int /\ FeeIn(p, t) \in Int
      /\ ChangeIn(p, t) = Asked(p, t) - FeeIn(p, t)
  BY <1>1, <1>2, AskedInt
<1>5. gets = -Asked(p, t)
  BY <1>1, <1>2, TransferAsked
<1> HIDE DEF gets
<1>6. ChangeIn(p, t) + gets = -FeeIn(p, t)
  BY <1>4, <1>5
<1>7. GainsAre(chain, i, p, t, Asked(p, t) - FeeIn(p, t), -Asked(p, t), 0, -FeeIn(p, t))
  BY <1>3, <1>4, <1>5, <1>6, Zenon
<1> QED
  BY <1>7, GainsBridge

\* What was asked for, by kind.
LEMMA ForOtherDone ==
  ASSUME IInv, NEW i \in 2 .. Len(chain), NEW t \in Tokens, NEW p, p = plan[chain[i].call],
         p.req.kind = "depositForOther"
  PROVE  Are(i, t, 0, Asked(p, t), 0, Asked(p, t))
<1>1. client \in Clients /\ GoodChain(chain) /\ Sound(client, chain, p) /\ EntryOf(chain, i, p)
  BY ExecutedFacts
<1>2. Merged(client, p) /\ OtherSound(p)
  BY <1>1 DEF Sound
<1>3. GainsAre(chain, i, p, t, 0, ChangeIn(p, t), 0, ChangeIn(p, t))
  BY <1>1, <1>2, OtherGains
<1>4. Asked(p, t) \in Int /\ ChangeIn(p, t) = Asked(p, t) - FeeIn(p, t)
  BY <1>1, <1>2, AskedInt
<1>5. FeeIn(p, t) = 0
  <2>1. p.fee.flat = 0
    BY <1>2 DEF Merged, PaysFee
  <2> QED
    BY <2>1 DEF FeeIn
<1>6. ChangeIn(p, t) = Asked(p, t)
  BY <1>4, <1>5
<1>7. GainsAre(chain, i, p, t, 0, Asked(p, t), 0, Asked(p, t))
  BY <1>3, <1>6, Zenon
<1> QED
  BY <1>7, GainsBridge

LEMMA ClaimDone ==
  ASSUME IInv, NEW i \in 2 .. Len(chain), NEW t \in Tokens, NEW p, p = plan[chain[i].call],
         p.req.kind = "claim"
  PROVE  Are(i, t, Source(p, t) - FeeIn(p, t), 0, -Source(p, t), -FeeIn(p, t))
<1>1. client \in Clients /\ GoodChain(chain) /\ Sound(client, chain, p) /\ EntryOf(chain, i, p)
  BY ExecutedFacts
<1>2. ClaimSound(chain, p)
  BY <1>1 DEF Sound
<1>3. Source(p, t) = IF p.toks[1] = t THEN OutputOf(chain, p.req.source).amt ELSE 0
  BY DEF Source, OutputAt, OutputOf
<1>4. GainsAre(chain, i, p, t, Source(p, t) - FeeIn(p, t), 0, -Source(p, t), -FeeIn(p, t))
  BY <1>1, <1>2, <1>3, ClaimGains
<1> QED
  BY <1>4, GainsBridge

LEMMA OthersDone ==
  ASSUME IInv, NEW i \in 2 .. Len(chain), NEW t \in Tokens, NEW p, p = plan[chain[i].call],
         p.req.kind \in {"withdraw", "withdrawDirect", "swap", "deposit"}
  PROVE  Are(i, t, Asked(p, t) - FeeIn(p, t), 0, 0, Asked(p, t) - FeeIn(p, t))
<1>1. client \in Clients /\ GoodChain(chain) /\ Sound(client, chain, p) /\ EntryOf(chain, i, p)
  BY ExecutedFacts
<1>2. Merged(client, p) /\ SelectSound(chain, p)
  BY <1>1 DEF Sound, ChoosesUtxos
<1> DEFINE gets == IF p.req.kind = "transfer" /\ t = p.toks[1] THEN -p.ask[1] ELSE 0
<1>3. GainsAre(chain, i, p, t, ChangeIn(p, t), gets, 0, ChangeIn(p, t) + gets)
  BY <1>1, <1>2, SelectGains
<1>4. /\ Asked(p, t) \in Int /\ FeeIn(p, t) \in Int
      /\ ChangeIn(p, t) = Asked(p, t) - FeeIn(p, t)
  BY <1>1, <1>2, AskedInt
<1>5. gets = 0
  OBVIOUS
<1> HIDE DEF gets
<1>6. ChangeIn(p, t) + gets = Asked(p, t) - FeeIn(p, t)
  BY <1>4, <1>5
<1>7. GainsAre(chain, i, p, t, Asked(p, t) - FeeIn(p, t), 0, 0, Asked(p, t) - FeeIn(p, t))
  BY <1>3, <1>4, <1>5, <1>6, Zenon
<1> QED
  BY <1>7, GainsBridge

\* All kinds together.
LEMMA Requested == IInv => ExecutedAsRequested
<1> SUFFICES ASSUME IInv PROVE ExecutedAsRequested
  OBVIOUS
<1> DEFINE P(i) == plan[chain[i].call]
<1>1. ASSUME NEW i \in 2 .. Len(chain), NEW t \in Tokens
      PROVE  /\ P(i).req.kind = "transfer" /\ Len(P(i).req.toks) = 1 =>
                  Are(i, t, Asked(P(i), t) - FeeIn(P(i), t), -Asked(P(i), t), 0, -FeeIn(P(i), t))
             /\ P(i).req.kind = "depositForOther" =>
                  Are(i, t, 0, Asked(P(i), t), 0, Asked(P(i), t))
             /\ P(i).req.kind = "claim" =>
                  Are(i, t, Source(P(i), t) - FeeIn(P(i), t), 0, -Source(P(i), t), -FeeIn(P(i), t))
             /\ P(i).req.kind \in {"withdraw", "withdrawDirect", "swap", "deposit"} =>
                  Are(i, t, Asked(P(i), t) - FeeIn(P(i), t), 0, 0, Asked(P(i), t) - FeeIn(P(i), t))
  BY TransferDone, ForOtherDone, ClaimDone, OthersDone
<1> QED
  BY <1>1 DEF ExecutedAsRequested, Are, Source

(***************************************************************************)
(* An executed withdrawal, transfer, swap, deposit or claim moves, in      *)
(* every token and for every party, what the caller asked for and the fee  *)
(* of its flow, and nothing else.                                          *)
(***************************************************************************)
THEOREM DoneAsRequested == AnySpec => []ExecutedAsRequested
BY Invariance, Requested, PTL

-----------------------------------------------------------------------------
\* Slippage and fee are shares of the quoted amount, up to their rounding.
LEMMA SlippageShare ==
  ASSUME NEW a \in Int, NEW x \in Int, x = a * SlippageRate, NEW slip \in Slippages(a)
  PROVE  slip \in Int /\ BPS * slip > x - BPS /\ BPS * slip < x + BPS
<1>1. BPS \in Nat \ {0}
  BY RateAssumption
<1>2. slip = x \div BPS \/ slip = (x + BPS - 1) \div BPS
  BY DEF Slippages
<1>3. x + BPS - 1 \in Int
  BY <1>1
<1>4. CASE slip = x \div BPS
  BY <1>1, <1>4, DivInt, SMTT(40)
<1>5. CASE slip = (x + BPS - 1) \div BPS
  <2> DEFINE z == x + BPS - 1
  <2>1. slip \in Int /\ BPS * slip <= z /\ z < BPS * slip + BPS
    BY <1>1, <1>3, <1>5, DivInt
  <2>2. BPS * slip \in Int
    BY <1>1, <2>1
  <2> QED
    BY <1>1, <2>1, <2>2
<1> QED
  BY <1>2, <1>4, <1>5

LEMMA Distributes ==
  ASSUME NEW b \in Int, NEW x \in Int, NEW y \in Int
  PROVE  b * (x + y) = b * x + b * y
OBVIOUS

LEMMA Kept ==
  ASSUME NEW B \in Int, NEW a \in Int, NEW flat \in Int, NEW slip \in Int, NEW s \in Int,
         NEW gain, gain = a - (slip + flat + s)
  PROVE  B * (a - flat - gain) = B * slip + B * s
<1>1. a - flat - gain = slip + s
  OBVIOUS
<1>2. B * (slip + s) = B * slip + B * s
  BY Distributes
<1> QED
  BY <1>1, <1>2, Zenon

LEMMA Rounded ==
  ASSUME NEW B \in Int, NEW u \in Int, NEW v \in Int, NEW x \in Int, NEW y \in Int,
         u > x - B, u < x + B, v <= y, y < v + B, NEW kept, kept = u + v, NEW shares, shares = x + y
  PROVE  kept > shares - 2 * B /\ kept < shares + B
OBVIOUS

Share(a, rate) == (a * rate) \div BPS

\* What a swap credits, from the shares it keeps back.
LEMMA Credited ==
  ASSUME NEW a \in Int, NEW slip \in Slippages(a), NEW flat \in Int, NEW rate \in Int,
         NEW s, s = Share(a, rate), NEW gain, gain = a - (slip + flat + s),
         NEW kept, kept = BPS * (a - flat - gain), NEW shares, shares = a * (SlippageRate + rate)
  PROVE  kept > shares - 2 * BPS /\ kept < shares + BPS
<1> DEFINE x == a * SlippageRate
           y == a * rate
           u == BPS * slip
           v == BPS * s
<1>1. BPS \in Nat \ {0} /\ BPS \in Int /\ SlippageRate \in Int
  BY RateAssumption, SlippageAssumption
<1>2. x \in Int /\ y \in Int
  BY <1>1
<1>3. shares = x + y
  BY <1>1, Distributes
<1>4. slip \in Int /\ u > x - BPS /\ u < x + BPS
  BY <1>2, SlippageShare
<1>5. s \in Int /\ v <= y /\ y < v + BPS
  BY <1>1, <1>2, DivInt DEF Share
<1>6. kept = u + v
  <2>1. slip \in Int /\ s \in Int /\ BPS \in Int
    BY <1>1, <1>4, <1>5
  <2>2. BPS * (a - flat - gain) = BPS * slip + BPS * s
    BY <2>1, Kept
  <2> QED
    BY <2>2
<1>7. u \in Int /\ v \in Int
  BY <1>1, <1>4, <1>5
<1> HIDE DEF x, y, u, v
<1> QED
  BY <1>1, <1>2, <1>3, <1>4, <1>5, <1>6, <1>7, Rounded

LEMMA SwapCredits == IInv => SwapCredit
<1> SUFFICES ASSUME IInv PROVE SwapCredit
  OBVIOUS
<1> DEFINE P(i) == plan[chain[i].call]
           G(i) == OwnerGains(i, "user", P(i).toks[2])
<1>1. ASSUME NEW i \in 2 .. Len(chain), client.net = "solana", P(i).req.kind = "swap"
      PROVE  /\ G(i) >= 0
             /\ \E q \in client.quotes :
                  /\ BPS * (P(i).ask[2] - q.flat - G(i)) > P(i).ask[2] * (SlippageRate + q.rate) - 2 * BPS
                  /\ BPS * (P(i).ask[2] - q.flat - G(i)) < P(i).ask[2] * (SlippageRate + q.rate) + BPS
  <2> DEFINE p == P(i)
             g == G(i)
  <2>1. client \in Clients /\ GoodChain(chain) /\ Sound(client, chain, p) /\ EntryOf(chain, i, p)
    BY ExecutedFacts
  <2>2. Merged(client, p) /\ SelectSound(chain, p)
    BY <1>1, <2>1 DEF Sound, ChoosesUtxos
  <2>3. SolanaAmounts(client, p)
    BY <1>1, <2>2 DEF Merged
  <2>4. Len(p.toks) = 2 /\ p.chs[2] >= 0 /\ p.toks = p.req.toks /\ p.ask = p.req.chs
    BY <1>1, <2>3 DEF SolanaAmounts
  <2>5. p.toks \in Seq(Tokens) /\ p.ask \in Seq(Int) /\ Len(p.ask) = Len(p.req.toks)
    BY <2>2 DEF Merged
  <2>6. 2 \in DOMAIN p.toks /\ p.toks[2] \in Tokens /\ p.ask[2] \in Int
    BY <2>4, <2>5
  <2> DEFINE t == p.toks[2]
             gets == IF p.req.kind = "transfer" /\ t = p.toks[1] THEN -p.ask[1] ELSE 0
  <2>7. GainsAre(chain, i, p, t, ChangeIn(p, t), gets, 0, ChangeIn(p, t) + gets)
    BY <2>1, <2>2, <2>6, SelectGains
  <2>8. g = ChangeIn(p, t)
    BY <2>7, OwnerGainIs DEF GainsAre
  <2>9. ChangeIn(p, t) = p.chs[2] /\ p.chs[2] \in Int
    BY <2>2, <2>6, ChangeInToken
  <2>10. PICK q \in client.quotes : \E slip \in Slippages(p.ask[2]) :
           p.chs[2] = p.ask[2] - SwapKeepsBack(p.ask[2], slip, q)
    BY <1>1, <2>3 DEF SolanaAmounts
  <2>11. PICK slip \in Slippages(p.ask[2]) :
           p.chs[2] = p.ask[2] - (slip + q.flat + (p.ask[2] * q.rate) \div BPS)
    BY <2>10 DEF SwapKeepsBack
  <2>12. q.flat \in Int /\ q.rate \in Int
    BY <2>1, QuoteFacts
  <2>13. g = p.ask[2] - (slip + q.flat + (p.ask[2] * q.rate) \div BPS) /\ g >= 0
    BY <2>4, <2>8, <2>9, <2>11
  <2> HIDE DEF p, g
  <2>14. /\ BPS * (p.ask[2] - q.flat - g) > p.ask[2] * (SlippageRate + q.rate) - 2 * BPS
         /\ BPS * (p.ask[2] - q.flat - g) < p.ask[2] * (SlippageRate + q.rate) + BPS
    BY <2>6, <2>12, <2>13, Credited DEF Share
  <2> QED
    BY <2>13, <2>14, Zenon DEF p, g
<1> QED
  BY <1>1, Zenon DEF SwapCredit

(***************************************************************************)
(* HinkalSolanaSwap credits the client with the quoted amount less         *)
(* slippage, flat fee and variable fee, up to the rounding of the two      *)
(* shares.                                                                 *)
(***************************************************************************)
THEOREM SwapCreditsPayable == AnySpec => []SwapCredit
BY Invariance, SwapCredits, PTL

-----------------------------------------------------------------------------
LEMMA WorthUnion ==
  ASSUME NEW ch, GoodChain(ch), NEW A \in SUBSET UtxosOf(ch, Len(ch)),
         NEW B \in SUBSET UtxosOf(ch, Len(ch)), A \cap B = {}
  PROVE  /\ WorthOf(ch, A \cup B) = WorthOf(ch, A) + WorthOf(ch, B)
         /\ WorthOf(ch, A) \in Int /\ WorthOf(ch, B) \in Int
<1> DEFINE U == UtxosOf(ch, Len(ch))
           w == [id \in U |-> OutputOf(ch, id).amt]
<1>1. IsFiniteSet(A) /\ WorthOf(ch, A) \in Int
  BY WorthInt
<1>2. IsFiniteSet(B) /\ WorthOf(ch, B) \in Int
  BY WorthInt
<1>3. A \cup B \in SUBSET U
  OBVIOUS
<1>4. IsFiniteSet(A \cup B)
  BY <1>3, WorthInt
<1>5. \A id \in U : w[id] \in Int
  BY OutputGood
<1>6. ASSUME NEW S \in SUBSET U, IsFiniteSet(S)
      PROVE  WorthOf(ch, S) = SumFunctionOnSet(w, S)
  <2> DEFINE v == [id \in S |-> OutputOf(ch, id).amt]
  <2>1. \A id \in S : v[id] = w[id]
    OBVIOUS
  <2> HIDE DEF v, w
  <2>2. SumFunctionOnSet(v, S) = SumFunctionOnSet(w, S)
    BY <1>6, <2>1, SumEq
  <2> QED
    BY <2>2 DEF v, WorthOf
<1>7. \A x \in A \cup B : w[x] \in Int
  BY <1>3, <1>5
<1> HIDE DEF w, U
<1>8. SumFunctionOnSet(w, A \cup B) = SumFunctionOnSet(w, A) + SumFunctionOnSet(w, B)
  BY <1>1, <1>2, <1>7, SumUnion
<1>9. A \in SUBSET U /\ B \in SUBSET U
  BY DEF U
<1>10. /\ WorthOf(ch, A \cup B) = SumFunctionOnSet(w, A \cup B)
       /\ WorthOf(ch, A) = SumFunctionOnSet(w, A) /\ WorthOf(ch, B) = SumFunctionOnSet(w, B)
  BY <1>1, <1>2, <1>3, <1>4, <1>6, <1>9
<1> QED
  BY <1>1, <1>2, <1>8, <1>10, Zenon

\* What the pool gains by a transaction is what it creates less what it
\* spends.
LEMMA PoolIs ==
  ASSUME NEW ch, GoodChain(ch), NEW i, NEW p, EntryOf(ch, i, p), NEW t
  PROVE  Pool(ch, i, p.toks, t)
           = WorthOf(ch, InToken(ch, CreatedBy(ch, i), t)) - WorthOf(ch, InToken(ch, ch[i].ins, t))
<1> DEFINE o == PayingOwner(p)
<1>1. Entry(ch, i, p.toks, p.ins, p.outs, o)
  BY DEF EntryOf
<1> HIDE DEF o
<1>2. ASSUME NEW k \in DOMAIN p.toks, p.toks[k] = t
      PROVE  Pool(ch, i, p.toks, t)
               = WorthOf(ch, InToken(ch, CreatedBy(ch, i), t)) - WorthOf(ch, InToken(ch, ch[i].ins, t))
  <2>1. WorthOf(ch, InToken(ch, CreatedBy(ch, i), p.toks[k])) = TotalAmount(p.outs[k])
    BY <1>1, CreatedInToken
  <2>2. WorthOf(ch, InToken(ch, ch[i].ins, p.toks[k])) = TotalAmount(p.ins[k])
    BY <1>1, SpentInToken
  <2>3. Pool(ch, i, p.toks, p.toks[k]) = TotalAmount(p.outs[k]) - TotalAmount(p.ins[k])
    BY <1>1, GainInToken
  <2> QED
    BY <1>2, <2>1, <2>2, <2>3, Zenon
<1>3. ASSUME \A k \in DOMAIN p.toks : p.toks[k] # t
      PROVE  Pool(ch, i, p.toks, t)
               = WorthOf(ch, InToken(ch, CreatedBy(ch, i), t)) - WorthOf(ch, InToken(ch, ch[i].ins, t))
  <2>1. InToken(ch, CreatedBy(ch, i), t) = {} /\ InToken(ch, ch[i].ins, t) = {}
    BY <1>1, <1>3, CreatedElsewhere
  <2>2. Pool(ch, i, p.toks, t) = 0
    BY <1>1, <1>3, GainElsewhere
  <2>3. WorthOf(ch, {}) = 0
    BY WorthEmpty
  <2> DEFINE a == WorthOf(ch, InToken(ch, CreatedBy(ch, i), t))
             b == WorthOf(ch, InToken(ch, ch[i].ins, t))
  <2>4. a = 0 /\ b = 0
    BY <2>1, <2>3, Zenon
  <2> HIDE DEF a, b
  <2>5. Pool(ch, i, p.toks, t) = a - b
    BY <2>2, <2>4
  <2> QED
    BY <2>5 DEF a, b
<1> QED
  BY <1>2, <1>3

\* What is unspent after transaction k, in a token.
Rest(ch, k, t) == InToken(ch, UtxosOf(ch, k) \ SpentOf(ch, k), t)

\* A transaction changes what is unspent by what it moves.
LEMMA RestStep ==
  ASSUME NEW ch, GoodChain(ch), NEW k \in 1 .. Len(ch) - 1, NEW t
  PROVE  WorthOf(ch, Rest(ch, k + 1, t))
           = WorthOf(ch, Rest(ch, k, t)) + WorthOf(ch, InToken(ch, CreatedBy(ch, k + 1), t))
               - WorthOf(ch, InToken(ch, ch[k + 1].ins, t))
<1> DEFINE V == UtxosOf(ch, k)
           S == SpentOf(ch, k)
           C == CreatedBy(ch, k + 1)
           I == ch[k + 1].ins
           U == UtxosOf(ch, Len(ch))
<1>1. k \in Nat /\ k >= 1 /\ Len(ch) \in Nat /\ k + 1 \in 2 .. Len(ch) /\ k + 1 - 1 = k
  BY DEF GoodChain
<1>2. 1 .. k + 1 = (1 .. k) \cup {k + 1}
  BY <1>1
<1>3. UtxosOf(ch, k + 1) = V \cup C
  BY <1>2 DEF UtxosOf, CreatedBy
<1>4. SpentOf(ch, k + 1) = S \cup I
  BY <1>2 DEF SpentOf
<1>5. V \cap C = {}
  <2> SUFFICES ASSUME NEW id, id \in V, id \in C PROVE FALSE
    OBVIOUS
  <2>1. id[1] \in 1 .. k
    BY UtxosMember
  <2>2. id[1] = k + 1
    BY DEF CreatedBy
  <2> QED
    BY <1>1, <2>1, <2>2
<1>6. I \in SUBSET V /\ I \cap S = {}
  BY <1>1 DEF GoodChain
<1>7. S \in SUBSET V
  <2> SUFFICES ASSUME NEW i \in 1 .. k PROVE ch[i].ins \in SUBSET V
    BY DEF SpentOf
  <2>1. CASE i = 1
    BY <2>1 DEF GoodChain
  <2>2. CASE i # 1
    <3>1. i \in 2 .. Len(ch) /\ i - 1 \in Int /\ k \in Int /\ i - 1 <= k
      BY <1>1, <2>2
    <3>2. ch[i].ins \in SUBSET UtxosOf(ch, i - 1)
      BY <3>1 DEF GoodChain
    <3>3. UtxosOf(ch, i - 1) \in SUBSET V
      BY <3>1, UtxosMono
    <3> QED
      BY <3>2, <3>3
  <2> QED
    BY <2>1, <2>2
<1>8. V \in SUBSET U /\ UtxosOf(ch, k + 1) \in SUBSET U
  BY <1>1, UtxosMono
<1>9. C \in SUBSET U
  BY <1>3, <1>8
<1> HIDE DEF V, S, C, I, U
<1> DEFINE a == InToken(ch, V \ S, t)
           b == InToken(ch, I, t)
           c == InToken(ch, C, t)
           d == a \ b
<1>10. InToken(ch, (V \cup C) \ (S \cup I), t) = d \cup c
  BY <1>5, <1>6, <1>7 DEF InToken
<1>11. a = d \cup b /\ d \cap b = {} /\ d \cap c = {}
  BY <1>5, <1>6, <1>7 DEF InToken
<1>12. a \in SUBSET U /\ b \in SUBSET U /\ c \in SUBSET U /\ d \in SUBSET U
  BY <1>6, <1>8, <1>9 DEF InToken
<1>13. Rest(ch, k, t) = a /\ Rest(ch, k + 1, t) = d \cup c
  BY <1>3, <1>4, <1>10 DEF Rest, V, S
<1> HIDE DEF a, b, c, d
<1>14. /\ WorthOf(ch, d \cup b) = WorthOf(ch, d) + WorthOf(ch, b)
       /\ WorthOf(ch, d) \in Int /\ WorthOf(ch, b) \in Int
  BY <1>11, <1>12, WorthUnion DEF U
<1>15. WorthOf(ch, d \cup c) = WorthOf(ch, d) + WorthOf(ch, c) /\ WorthOf(ch, c) \in Int
  BY <1>11, <1>12, WorthUnion DEF U
<1>16. WorthOf(ch, a) = WorthOf(ch, d) + WorthOf(ch, b)
  BY <1>11, <1>14, Zenon
<1>17. WorthOf(ch, d \cup c) = WorthOf(ch, a) + WorthOf(ch, c) - WorthOf(ch, b)
  BY <1>14, <1>15, <1>16
<1> QED
  BY <1>13, <1>17, Zenon DEF b, c, C, I

\* The pool after transaction k.
Held(ch, f, k, t) == WorthOf(ch, InToken(ch, CreatedBy(ch, 1), t)) + SumFunctionOnSet(f, 2 .. k)

LEMMA HeldIsRest ==
  ASSUME NEW ch, GoodChain(ch), NEW t, NEW f,
         \A i \in 2 .. Len(ch) :
           f[i] = WorthOf(ch, InToken(ch, CreatedBy(ch, i), t)) - WorthOf(ch, InToken(ch, ch[i].ins, t))
  PROVE  WorthOf(ch, Rest(ch, Len(ch), t)) = Held(ch, f, Len(ch), t)
<1> DEFINE n == Len(ch)
           T == {k \in 1 .. n : WorthOf(ch, Rest(ch, k, t)) # Held(ch, f, k, t)}
<1>1. n \in Nat /\ n >= 1
  BY DEF GoodChain
<1>2. WorthOf(ch, Rest(ch, 1, t)) = Held(ch, f, 1, t)
  <2>1. UtxosOf(ch, 1) = CreatedBy(ch, 1) /\ SpentOf(ch, 1) = {}
    BY DEF UtxosOf, SpentOf, CreatedBy, GoodChain
  <2>2. Rest(ch, 1, t) = InToken(ch, CreatedBy(ch, 1), t)
    BY <2>1 DEF Rest
  <2>3. 2 .. 1 = {} /\ SumFunctionOnSet(f, {}) = 0
    BY SumEmpty
  <2>4. WorthOf(ch, InToken(ch, CreatedBy(ch, 1), t)) \in Int
    <3>1. UtxosOf(ch, 1) \in SUBSET UtxosOf(ch, n)
      BY <1>1, UtxosMono
    <3>2. InToken(ch, CreatedBy(ch, 1), t) \in SUBSET UtxosOf(ch, n)
      BY <2>1, <3>1 DEF InToken
    <3> QED
      BY <3>2, WorthInt
  <2>5. Held(ch, f, 1, t) = WorthOf(ch, InToken(ch, CreatedBy(ch, 1), t)) + 0
    BY <2>3, Zenon DEF Held
  <2> QED
    BY <2>2, <2>4, <2>5
<1>3. ASSUME NEW k \in 1 .. n - 1, WorthOf(ch, Rest(ch, k, t)) = Held(ch, f, k, t)
      PROVE  WorthOf(ch, Rest(ch, k + 1, t)) = Held(ch, f, k + 1, t)
  <2> DEFINE c == WorthOf(ch, InToken(ch, CreatedBy(ch, k + 1), t))
             b == WorthOf(ch, InToken(ch, ch[k + 1].ins, t))
             g == WorthOf(ch, InToken(ch, CreatedBy(ch, 1), t))
             r == SumFunctionOnSet(f, 2 .. k)
             s == SumFunctionOnSet(f, 2 .. k + 1)
  <2>1. k \in Nat /\ k + 1 \in 2 .. n
    BY <1>1
  <2>2. WorthOf(ch, Rest(ch, k + 1, t)) = WorthOf(ch, Rest(ch, k, t)) + c - b
    BY <1>1, RestStep
  <2>3. ASSUME NEW i \in 1 .. n
        PROVE  /\ WorthOf(ch, InToken(ch, CreatedBy(ch, i), t)) \in Int
               /\ i >= 2 => f[i] \in Int
    <3>1. CreatedBy(ch, i) \in SUBSET UtxosOf(ch, n)
      BY DEF CreatedBy, UtxosOf
    <3>2. InToken(ch, CreatedBy(ch, i), t) \in SUBSET UtxosOf(ch, n)
      BY <3>1 DEF InToken
    <3>3. WorthOf(ch, InToken(ch, CreatedBy(ch, i), t)) \in Int
      BY <3>2, WorthInt
    <3>4. ASSUME i >= 2 PROVE f[i] \in Int
      <4>1. i \in 2 .. n /\ i - 1 \in Int /\ n \in Int /\ i - 1 <= n
        BY <1>1, <3>4
      <4>2. ch[i].ins \in SUBSET UtxosOf(ch, i - 1) /\ UtxosOf(ch, i - 1) \in SUBSET UtxosOf(ch, n)
        BY <4>1, UtxosMono DEF GoodChain
      <4>3. InToken(ch, ch[i].ins, t) \in SUBSET UtxosOf(ch, n)
        BY <4>2 DEF InToken
      <4>4. WorthOf(ch, InToken(ch, ch[i].ins, t)) \in Int
        BY <4>3, WorthInt
      <4> QED
        BY <3>3, <4>1, <4>4
    <3> QED
      BY <3>3, <3>4
  <2>4. 2 .. k + 1 = (2 .. k) \cup {k + 1} /\ k + 1 \notin 2 .. k /\ k + 1 \in 2 .. k + 1
    BY <2>1
  <2>5. (2 .. k + 1) \ {k + 1} = 2 .. k
    BY <2>4
  <2>6. \A x \in 2 .. k + 1 : f[x] \in Int
    BY <1>1, <2>1, <2>3
  <2>7. IsFiniteSet(2 .. k + 1) /\ IsFiniteSet(2 .. k)
    BY <2>1, FS_Interval
  <2>8. s = f[k + 1] + r
    <3>1. s = f[k + 1] + SumFunctionOnSet(f, (2 .. k + 1) \ {k + 1})
      BY <2>4, <2>6, <2>7, SumRemove
    <3> QED
      BY <2>5, <3>1, Zenon
  <2>9. r \in Int
    <3>1. \A x \in 2 .. k : f[x] \in Int
      BY <2>4, <2>6
    <3> QED
      BY <2>7, <3>1, SumInt
  <2>10. g \in Int /\ c \in Int /\ f[k + 1] = c - b
    BY <1>1, <2>1, <2>3
  <2>11. b \in Int
    <3>1. ch[k + 1].ins \in SUBSET UtxosOf(ch, k + 1 - 1) /\ UtxosOf(ch, k + 1 - 1) \in SUBSET UtxosOf(ch, n)
      BY <1>1, <2>1, UtxosMono DEF GoodChain
    <3>2. InToken(ch, ch[k + 1].ins, t) \in SUBSET UtxosOf(ch, n)
      BY <3>1 DEF InToken
    <3> QED
      BY <3>2, WorthInt
  <2>12. Held(ch, f, k, t) = g + r /\ Held(ch, f, k + 1, t) = g + s
    BY DEF Held
  <2> HIDE DEF c, b, g, r, s
  <2> QED
    BY <1>3, <2>2, <2>8, <2>9, <2>10, <2>11, <2>12
<1> SUFFICES ASSUME T # {} PROVE FALSE
  BY <1>1
<1>4. T \in SUBSET Nat
  OBVIOUS
<1>5. PICK k \in T : \A m \in T : k <= m
  BY <1>4, LeastNumber
<1>6. k \in 1 .. n /\ k # 1 /\ k - 1 \notin T
  BY <1>2, <1>5
<1>7. k - 1 \in 1 .. n - 1 /\ k - 1 \in 1 .. n /\ k - 1 + 1 = k
  BY <1>1, <1>6
<1>8. WorthOf(ch, Rest(ch, k - 1, t)) = Held(ch, f, k - 1, t)
  BY <1>6, <1>7
<1>9. WorthOf(ch, Rest(ch, k - 1 + 1, t)) = Held(ch, f, k - 1 + 1, t)
  BY <1>3, <1>7, <1>8
<1> QED
  BY <1>5, <1>7, <1>9

\* By induction on the length of the chain.
LEMMA Conserved == IInv => Conservation
<1> SUFFICES ASSUME IInv, NEW t \in Tokens
             PROVE  Worth(In(UtxosUpTo(Len(chain)) \ Spent, t))
                      = Worth(In(Created(1), t))
                        + SumFunctionOnSet([i \in 2 .. Len(chain) |-> PoolGains(i, t)], 2 .. Len(chain))
  BY DEF Conservation
<1> DEFINE f == [i \in 2 .. Len(chain) |-> PoolGains(i, t)]
<1>1. GoodChain(chain)
  BY DEF IInv, History
<1>2. ASSUME NEW i \in 2 .. Len(chain)
      PROVE  f[i] = WorthOf(chain, InToken(chain, CreatedBy(chain, i), t))
                      - WorthOf(chain, InToken(chain, chain[i].ins, t))
  <2> DEFINE p == plan[chain[i].call]
  <2>1. EntryOf(chain, i, p)
    BY ExecutedFacts
  <2>2. f[i] = Pool(chain, i, p.toks, t)
    BY PoolGainIs
  <2> HIDE DEF p, f
  <2> QED
    BY <1>1, <2>1, <2>2, PoolIs
<1> HIDE DEF f
<1>3. WorthOf(chain, Rest(chain, Len(chain), t)) = Held(chain, f, Len(chain), t)
  BY <1>1, <1>2, HeldIsRest
<1>4. Worth(In(UtxosUpTo(Len(chain)) \ Spent, t)) = WorthOf(chain, Rest(chain, Len(chain), t))
  BY DEF Worth, WorthOf, In, InToken, Rest, UtxosUpTo, UtxosOf, Spent, SpentUpTo, SpentOf,
         OutputAt, OutputOf
<1>5. Worth(In(Created(1), t)) = WorthOf(chain, InToken(chain, CreatedBy(chain, 1), t))
  BY DEF Worth, WorthOf, In, InToken, Created, CreatedBy, OutputAt, OutputOf
<1> QED
  BY <1>3, <1>4, <1>5, Zenon DEF Held, f

(***************************************************************************)
(* The pool holds what the unspent UTXOs are worth, however many calls run *)
(* side by side on whatever views of the chain.                            *)
(***************************************************************************)
THEOREM PoolIsConserved == AnySpec => []Conservation
BY Invariance, Conserved, PTL

-----------------------------------------------------------------------------
(***************************************************************************)
(* Allowances.  A call that has passed a token's approval has the          *)
(* allowance it needs, unless another call that relies on that allowance   *)
(* got in between.                                                         *)
(***************************************************************************)
Spending == {"approve", "reset", "approving", "send", "sent", "done", "failed"}

\* Calls d # c that may have changed the allowance of token t.
Party(n, p, t) == (n = "executed" \/ p.approved > 0) /\ FromAllowance(p, t) > 0

ConflictOf(nets, plans, c, t) == \E d \in Calls \ {c} : Party(nets[d], plans[d], t)

\* The call is past the approval of token i.
Passed(label, n, p, i) ==
  \/ label = "send" \/ n = "pending"
  \/ label = "approve" /\ i <= p.approved
  \/ label \in {"reset", "approving"} /\ i < p.approved

\* How far the approvals of a call are.
Approvals(label, p) ==
  /\ p.approved \in Nat
  /\ p.approved > 0 => label \in Spending
  /\ label \in {"reset", "approving"} =>
       p.approved \in DOMAIN p.toks /\ Required(p, p.approved) > 0

\* The allowances that a call is past are there, or in conflict.
Funded(al, nets, plans, c, label, n, p) ==
  \A i \in DOMAIN p.toks :
    Passed(label, n, p, i) =>
      al[p.toks[i]] >= Required(p, i) \/ ConflictOf(nets, plans, c, p.toks[i])

\* Why the contract turned a transaction down.
Rejection(ch, nets, plans, c, p) ==
  \/ BuildInNullifiers(p.ins) \cap SpentOf(ch, Len(ch)) # {}
  \/ \E t \in Tokens : ConflictOf(nets, plans, c, t) /\ FromAllowance(p, t) > 0

Allowances(al) == DOMAIN al = Tokens /\ \A t \in Tokens : al[t] \in Nat

AInv ==
  /\ Allowances(allowance)
  /\ \A c \in Calls :
       /\ Approvals(pc[c], plan[c])
       /\ Funded(allowance, net, plan, c, pc[c], net[c], plan[c])
       /\ net[c] = "rejected" => Rejection(chain, net, plan, c, plan[c])

-----------------------------------------------------------------------------
SameOrder(p, q) ==
  /\ q.req = p.req /\ q.toks = p.toks /\ q.chs = p.chs /\ q.ins = p.ins
  /\ q.approved \in Nat /\ q.approved >= p.approved

LEMMA SameAllowance ==
  ASSUME NEW p, NEW q, SameOrder(p, q)
  PROVE  /\ \A i : Required(q, i) = Required(p, i)
         /\ \A t : FromAllowance(q, t) = FromAllowance(p, t)
<1>1. q.req = p.req /\ q.toks = p.toks /\ q.chs = p.chs
  BY DEF SameOrder
<1>2. \A i : Required(q, i) = Required(p, i)
  BY <1>1 DEF Required
<1> QED
  BY <1>1, <1>2 DEF FromAllowance

LEMMA PartyStays ==
  ASSUME NEW p, NEW q, SameOrder(p, q), p.approved \in Nat, NEW n, NEW m,
         n = "executed" => m = "executed", NEW t, Party(n, p, t)
  PROVE  Party(m, q, t)
<1>1. FromAllowance(q, t) = FromAllowance(p, t)
  BY SameAllowance
<1>2. p.approved > 0 => q.approved > 0
  BY DEF SameOrder
<1> QED
  BY <1>1, <1>2 DEF Party

\* What a call requires is approved once per token.
LEMMA RequiredFacts ==
  ASSUME NEW cl \in Clients, NEW ch, GoodChain(ch), NEW p, Sound(cl, ch, p)
  PROVE  /\ p.toks \in Seq(Tokens) /\ IsInjective(p.toks)
         /\ \A i \in DOMAIN p.toks : Required(p, i) \in Nat
         /\ \A i \in DOMAIN p.toks : FromAllowance(p, p.toks[i]) = Required(p, i)
         /\ \A t : (\A i \in DOMAIN p.toks : p.toks[i] # t) => FromAllowance(p, t) = 0
         /\ \A t : FromAllowance(p, t) \in Nat
<1>1. p.toks \in Seq(Tokens) /\ IsInjective(p.toks)
  <2>1. Ledger(ch, p.toks, p.ins, p.outs, PayingOwner(p))
    BY SoundLedger
  <2> QED
    BY <2>1 DEF Ledger
<1>2. ASSUME NEW i \in DOMAIN p.toks PROVE Required(p, i) \in Nat
  <2>1. CASE p.req.kind = "claim"
    BY <2>1 DEF Required, IsDirect
  <2>2. CASE p.req.kind # "claim"
    <3>1. p.chs \in Seq(Int) /\ Len(p.chs) = Len(p.toks)
      BY <2>2 DEF Sound, Merged
    <3>2. p.chs[i] \in Int
      BY <1>1, <3>1
    <3> QED
      BY <3>2 DEF Required
  <2> QED
    BY <2>1, <2>2
<1> DEFINE r == [i \in DOMAIN p.toks |-> Required(p, i)]
<1>3. \A t : FromAllowance(p, t) = SumFunctionOnSet(r, At(p.toks, t))
  BY DEF FromAllowance, At
<1>4. \A i \in DOMAIN p.toks : r[i] = Required(p, i) /\ r[i] \in Int
  BY <1>2
<1> HIDE DEF r
<1>5. ASSUME NEW i \in DOMAIN p.toks PROVE FromAllowance(p, p.toks[i]) = Required(p, i)
  <2>1. SumFunctionOnSet(r, At(p.toks, p.toks[i])) = r[i]
    BY <1>1, <1>4, SumAt
  <2> QED
    BY <1>3, <1>4, <2>1
<1>6. ASSUME NEW t, \A i \in DOMAIN p.toks : p.toks[i] # t PROVE FromAllowance(p, t) = 0
  BY <1>3, <1>6, SumNowhere
<1>7. ASSUME NEW t PROVE FromAllowance(p, t) \in Nat
  BY <1>2, <1>5, <1>6
<1> QED
  BY <1>1, <1>2, <1>5, <1>6, <1>7

\* Call c moves on, no other does.
Turns(c, label, n, p) ==
  /\ DOMAIN pc' = Calls /\ DOMAIN net' = Calls /\ DOMAIN plan' = Calls
  /\ pc'[c] = label /\ net'[c] = n /\ plan'[c] = p
  /\ \A d \in Calls : d # c => pc'[d] = pc[d] /\ net'[d] = net[d] /\ plan'[d] = plan[d]

Steady(c, n, p) ==
  /\ pc[c] \in Spending => SameOrder(plan[c], p)
  /\ net[c] = "executed" => n = "executed"

LEMMA ApprovalFacts ==
  ASSUME IInv, AInv, NEW c \in Calls
  PROVE  /\ Approvals(pc[c], plan[c]) /\ plan[c].approved \in Nat
         /\ net[c] # "none" => pc[c] \in {"sent", "done", "failed"}
         /\ net[c] # "none" => pc[c] \in Spending
         /\ pc[c] \notin Spending => plan[c].approved = 0 /\ net[c] = "none"
<1>1. Approvals(pc[c], plan[c])
  BY DEF AInv
<1>2. CallOK(client, chain, pc[c], net[c], plan[c])
  BY CallFacts
<1>3. net[c] # "none" => pc[c] \in {"sent", "done", "failed"}
  BY <1>2 DEF CallOK
<1>4. plan[c].approved \in Nat /\ (plan[c].approved > 0 => pc[c] \in Spending)
  BY <1>1 DEF Approvals
<1> QED
  BY <1>1, <1>3, <1>4 DEF Spending

\* A conflict is never forgotten.
LEMMA ConflictStays ==
  ASSUME IInv, AInv, NEW c \in Calls, NEW label, NEW n, NEW p, Turns(c, label, n, p), Steady(c, n, p),
         NEW d \in Calls, NEW t, ConflictOf(net, plan, d, t)
  PROVE  ConflictOf(net', plan', d, t)
<1>1. PICK e \in Calls \ {d} : Party(net[e], plan[e], t)
  BY DEF ConflictOf
<1>2. CASE e # c
  <2>1. net'[e] = net[e] /\ plan'[e] = plan[e]
    BY <1>1, <1>2 DEF Turns
  <2>2. Party(net'[e], plan'[e], t)
    BY <1>1, <2>1
  <2> QED
    BY <1>1, <2>2 DEF ConflictOf
<1>3. CASE e = c
  <2>1. plan[c].approved \in Nat /\ (net[c] # "none" => pc[c] \in Spending)
        /\ (pc[c] \notin Spending => plan[c].approved = 0)
    BY ApprovalFacts
  <2>2. pc[c] \in Spending
    BY <1>1, <1>3, <2>1 DEF Party
  <2>3. SameOrder(plan[c], p) /\ (net[c] = "executed" => n = "executed")
    BY <2>2 DEF Steady
  <2>4. Party(n, p, t)
    BY <1>1, <1>3, <2>1, <2>3, PartyStays
  <2>5. Party(net'[e], plan'[e], t)
    BY <1>3, <2>4 DEF Turns
  <2> QED
    BY <1>1, <2>5 DEF ConflictOf
<1> QED
  BY <1>2, <1>3

\* What a step takes from the allowances, others know of.
Drawn(c) ==
  \A d \in Calls : d # c =>
    \A t \in Tokens : allowance'[t] >= allowance[t] \/ ConflictOf(net', plan', d, t)

LEMMA PassedTokens ==
  ASSUME IInv, NEW c \in Calls, NEW i \in DOMAIN plan[c].toks, Passed(pc[c], net[c], plan[c], i)
  PROVE  plan[c].toks[i] \in Tokens /\ Required(plan[c], i) \in Nat
<1>1. client \in Clients /\ GoodChain(chain) /\ CallOK(client, chain, pc[c], net[c], plan[c])
  BY CallFacts
<1>2. pc[c] \in Later \/ net[c] # "none"
  BY DEF Passed, Later
<1>3. Sound(client, chain, plan[c])
  BY <1>1, <1>2 DEF CallOK
<1>4. plan[c].toks \in Seq(Tokens) /\ Required(plan[c], i) \in Nat
  BY <1>1, <1>3, RequiredFacts
<1> QED
  BY <1>4

\* A step of one call, where the others keep what they know.
LEMMA TurnOK ==
  ASSUME IInv, AInv, NEW c \in Calls, NEW label, NEW n, NEW p, Turns(c, label, n, p), Steady(c, n, p),
         Allowances(allowance'), Drawn(c), Grown(chain, chain'),
         Approvals(label, p), Funded(allowance', net', plan', c, label, n, p),
         n = "rejected" => net[c] = "rejected" \/ Rejection(chain, net, plan, c, p)
  PROVE  AInv'
<1>1. ASSUME NEW d \in Calls PROVE Approvals(pc'[d], plan'[d])
  <2>1. CASE d = c
    BY <2>1 DEF Turns
  <2>2. CASE d # c
    <3>1. Approvals(pc[d], plan[d])
      BY DEF AInv
    <3>2. pc'[d] = pc[d] /\ plan'[d] = plan[d]
      BY <2>2 DEF Turns
    <3> QED
      BY <3>1, <3>2
  <2> QED
    BY <2>1, <2>2
<1>2. ASSUME NEW d \in Calls PROVE Funded(allowance', net', plan', d, pc'[d], net'[d], plan'[d])
  <2>1. CASE d = c
    BY <2>1 DEF Turns
  <2>2. CASE d # c
    <3>1. pc'[d] = pc[d] /\ plan'[d] = plan[d] /\ net'[d] = net[d]
      BY <2>2 DEF Turns
    <3>2. Funded(allowance, net, plan, d, pc[d], net[d], plan[d])
      BY DEF AInv
    <3>3. ASSUME NEW i \in DOMAIN plan[d].toks, Passed(pc[d], net[d], plan[d], i)
          PROVE  \/ allowance'[plan[d].toks[i]] >= Required(plan[d], i)
                 \/ ConflictOf(net', plan', d, plan[d].toks[i])
      <4> DEFINE t == plan[d].toks[i]
      <4>1. t \in Tokens /\ Required(plan[d], i) \in Nat
        BY <3>3, PassedTokens
      <4>2. allowance[t] >= Required(plan[d], i) \/ ConflictOf(net, plan, d, t)
        BY <3>2, <3>3 DEF Funded
      <4>3. CASE ConflictOf(net, plan, d, t)
        BY <4>3, ConflictStays
      <4>4. CASE allowance[t] >= Required(plan[d], i)
        <5>1. allowance'[t] >= allowance[t] \/ ConflictOf(net', plan', d, t)
          BY <2>2, <4>1 DEF Drawn
        <5>2. allowance[t] \in Nat /\ allowance'[t] \in Nat
          BY <4>1 DEF AInv, Allowances
        <5> QED
          BY <4>1, <4>4, <5>1, <5>2
      <4> QED
        BY <4>2, <4>3, <4>4
    <3>4. Funded(allowance', net', plan', d, pc[d], net[d], plan[d])
      BY <3>3 DEF Funded
    <3> QED
      BY <3>1, <3>4
  <2> QED
    BY <2>1, <2>2
<1>3. ASSUME NEW d \in Calls, NEW q, Rejection(chain, net, plan, d, q)
      PROVE  Rejection(chain', net', plan', d, q)
  <2>1. Len(chain) \in Nat /\ Len(chain') \in Nat /\ Len(chain) <= Len(chain') /\ Len(chain) \in 0 .. Len(chain)
    BY DEF Grown
  <2>2. SpentOf(chain', Len(chain)) = SpentOf(chain, Len(chain))
    BY <2>1, GrownSame
  <2>3. SpentOf(chain', Len(chain)) \in SUBSET SpentOf(chain', Len(chain'))
    BY <2>1, UtxosMono
  <2>4. ASSUME NEW t \in Tokens, ConflictOf(net, plan, d, t), FromAllowance(q, t) > 0
        PROVE  ConflictOf(net', plan', d, t)
    BY <2>4, ConflictStays
  <2> QED
    BY <1>3, <2>2, <2>3, <2>4 DEF Rejection
<1>4. ASSUME NEW d \in Calls, net'[d] = "rejected" PROVE Rejection(chain', net', plan', d, plan'[d])
  <2>1. CASE d # c
    <3>1. plan'[d] = plan[d] /\ net'[d] = net[d]
      BY <2>1 DEF Turns
    <3>2. Rejection(chain, net, plan, d, plan[d])
      BY <1>4, <3>1 DEF AInv
    <3>3. Rejection(chain', net', plan', d, plan[d])
      BY <1>3, <3>2
    <3> QED
      BY <3>1, <3>3
  <2>2. CASE d = c
    <3>1. plan'[c] = p /\ n = "rejected"
      BY <1>4, <2>2 DEF Turns
    <3>2. CASE Rejection(chain, net, plan, c, p)
      <4>1. Rejection(chain', net', plan', c, p)
        BY <1>3, <3>2
      <4> QED
        BY <2>2, <3>1, <4>1
    <3>3. CASE net[c] = "rejected"
      <4>1. Rejection(chain, net, plan, c, plan[c])
        BY <3>3 DEF AInv
      <4>2. Rejection(chain', net', plan', c, plan[c])
        BY <1>3, <4>1
      <4>3. pc[c] \in Spending
        BY <3>3, ApprovalFacts
      <4>4. SameOrder(plan[c], p)
        BY <4>3 DEF Steady
      <4>5. p.ins = plan[c].ins /\ \A t : FromAllowance(p, t) = FromAllowance(plan[c], t)
        BY <4>4, SameAllowance DEF SameOrder
      <4>6. Rejection(chain', net', plan', c, p)
        BY <4>2, <4>5 DEF Rejection
      <4> QED
        BY <2>2, <3>1, <4>6
    <3> QED
      BY <3>1, <3>2, <3>3
  <2> QED
    BY <2>1, <2>2
<1> QED
  BY <1>1, <1>2, <1>4 DEF AInv

-----------------------------------------------------------------------------
\* A step that leaves the chain and the allowances alone.
LEMMA QuietOK ==
  ASSUME IInv, AInv, NEW c \in Calls, NEW label, NEW n, NEW p, Moves(c, label, n, p),
         allowance' = allowance, Steady(c, n, p), Approvals(label, p),
         Funded(allowance, net, plan, c, label, n, p),
         n = "rejected" => net[c] = "rejected" \/ Rejection(chain, net, plan, c, p)
  PROVE  AInv'
<1>1. Turns(c, label, n, p)
  BY DEF Moves, Turns
<1>2. Allowances(allowance) /\ Allowances(allowance')
  BY DEF AInv
<1>3. Drawn(c)
  BY <1>2 DEF Drawn, Allowances
<1>4. Grown(chain, chain')
  <2>1. Len(chain) \in Nat
    BY CallFacts
  <2>2. chain' = chain
    BY DEF Moves
  <2> QED
    BY <2>1, <2>2 DEF Grown
<1>5. Funded(allowance', net', plan', c, label, n, p)
  <2>1. \A t : ConflictOf(net, plan, c, t) => ConflictOf(net', plan', c, t)
    BY <1>1, ConflictStays
  <2> QED
    BY <2>1 DEF Funded
<1> QED
  BY <1>1, <1>2, <1>3, <1>4, <1>5, TurnOK

\* The allowances are as they were.
LEMMA StaysFunded ==
  ASSUME AInv, NEW c \in Calls, NEW label, NEW n, NEW p, SameOrder(plan[c], p),
         \A i : Passed(label, n, p, i) => Passed(pc[c], net[c], plan[c], i)
  PROVE  Funded(allowance, net, plan, c, label, n, p)
<1>1. Funded(allowance, net, plan, c, pc[c], net[c], plan[c])
  BY DEF AInv
<1>2. p.toks = plan[c].toks /\ \A i : Required(p, i) = Required(plan[c], i)
  BY SameAllowance DEF SameOrder
<1> QED
  BY <1>1, <1>2 DEF Funded

LEMMA NotYetFunded ==
  ASSUME NEW al, NEW nets, NEW plans, NEW c, NEW label, NEW p,
         label \notin {"approve", "reset", "approving", "send"}
  PROVE  Funded(al, nets, plans, c, label, "none", p)
BY DEF Funded, Passed

LEMMA FailA ==
  ASSUME IInv, AInv, NEW c \in Calls, NEW e, Fail(c, e)
  PROVE  AInv'
<1> DEFINE p == [plan[c] EXCEPT !.err = e]
<1>1. Shape /\ IsPlan(plan[c])
  BY CallFacts
<1>2. Moves(c, "failed", net[c], p)
  BY <1>1, FailMoves
<1>3. allowance' = allowance
  BY DEF Fail
<1>4. /\ p.req = plan[c].req /\ p.toks = plan[c].toks /\ p.chs = plan[c].chs
      /\ p.ins = plan[c].ins /\ p.approved = plan[c].approved
  BY <1>1, PlanErr
<1> HIDE DEF p
<1>5. plan[c].approved \in Nat
  BY ApprovalFacts
<1>6. SameOrder(plan[c], p)
  BY <1>4, <1>5 DEF SameOrder
<1>7. Steady(c, net[c], p)
  BY <1>6 DEF Steady
<1>8. Approvals("failed", p)
  BY <1>4, <1>5 DEF Approvals, Spending
<1>9. \A i : Passed("failed", net[c], p, i) => Passed(pc[c], net[c], plan[c], i)
  BY DEF Passed
<1>10. Funded(allowance, net, plan, c, "failed", net[c], p)
  BY <1>6, <1>9, StaysFunded
<1> QED
  BY <1>2, <1>3, <1>7, <1>8, <1>10, QuietOK

\* Before the approvals.
LEMMA EarlyA ==
  ASSUME IInv, AInv, NEW c \in Calls, pc[c] \notin Spending, NEW label, NEW p, Goto(c, label, p),
         label \notin {"approve", "reset", "approving", "send"}, p.approved = 0
  PROVE  AInv'
<1>1. net[c] = "none"
  BY ApprovalFacts
<1>2. Shape
  BY CallFacts
<1>3. Moves(c, label, "none", p)
  BY <1>1, <1>2, GotoMoves
<1>4. allowance' = allowance
  BY DEF Goto
<1>5. Steady(c, "none", p)
  BY <1>1 DEF Steady
<1>6. Approvals(label, p)
  BY DEF Approvals
<1>7. Funded(allowance, net, plan, c, label, "none", p)
  BY NotYetFunded
<1> QED
  BY <1>3, <1>4, <1>5, <1>6, <1>7, QuietOK

\* The same, for a call whose approvals are not touched.
LEMMA EarlyStep ==
  ASSUME IInv, AInv, NEW c \in Calls, pc[c] \notin Spending, NEW label, NEW p, Goto(c, label, p),
         label \notin {"approve", "reset", "approving", "send"}, p.approved = plan[c].approved
  PROVE  AInv'
<1>1. p.approved = 0
  BY ApprovalFacts
<1> QED
  BY <1>1, EarlyA

\* The steps before the approvals.
LEMMA EvmEarlyA ==
  ASSUME IInv, AInv, NEW c \in Calls,
         \/ \E r, sim : Begin(c, r, sim)
         \/ \E raw, x : ResolveFee(c, raw, x)
         \/ \E raw : ClaimUtxo(c, raw)
         \/ SelectUtxos(c) \/ RecipientInputOutputUtxos(c)
         \/ HandleLocalMerkleTrees(c) \/ \E k : HandleRemoteMerkleTrees(c, k)
  PROVE  AInv'
<1>1. IsPlan(plan[c])
  BY CallFacts
<1>2. ASSUME NEW r, NEW sim, Begin(c, r, sim) PROVE AInv'
  <2> DEFINE ask == ModifyVolatileTokenAmountChanges(r.chs, sim)
             q == [NoPlan EXCEPT !.req = r, !.ask = ask, !.toks = r.toks, !.chs = ask]
             label == IF PaysFee(r.kind) THEN "fee" ELSE "select"
  <2>1. pc[c] \notin Spending /\ (Goto(c, label, q) \/ Fail(c, "invalid"))
    BY <1>2 DEF Begin, Spending
  <2>2. q.approved = 0
    BY DEF NoPlan
  <2>3. label \notin {"approve", "reset", "approving", "send"}
    OBVIOUS
  <2> HIDE DEF q, label
  <2> QED
    BY <2>1, <2>2, <2>3, FailA, EarlyA
<1>3. ASSUME NEW raw, NEW x, ResolveFee(c, raw, x) PROVE AInv'
  <2> DEFINE q == WithFee(plan[c], FeeOfFlow(plan[c], raw, x))
  <2>1. pc[c] \notin Spending /\ (Goto(c, "select", q) \/ Fail(c, "fee"))
    BY <1>3 DEF ResolveFee, Spending
  <2>2. q.approved = plan[c].approved
    BY <1>1 DEF WithFee, IsPlan
  <2> HIDE DEF q
  <2> QED
    BY <2>1, <2>2, FailA, EarlyStep
<1>4. ASSUME NEW raw, ClaimUtxo(c, raw) PROVE AInv'
  <2>1. pc[c] \notin Spending
    BY <1>4 DEF ClaimUtxo, Spending
  <2>2. \/ Fail(c, "funds")
        \/ \E f, cs, a, b :
             Goto(c, "root", [plan[c] EXCEPT !.fee = f, !.chs = cs, !.ins = a, !.outs = b])
    BY <1>4 DEF ClaimUtxo
  <2>3. ASSUME NEW f, NEW cs, NEW a, NEW b,
               Goto(c, "root", [plan[c] EXCEPT !.fee = f, !.chs = cs, !.ins = a, !.outs = b])
        PROVE  AInv'
    <3> DEFINE q == [plan[c] EXCEPT !.fee = f, !.chs = cs, !.ins = a, !.outs = b]
    <3>1. q.approved = plan[c].approved
      BY <1>1 DEF IsPlan
    <3>2. Goto(c, "root", q)
      BY <2>3
    <3> HIDE DEF q
    <3> QED
      BY <2>1, <3>1, <3>2, EarlyStep
  <2> QED
    BY <2>2, <2>3, FailA
<1>5. ASSUME SelectUtxos(c) PROVE AInv'
  <2>1. pc[c] \notin Spending
    BY <1>5 DEF SelectUtxos, Spending
  <2>2. \/ \E v, e : Goto(c, "failed", [plan[c] EXCEPT !.view = v, !.err = e])
        \/ \E v, a, b : Goto(c, "root", [plan[c] EXCEPT !.view = v, !.ins = a, !.outs = b])
    BY <1>5 DEF SelectUtxos
  <2>3. ASSUME NEW v, NEW e, Goto(c, "failed", [plan[c] EXCEPT !.view = v, !.err = e]) PROVE AInv'
    <3> DEFINE q == [plan[c] EXCEPT !.view = v, !.err = e]
    <3>1. q.approved = plan[c].approved
      BY <1>1 DEF IsPlan
    <3>2. Goto(c, "failed", q)
      BY <2>3
    <3> HIDE DEF q
    <3> QED
      BY <2>1, <3>1, <3>2, EarlyStep
  <2>4. ASSUME NEW v, NEW a, NEW b, Goto(c, "root", [plan[c] EXCEPT !.view = v, !.ins = a, !.outs = b])
        PROVE  AInv'
    <3> DEFINE q == [plan[c] EXCEPT !.view = v, !.ins = a, !.outs = b]
    <3>1. q.approved = plan[c].approved
      BY <1>1 DEF IsPlan
    <3>2. Goto(c, "root", q)
      BY <2>4
    <3> HIDE DEF q
    <3> QED
      BY <2>1, <3>1, <3>2, EarlyStep
  <2> QED
    BY <2>2, <2>3, <2>4
<1>6. ASSUME RecipientInputOutputUtxos(c) PROVE AInv'
  <2>1. pc[c] \notin Spending
    BY <1>6 DEF RecipientInputOutputUtxos, Spending
  <2>2. PICK a, b : Goto(c, "root", [plan[c] EXCEPT !.ins = a, !.outs = b])
    BY <1>6 DEF RecipientInputOutputUtxos
  <2> DEFINE q == [plan[c] EXCEPT !.ins = a, !.outs = b]
  <2>3. q.approved = plan[c].approved
    BY <1>1 DEF IsPlan
  <2>4. Goto(c, "root", q)
    BY <2>2
  <2> HIDE DEF q
  <2> QED
    BY <2>1, <2>3, <2>4, EarlyStep
<1>7. ASSUME HandleLocalMerkleTrees(c) \/ \E k : HandleRemoteMerkleTrees(c, k) PROVE AInv'
  <2>1. pc[c] \notin Spending
    BY <1>7 DEF HandleLocalMerkleTrees, HandleRemoteMerkleTrees, Spending
  <2>2. PICK k, f : Goto(c, "prove", [plan[c] EXCEPT !.root = k, !.rootFrom = f])
    BY <1>7 DEF HandleLocalMerkleTrees, HandleRemoteMerkleTrees
  <2> DEFINE q == [plan[c] EXCEPT !.root = k, !.rootFrom = f]
  <2>3. q.approved = plan[c].approved
    BY <1>1 DEF IsPlan
  <2>4. Goto(c, "prove", q)
    BY <2>2
  <2> HIDE DEF q
  <2> QED
    BY <2>1, <2>3, <2>4, EarlyStep
<1> QED
  BY <1>2, <1>3, <1>4, <1>5, <1>6, <1>7

LEMMA SolanaEarlyA ==
  ASSUME IInv, AInv, NEW c \in Calls,
         \/ \E r : SolanaBegin(c, r)
         \/ CalculateSolanaNullifierCount(c)
         \/ \E raw, x : SolanaWithdraw(c, raw, x)
         \/ \E raw : SolanaTransfer(c, raw)
         \/ \E raw, slip : SolanaSwap(c, raw, slip)
         \/ SelectSolanaUtxos(c)
  PROVE  AInv'
<1>1. IsPlan(plan[c])
  BY CallFacts
<1>2. ASSUME NEW r, SolanaBegin(c, r) PROVE AInv'
  <2> DEFINE q == [NoPlan EXCEPT !.req = r, !.ask = r.chs, !.toks = r.toks, !.chs = r.chs]
             label == IF r.kind = "claim" THEN "fee" ELSE "count"
  <2>1. pc[c] \notin Spending /\ (Goto(c, label, q) \/ Fail(c, "invalid"))
    BY <1>2 DEF SolanaBegin, Spending
  <2>2. q.approved = 0
    BY DEF NoPlan
  <2>3. label \notin {"approve", "reset", "approving", "send"}
    OBVIOUS
  <2> HIDE DEF q, label
  <2> QED
    BY <2>1, <2>2, <2>3, FailA, EarlyA
<1>3. ASSUME CalculateSolanaNullifierCount(c) PROVE AInv'
  <2>1. pc[c] \notin Spending /\ Goto(c, "fee", plan[c])
    BY <1>3 DEF CalculateSolanaNullifierCount, Spending
  <2> QED
    BY <2>1, EarlyStep
<1>4. ASSUME NEW i, NEW amount, Goto(c, "select", Charge(plan[c], i, amount)), pc[c] = "fee"
      PROVE  AInv'
  <2> DEFINE q == Charge(plan[c], i, amount)
  <2>1. q.approved = plan[c].approved
    BY <1>1 DEF IsPlan, Charge
  <2>2. pc[c] \notin Spending /\ Goto(c, "select", q)
    BY <1>4 DEF Spending
  <2> HIDE DEF q
  <2> QED
    BY <2>1, <2>2, EarlyStep
<1>5. ASSUME (\E raw, x : SolanaWithdraw(c, raw, x)) \/ (\E raw : SolanaTransfer(c, raw)) PROVE AInv'
  <2>1. pc[c] = "fee" /\ \E amount : Goto(c, "select", Charge(plan[c], 1, amount))
    BY <1>5 DEF SolanaWithdraw, SolanaTransfer
  <2> QED
    BY <1>4, <2>1
<1>6. ASSUME NEW raw, NEW slip, SolanaSwap(c, raw, slip) PROVE AInv'
  <2>1. /\ pc[c] = "fee"
        /\ Fail(c, "low output") \/ \E amount : Goto(c, "select", Charge(plan[c], 2, amount))
    BY <1>6 DEF SolanaSwap
  <2> QED
    BY <1>4, <2>1, FailA
<1>7. ASSUME SelectSolanaUtxos(c) PROVE AInv'
  <2> DEFINE p == [plan[c] EXCEPT !.view = View]
  <2>1. pc[c] \notin Spending
    BY <1>7 DEF SelectSolanaUtxos, Spending
  <2>2. \/ \E e : Goto(c, "failed", [p EXCEPT !.err = e])
        \/ \E a, b : Goto(c, "root", [p EXCEPT !.ins = a, !.outs = b])
    BY <1>7 DEF SelectSolanaUtxos
  <2>3. IsPlan(p) /\ p.approved = plan[c].approved
    BY <1>1, PlanView
  <2> HIDE DEF p
  <2>4. ASSUME NEW e, Goto(c, "failed", [p EXCEPT !.err = e]) PROVE AInv'
    <3> DEFINE q == [p EXCEPT !.err = e]
    <3>1. q.approved = plan[c].approved
      BY <2>3, PlanErr
    <3>2. Goto(c, "failed", q)
      BY <2>4
    <3> HIDE DEF q
    <3> QED
      BY <2>1, <3>1, <3>2, EarlyStep
  <2>5. ASSUME NEW a, NEW b, Goto(c, "root", [p EXCEPT !.ins = a, !.outs = b]) PROVE AInv'
    <3> DEFINE q == [p EXCEPT !.ins = a, !.outs = b]
    <3>1. q.approved = plan[c].approved
      BY <2>3 DEF IsPlan
    <3>2. Goto(c, "root", q)
      BY <2>5
    <3> HIDE DEF q
    <3> QED
      BY <2>1, <3>1, <3>2, EarlyStep
  <2> QED
    BY <2>2, <2>4, <2>5
<1> QED
  BY <1>2, <1>3, <1>5, <1>6, <1>7

-----------------------------------------------------------------------------
LEMMA SamePlan ==
  ASSUME IInv, AInv, NEW c \in Calls
  PROVE  SameOrder(plan[c], plan[c])
<1>1. plan[c].approved \in Nat
  BY ApprovalFacts
<1> QED
  BY <1>1 DEF SameOrder

\* A call that needs no allowance.
LEMMA NothingRequired ==
  ASSUME NEW al, Allowances(al), NEW nets, NEW plans, NEW c, NEW label, NEW n, NEW p,
         p.toks \in Seq(Tokens), ~IsDirect(p.req.kind)
  PROVE  Funded(al, nets, plans, c, label, n, p)
<1>1. \A i \in DOMAIN p.toks : p.toks[i] \in Tokens /\ al[p.toks[i]] \in Nat
  BY DEF Allowances
<1>2. \A i : Required(p, i) = 0
  BY DEF Required
<1> QED
  BY <1>1, <1>2 DEF Funded

LEMMA SolanaIndirect ==
  ASSUME NEW cl, NEW ch, NEW p, Sound(cl, ch, p), cl.net = "solana"
  PROVE  ~IsDirect(p.req.kind)
<1>1. CASE p.req.kind = "claim"
  BY <1>1 DEF IsDirect
<1>2. CASE p.req.kind # "claim"
  <2>1. Merged(cl, p)
    BY <1>2 DEF Sound
  <2>2. p.req.kind \in {"withdraw", "transfer", "swap"}
    BY <2>1 DEF Merged, SolanaAmounts
  <2> QED
    BY <2>2 DEF IsDirect
<1> QED
  BY <1>1, <1>2

\* The proof and the approvals.
LEMMA ConstructA ==
  ASSUME IInv, AInv, NEW c \in Calls,
         ConstructZkProof(c) \/ (client.net = "solana" /\ ConstructSolanaZkProof(c))
  PROVE  AInv'
<1> DEFINE p == plan[c]
<1>1. pc[c] = "prove"
  BY DEF ConstructZkProof, ConstructSolanaZkProof
<1>2. pc[c] \notin Spending /\ pc[c] \in Later \ {"sent", "done"}
  BY <1>1 DEF Spending, Later
<1>3. net[c] = "none" /\ p.approved = 0
  BY <1>2, ApprovalFacts
<1>4. Sound(client, chain, p) /\ client \in Clients /\ GoodChain(chain) /\ Shape
  BY <1>2, LaterFacts
<1>5. p.toks \in Seq(Tokens)
  BY <1>4, RequiredFacts
<1>6. \/ Fail(c, "proof") \/ Fail(c, "circuit")
      \/ Goto(c, "approve", p)
      \/ Goto(c, "send", p) /\ ~IsDirect(p.req.kind)
  <2>1. CASE ConstructZkProof(c)
    BY <2>1 DEF ConstructZkProof
  <2>2. CASE client.net = "solana" /\ ConstructSolanaZkProof(c)
    BY <1>4, <2>2, SolanaIndirect DEF ConstructSolanaZkProof
  <2> QED
    BY <2>1, <2>2
<1>7. Allowances(allowance)
  BY DEF AInv
<1>8. ASSUME NEW label \in {"approve", "send"}, Goto(c, label, p),
             label = "send" => ~IsDirect(p.req.kind)
      PROVE  AInv'
  <2>1. Moves(c, label, "none", p)
    BY <1>3, <1>4, <1>8, GotoMoves
  <2>2. allowance' = allowance
    BY <1>8 DEF Goto
  <2>3. Steady(c, "none", p)
    BY <1>2, <1>3 DEF Steady
  <2>4. Approvals(label, p)
    BY <1>3 DEF Approvals
  <2>5. Funded(allowance, net, plan, c, label, "none", p)
    <3>1. CASE label = "send"
      BY <1>5, <1>7, <1>8, <3>1, NothingRequired
    <3>2. CASE label = "approve"
      <4>1. DOMAIN p.toks \in SUBSET Nat /\ \A i \in DOMAIN p.toks : i >= 1
        BY <1>5
      <4> HIDE DEF p
      <4>2. \A i \in DOMAIN p.toks : ~Passed("approve", "none", p, i)
        BY <1>3, <4>1 DEF Passed
      <4> QED
        BY <3>2, <4>2 DEF Funded
    <3> QED
      BY <3>1, <3>2
  <2> QED
    BY <2>1, <2>2, <2>3, <2>4, <2>5, QuietOK
<1> QED
  BY <1>6, <1>8, FailA

LEMMA ReadAllowancesA ==
  ASSUME IInv, AInv, NEW c \in Calls, ReadAllowances(c)
  PROVE  AInv'
<1> DEFINE p == plan[c]
           short == {i \in p.approved + 1 .. Len(p.toks) : allowance[p.toks[i]] < Required(p, i)}
           t == p.toks[Min(short)]
           m == Min(short)
           q == [p EXCEPT !.approved = m]
           next == IF t \in ResetFirst /\ allowance[t] > 0 THEN "reset" ELSE "approving"
<1>1. pc[c] = "approve"
  BY DEF ReadAllowances, Short
<1>2. pc[c] \in Later \ {"sent", "done"}
  BY <1>1 DEF Later
<1>3. /\ Sound(client, chain, p) /\ client \in Clients /\ GoodChain(chain) /\ Shape /\ IsPlan(p)
      /\ net[c] = "none"
  BY <1>2, LaterFacts
<1>4. /\ p.toks \in Seq(Tokens) /\ \A i \in DOMAIN p.toks : Required(p, i) \in Nat
  BY <1>3, RequiredFacts
<1>5. p.approved \in Nat /\ Allowances(allowance) /\ Approvals("approve", p)
  <2>1. Approvals(pc[c], p)
    BY ApprovalFacts
  <2> QED
    BY <1>1, <2>1 DEF Approvals, AInv
<1>6. \A i \in DOMAIN p.toks : allowance[p.toks[i]] \in Nat
  BY <1>4, <1>5 DEF Allowances
<1>7. Funded(allowance, net, plan, c, pc[c], net[c], p)
  BY DEF AInv
<1>8. \A i \in DOMAIN p.toks :
        i <= p.approved => allowance[p.toks[i]] >= Required(p, i) \/ ConflictOf(net, plan, c, p.toks[i])
  BY <1>1, <1>7 DEF Funded, Passed
<1>9. allowance' = allowance
  BY DEF ReadAllowances, Short, Goto
<1>10. \/ short = {} /\ Goto(c, "send", p)
       \/ short # {} /\ Goto(c, next, q)
  BY DEF ReadAllowances, Short
<1>11. CASE short = {} /\ Goto(c, "send", p)
  <2>1. Moves(c, "send", "none", p)
    BY <1>3, <1>11, GotoMoves
  <2>2. Steady(c, "none", p)
    BY <1>3, SamePlan DEF Steady
  <2>3. Approvals("send", p)
    BY <1>5 DEF Approvals, Spending
  <2>4. ASSUME NEW i \in DOMAIN p.toks
        PROVE  allowance[p.toks[i]] >= Required(p, i) \/ ConflictOf(net, plan, c, p.toks[i])
    <3>1. CASE i <= p.approved
      BY <1>8, <3>1
    <3>2. CASE ~(i <= p.approved)
      <4>1. i \in p.approved + 1 .. Len(p.toks)
        BY <1>4, <1>5, <3>2
      <4>2. ~(allowance[p.toks[i]] < Required(p, i))
        BY <1>11, <4>1
      <4>3. allowance[p.toks[i]] \in Nat /\ Required(p, i) \in Nat
        BY <1>4, <1>6
      <4> QED
        BY <4>2, <4>3
    <3> QED
      BY <3>1, <3>2
  <2>5. Funded(allowance, net, plan, c, "send", "none", p)
    BY <2>4 DEF Funded
  <2> QED
    BY <1>9, <2>1, <2>2, <2>3, <2>5, QuietOK
<1>12. CASE short # {} /\ Goto(c, next, q)
  <2>1. short \in SUBSET Nat
    BY <1>4, <1>5
  <2>2. m \in short /\ \A i \in short : m <= i
    BY <1>12, <2>1, LeastOf
  <2> HIDE DEF m
  <2>3. /\ m \in p.approved + 1 .. Len(p.toks) /\ allowance[p.toks[m]] < Required(p, m)
        /\ \A i \in p.approved + 1 .. Len(p.toks) : i < m => ~(allowance[p.toks[i]] < Required(p, i))
    <3>1. m \in p.approved + 1 .. Len(p.toks) /\ allowance[p.toks[m]] < Required(p, m)
      BY <2>2
    <3>2. ASSUME NEW i \in p.approved + 1 .. Len(p.toks), i < m, allowance[p.toks[i]] < Required(p, i)
          PROVE  FALSE
      <4>1. i \in short
        BY <3>2
      <4>2. m <= i /\ i \in Nat /\ m \in Nat
        BY <2>1, <2>2, <4>1
      <4> QED
        BY <3>2, <4>2
    <3> QED
      BY <3>1, <3>2
  <2>4. m \in Nat /\ m \in DOMAIN p.toks /\ m > p.approved /\ m > 0
    BY <1>4, <1>5, <2>3
  <2>5. Required(p, m) > 0
    <3>1. Required(p, m) \in Nat /\ allowance[p.toks[m]] \in Nat /\ allowance[p.toks[m]] < Required(p, m)
      BY <1>4, <1>6, <2>3, <2>4
    <3> QED
      BY <3>1
  <2>6. next \in {"reset", "approving"} /\ Goto(c, next, q)
    BY <1>12
  <2>7. q.approved = m /\ q.toks = p.toks /\ q.req = p.req /\ q.chs = p.chs /\ q.ins = p.ins
    BY <1>3 DEF IsPlan
  <2> HIDE DEF short, q, next
  <2>8. SameOrder(p, q)
    BY <1>5, <2>4, <2>7 DEF SameOrder
  <2>9. \A i : Required(q, i) = Required(p, i)
    BY <2>8, SameAllowance
  <2>10. Moves(c, next, "none", q)
    BY <1>3, <2>6, GotoMoves
  <2>11. Steady(c, "none", q)
    BY <1>3, <2>8 DEF Steady
  <2>12. Approvals(next, q)
    <3>1. q.approved \in Nat /\ q.approved \in DOMAIN q.toks /\ Required(q, q.approved) > 0
      BY <2>4, <2>5, <2>7, <2>9
    <3> QED
      BY <2>6, <3>1 DEF Approvals, Spending
  <2>13. ASSUME NEW i \in DOMAIN p.toks, i < m
         PROVE  allowance[p.toks[i]] >= Required(p, i) \/ ConflictOf(net, plan, c, p.toks[i])
    <3>1. CASE i <= p.approved
      BY <1>8, <3>1
    <3>2. CASE ~(i <= p.approved)
      <4>1. i \in p.approved + 1 .. Len(p.toks)
        BY <1>4, <1>5, <3>2
      <4>2. ~(allowance[p.toks[i]] < Required(p, i))
        BY <2>3, <2>13, <4>1
      <4>3. allowance[p.toks[i]] \in Nat /\ Required(p, i) \in Nat
        BY <1>4, <1>6
      <4> QED
        BY <4>2, <4>3
    <3> QED
      BY <3>1, <3>2
  <2>14. Funded(allowance, net, plan, c, next, "none", q)
    <3>1. \A i : Passed(next, "none", q, i) => i < m
      BY <2>6, <2>7 DEF Passed
    <3> HIDE DEF p
    <3> QED
      BY <2>7, <2>9, <2>13, <3>1 DEF Funded
  <2> QED
    BY <1>9, <2>10, <2>11, <2>12, <2>14, QuietOK
<1> QED
  BY <1>10, <1>11, <1>12

\* The approval of a token: of those that rely on its allowance, this call is
\* one.
LEMMA ApproveCallA ==
  ASSUME IInv, AInv, NEW c \in Calls, ResetAllowance(c) \/ ApproveTokenToHinkal(c)
  PROVE  AInv'
<1> DEFINE p == plan[c]
           k == p.approved
           t == p.toks[k]
<1>1. PICK amount, label :
        /\ ApproveCall(c, amount, label)
        /\ \/ pc[c] = "reset" /\ amount = 0 /\ label = "approving"
           \/ pc[c] = "approving" /\ amount = Required(p, k) /\ label = "approve"
  BY DEF ResetAllowance, ApproveTokenToHinkal
<1>2. pc[c] \in Later \ {"sent", "done"} /\ pc[c] \in {"reset", "approving"}
  BY <1>1 DEF Later
<1>3. /\ Sound(client, chain, p) /\ client \in Clients /\ GoodChain(chain) /\ Shape
      /\ net[c] = "none" /\ Len(chain) \in Nat
  BY <1>2, LaterFacts
<1>4. /\ p.toks \in Seq(Tokens) /\ IsInjective(p.toks)
      /\ \A i \in DOMAIN p.toks : Required(p, i) \in Nat
      /\ \A i \in DOMAIN p.toks : FromAllowance(p, p.toks[i]) = Required(p, i)
  BY <1>3, RequiredFacts
<1>5. /\ k \in Nat /\ k \in DOMAIN p.toks /\ Required(p, k) > 0
  <2>1. Approvals(pc[c], p)
    BY ApprovalFacts
  <2> QED
    BY <1>2, <2>1 DEF Approvals
<1>6. Allowances(allowance) /\ Funded(allowance, net, plan, c, pc[c], net[c], p)
  BY DEF AInv
<1>7. t \in Tokens /\ k >= 1 /\ FromAllowance(p, t) > 0 /\ amount \in Nat
  BY <1>1, <1>4, <1>5
<1>8. /\ pc' = [pc EXCEPT ![c] = label] /\ allowance' = [allowance EXCEPT ![t] = amount]
      /\ chain' = chain /\ plan' = plan /\ net' = net
  BY <1>1 DEF ApproveCall
<1>9. Turns(c, label, "none", p)
  BY <1>3, <1>8 DEF Turns, Shape
<1>10. Steady(c, "none", p)
  BY <1>3, SamePlan DEF Steady
<1>11. allowance'[t] = amount /\ \A s \in Tokens : s # t => allowance'[s] = allowance[s]
  BY <1>6, <1>7, <1>8 DEF Allowances
<1>12. Allowances(allowance')
  BY <1>6, <1>7, <1>8 DEF Allowances
<1>13. Party(net[c], p, t)
  BY <1>5, <1>7 DEF Party
<1>14. Drawn(c)
  <2> SUFFICES ASSUME NEW d \in Calls, d # c, NEW s \in Tokens
               PROVE  allowance'[s] >= allowance[s] \/ ConflictOf(net', plan', d, s)
    BY DEF Drawn
  <2>1. CASE s = t
    <3>1. c \in Calls \ {d} /\ Party(net'[c], plan'[c], s)
      BY <1>8, <1>13, <2>1
    <3> QED
      BY <3>1 DEF ConflictOf
  <2>2. CASE s # t
    <3>1. allowance'[s] = allowance[s] /\ allowance[s] \in Nat
      BY <1>6, <1>11, <2>2 DEF Allowances
    <3> QED
      BY <3>1
  <2> QED
    BY <2>1, <2>2
<1>15. Grown(chain, chain')
  BY <1>3, <1>8 DEF Grown
<1>16. Approvals(label, p)
  BY <1>1, <1>5 DEF Approvals, Spending
<1>17. Funded(allowance', net', plan', c, label, "none", p)
  <2> SUFFICES ASSUME NEW i \in DOMAIN p.toks, Passed(label, "none", p, i)
               PROVE  \/ allowance'[p.toks[i]] >= Required(p, i)
                      \/ ConflictOf(net', plan', c, p.toks[i])
    BY DEF Funded
  <2>1. i \in Nat /\ p.toks[i] \in Tokens /\ Required(p, i) \in Nat
    BY <1>4
  <2>2. CASE i = k
    <3>1. label = "approve"
      BY <1>1, <1>5, <2>2 DEF Passed
    <3>2. amount = Required(p, k)
      BY <1>1, <3>1
    <3> QED
      BY <1>11, <2>1, <2>2, <3>2
  <2>3. CASE i # k
    <3>1. i < k
      BY <1>1, <1>5, <2>1, <2>3 DEF Passed
    <3>2. Passed(pc[c], net[c], p, i)
      BY <1>2, <3>1 DEF Passed
    <3>3. allowance[p.toks[i]] >= Required(p, i) \/ ConflictOf(net, plan, c, p.toks[i])
      BY <1>6, <3>2 DEF Funded
    <3>4. p.toks[i] # t
      BY <1>4, <1>5, <2>3 DEF IsInjective
    <3>5. allowance'[p.toks[i]] = allowance[p.toks[i]]
      BY <1>11, <2>1, <3>4
    <3> QED
      BY <1>8, <3>3, <3>5
  <2> QED
    BY <2>2, <2>3
<1> QED
  BY <1>9, <1>10, <1>12, <1>14, <1>15, <1>16, <1>17, TurnOK

\* The transaction is sent, and settled: what it takes from the allowance it
\* takes from every other call that relies on it, which is their conflict.
LEMMA SendA ==
  ASSUME IInv, AInv, NEW c \in Calls, Send(c) \/ Answer(c)
  PROVE  AInv'
<1>1. Shape /\ SameOrder(plan[c], plan[c]) /\ plan[c].approved \in Nat
  BY CallFacts, SamePlan, ApprovalFacts
<1>2. ASSUME NEW label \in {"sent", "done"}, NEW n, Moves(c, label, n, plan[c]), allowance' = allowance,
             \/ n = net[c]
             \/ n = "pending" /\ pc[c] = "send" /\ net[c] = "none"
      PROVE  AInv'
  <2>1. Steady(c, n, plan[c])
    BY <1>1, <1>2 DEF Steady
  <2>2. Approvals(label, plan[c])
    BY <1>1, <1>2 DEF Approvals, Spending
  <2>3. \A i : Passed(label, n, plan[c], i) => Passed(pc[c], net[c], plan[c], i)
    BY <1>2 DEF Passed
  <2>4. Funded(allowance, net, plan, c, label, n, plan[c])
    BY <1>1, <2>3, StaysFunded
  <2> QED
    BY <1>2, <2>1, <2>2, <2>4, QuietOK
<1>3. CASE Send(c)
  <2>1. Moves(c, "sent", "pending", plan[c]) /\ allowance' = allowance /\ pc[c] = "send"
    BY <1>1, <1>3 DEF Send, Moves, Shape
  <2>2. net[c] = "none"
    BY <2>1, CallFacts
  <2> QED
    BY <1>2, <2>1, <2>2
<1>4. CASE Answer(c)
  <2>1. CASE Fail(c, "answer")
    BY <2>1, FailA
  <2>2. CASE ~Fail(c, "answer")
    <3>1. pc' = [pc EXCEPT ![c] = "done"] /\ UNCHANGED <<client, chain, seen, plan, net, allowance>>
      BY <1>4, <2>2 DEF Answer
    <3>2. Moves(c, "done", net[c], plan[c]) /\ allowance' = allowance
      BY <1>1, <3>1 DEF Moves, Shape
    <3> QED
      BY <1>2, <3>2
  <2> QED
    BY <2>1, <2>2
<1> QED
  BY <1>3, <1>4

-----------------------------------------------------------------------------
LEMMA PendingFacts ==
  ASSUME IInv, AInv, NEW c \in Calls, net[c] = "pending"
  PROVE  /\ Sound(client, chain, plan[c]) /\ client \in Clients /\ GoodChain(chain)
         /\ Shape /\ Len(chain) \in Nat
         /\ SameOrder(plan[c], plan[c]) /\ pc[c] \in {"sent", "done", "failed"}
         /\ Approvals(pc[c], plan[c])
<1>1. /\ CallOK(client, chain, pc[c], net[c], plan[c]) /\ client \in Clients /\ GoodChain(chain)
      /\ Shape /\ Len(chain) \in Nat
  BY CallFacts
<1>2. Sound(client, chain, plan[c]) /\ pc[c] \in {"sent", "done", "failed"}
  BY <1>1 DEF CallOK
<1>3. SameOrder(plan[c], plan[c]) /\ Approvals(pc[c], plan[c])
  BY SamePlan, ApprovalFacts
<1> QED
  BY <1>1, <1>2, <1>3

\* A pending transaction that is not accepted.
LEMMA NotAccepted ==
  ASSUME IInv, AInv, NEW c \in Calls, net[c] = "pending", ~Accepts(plan[c])
  PROVE  Rejection(chain, net, plan, c, plan[c])
<1> DEFINE p == plan[c]
<1>1. Sound(client, chain, p) /\ client \in Clients /\ GoodChain(chain)
  BY PendingFacts
<1>3. /\ p.toks \in Seq(Tokens)
      /\ \A i \in DOMAIN p.toks : Required(p, i) \in Nat
      /\ \A i \in DOMAIN p.toks : FromAllowance(p, p.toks[i]) = Required(p, i)
      /\ \A t : (\A i \in DOMAIN p.toks : p.toks[i] # t) => FromAllowance(p, t) = 0
  BY <1>1, RequiredFacts
<1>4. Allowances(allowance) /\ Funded(allowance, net, plan, c, pc[c], net[c], p)
  BY DEF AInv
<1>5. CASE BuildInNullifiers(p.ins) \cap Spent # {}
  BY <1>5 DEF Rejection, Spent, SpentUpTo, SpentOf
<1>6. CASE BuildInNullifiers(p.ins) \cap Spent = {}
  <2>1. PICK t \in Tokens : ~(FromAllowance(p, t) <= allowance[t])
    BY <1>6 DEF Accepts
  <2>2. allowance[t] \in Nat
    BY <1>4 DEF Allowances
  <2>3. PICK i \in DOMAIN p.toks : p.toks[i] = t
    <3> SUFFICES ASSUME \A i \in DOMAIN p.toks : p.toks[i] # t PROVE FALSE
      OBVIOUS
    <3>1. FromAllowance(p, t) = 0
      BY <1>3
    <3> QED
      BY <2>1, <2>2, <3>1
  <2>4. FromAllowance(p, t) = Required(p, i) /\ Required(p, i) \in Nat
    BY <1>3, <2>3
  <2>5. Passed(pc[c], net[c], p, i)
    BY DEF Passed
  <2>6. allowance[t] >= Required(p, i) \/ ConflictOf(net, plan, c, t)
    BY <1>4, <2>3, <2>5 DEF Funded
  <2>7. ConflictOf(net, plan, c, t) /\ FromAllowance(p, t) > 0
    BY <2>1, <2>2, <2>4, <2>6
  <2> QED
    BY <2>7 DEF Rejection
<1> QED
  BY <1>5, <1>6

LEMMA SettleA ==
  ASSUME IInv, AInv, NEW c \in Calls, Settle(c)
  PROVE  AInv'
<1> DEFINE p == plan[c]
<1>1. net[c] = "pending" /\ pc' = pc /\ plan' = plan /\ client' = client /\ seen' = seen
  BY DEF Settle
<1>2. /\ Sound(client, chain, p) /\ client \in Clients /\ GoodChain(chain)
      /\ Shape /\ Len(chain) \in Nat
      /\ SameOrder(p, p) /\ pc[c] \in {"sent", "done", "failed"} /\ Approvals(pc[c], p)
  BY <1>1, PendingFacts
<1>3. ASSUME NEW n \in {"executed", "rejected"}
      PROVE  Steady(c, n, p) /\ \A i : ~Passed(pc[c], n, p, i)
  BY <1>1, <1>2 DEF Steady, Passed
<1>4. CASE ~Accepts(p)
  <2>1. net' = [net EXCEPT ![c] = "rejected"] /\ chain' = chain /\ allowance' = allowance
    BY <1>4 DEF Settle
  <2>2. Moves(c, pc[c], "rejected", p)
    BY <1>1, <1>2, <2>1 DEF Moves, Shape
  <2>3. Funded(allowance, net, plan, c, pc[c], "rejected", p)
    BY <1>3 DEF Funded
  <2>4. Rejection(chain, net, plan, c, p)
    BY <1>1, <1>4, NotAccepted
  <2>5. Steady(c, "rejected", p)
    BY <1>3
  <2> QED
    BY <1>2, <2>1, <2>2, <2>3, <2>4, <2>5, QuietOK
<1>5. CASE Accepts(p)
  <2> DEFINE e == [call |-> c, ins |-> BuildInNullifiers(p.ins), outs |-> BuildOutCommitments(p.outs),
                   changes |-> CalcAmountChanges(p.ins, p.outs)]
  <2>1. /\ chain' = Append(chain, e) /\ net' = [net EXCEPT ![c] = "executed"]
        /\ allowance' = [t \in Tokens |-> allowance[t] - FromAllowance(p, t)]
    BY <1>5 DEF Settle
  <2>2. Grown(chain, chain')
    <3>1. e.ins = BuildInNullifiers(p.ins) /\ e.outs = BuildOutCommitments(p.outs)
      OBVIOUS
    <3> HIDE DEF e
    <3>2. Ledger(chain, p.toks, p.ins, p.outs, PayingOwner(p))
      BY <1>2, SoundLedger
    <3>3. GoodOutputs(e.outs)
      BY <3>1, <3>2, LedgerOuts
    <3>4. e.ins \in SUBSET UtxosOf(chain, Len(chain))
      BY <3>1, <3>2, LedgerIns
    <3>5. e.ins \cap SpentOf(chain, Len(chain)) = {}
      BY <1>5, <3>1 DEF Accepts, Spent, SpentUpTo, SpentOf
    <3> QED
      BY <1>2, <2>1, <3>3, <3>4, <3>5, ChainAppend
  <2>3. Turns(c, pc[c], "executed", p)
    BY <1>1, <1>2, <2>1 DEF Turns, Shape
  <2>4. Allowances(allowance) /\ \A t : FromAllowance(p, t) \in Nat
    BY <1>2, RequiredFacts DEF AInv
  <2>5. \A t \in Tokens : FromAllowance(p, t) <= allowance[t]
    BY <1>5 DEF Accepts
  <2>6. ASSUME NEW t \in Tokens
        PROVE  /\ allowance'[t] = allowance[t] - FromAllowance(p, t)
               /\ allowance'[t] \in Nat /\ allowance[t] \in Nat
    <3>1. allowance'[t] = allowance[t] - FromAllowance(p, t)
      BY <2>1
    <3>2. allowance[t] \in Nat /\ FromAllowance(p, t) \in Nat /\ FromAllowance(p, t) <= allowance[t]
      BY <2>4, <2>5 DEF Allowances
    <3> QED
      BY <3>1, <3>2
  <2>7. Allowances(allowance')
    BY <2>1, <2>6 DEF Allowances
  <2>8. Drawn(c)
    <3> SUFFICES ASSUME NEW d \in Calls, d # c, NEW t \in Tokens
                 PROVE  allowance'[t] >= allowance[t] \/ ConflictOf(net', plan', d, t)
      BY DEF Drawn
    <3>1. CASE FromAllowance(p, t) > 0
      <4>1. Party("executed", p, t)
        BY <3>1 DEF Party
      <4>2. c \in Calls \ {d} /\ Party(net'[c], plan'[c], t)
        BY <2>3, <4>1 DEF Turns
      <4> QED
        BY <4>2 DEF ConflictOf
    <3>2. CASE ~(FromAllowance(p, t) > 0)
      <4>1. FromAllowance(p, t) \in Nat
        BY <2>4
      <4>2. FromAllowance(p, t) = 0
        BY <3>2, <4>1
      <4> QED
        BY <2>6, <4>2
    <3> QED
      BY <3>1, <3>2
  <2>9. Funded(allowance', net', plan', c, pc[c], "executed", p)
    BY <1>3 DEF Funded
  <2>10. Steady(c, "executed", p)
    BY <1>3
  <2> QED
    BY <1>2, <2>2, <2>3, <2>7, <2>8, <2>9, <2>10, TurnOK
<1> QED
  BY <1>4, <1>5

\* The allowances at the beginning and in every step.
LEMMA AInit == SolInit => AInv
<1> SUFFICES ASSUME Init PROVE AInv
  BY DEF SolInit
<1>1. /\ pc = [c \in Calls |-> "idle"] /\ plan = [c \in Calls |-> NoPlan]
      /\ net = [c \in Calls |-> "none"] /\ allowance = [t \in Tokens |-> 0]
  BY DEF Init
<1>2. NoPlan.approved = 0
  BY DEF NoPlan
<1>3. Allowances(allowance)
  BY <1>1 DEF Allowances
<1>4. ASSUME NEW c \in Calls
      PROVE  /\ Approvals(pc[c], plan[c])
             /\ Funded(allowance, net, plan, c, pc[c], net[c], plan[c])
             /\ net[c] # "rejected"
  <2>1. pc[c] = "idle" /\ plan[c] = NoPlan /\ net[c] = "none"
    BY <1>1
  <2>2. Approvals("idle", NoPlan)
    BY <1>2 DEF Approvals
  <2>3. Funded(allowance, net, plan, c, "idle", "none", NoPlan)
    BY NotYetFunded
  <2> QED
    BY <2>1, <2>2, <2>3
<1> QED
  BY <1>3, <1>4 DEF AInv

LEMMA UnchangedA ==
  ASSUME AInv, chain' = chain, pc' = pc, plan' = plan, net' = net, allowance' = allowance
  PROVE  AInv'
BY DEF AInv

LEMMA NextA ==
  ASSUME IInv, AInv, AnyNext
  PROVE  AInv'
<1>1. CASE SeeOutputs \/ SeeNullifiers \/ SeeTree
  BY <1>1, UnchangedA DEF SeeOutputs, SeeNullifiers, SeeTree
<1>2. ASSUME NEW c \in Calls,
             \/ \E r, sim : Begin(c, r, sim)
             \/ \E raw, x : ResolveFee(c, raw, x)
             \/ \E raw : ClaimUtxo(c, raw)
             \/ SelectUtxos(c) \/ RecipientInputOutputUtxos(c)
             \/ HandleLocalMerkleTrees(c) \/ \E k : HandleRemoteMerkleTrees(c, k)
      PROVE  AInv'
  BY <1>2, EvmEarlyA
<1>3. ASSUME NEW c \in Calls,
             \/ \E r : SolanaBegin(c, r)
             \/ CalculateSolanaNullifierCount(c)
             \/ \E raw, x : SolanaWithdraw(c, raw, x)
             \/ \E raw : SolanaTransfer(c, raw)
             \/ \E raw, slip : SolanaSwap(c, raw, slip)
             \/ SelectSolanaUtxos(c)
      PROVE  AInv'
  BY <1>3, SolanaEarlyA
<1>4. ASSUME NEW c \in Calls,
             ConstructZkProof(c) \/ (client.net = "solana" /\ ConstructSolanaZkProof(c))
      PROVE  AInv'
  BY <1>4, ConstructA
<1>5. ASSUME NEW c \in Calls, ReadAllowances(c) PROVE AInv'
  BY <1>5, ReadAllowancesA
<1>6. ASSUME NEW c \in Calls, ResetAllowance(c) \/ ApproveTokenToHinkal(c) PROVE AInv'
  BY <1>6, ApproveCallA
<1>7. ASSUME NEW c \in Calls, Send(c) \/ Answer(c) PROVE AInv'
  BY <1>7, SendA
<1>8. ASSUME NEW c \in Calls, RequestFails(c) \/ SolanaRequestFails(c) PROVE AInv'
  <2>1. Fail(c, "request")
    BY <1>8 DEF RequestFails, SolanaRequestFails
  <2> QED
    BY <2>1, FailA
<1>9. ASSUME NEW c \in Calls, Settle(c) PROVE AInv'
  BY <1>9, SettleA
<1>10. CASE client.net = "evm" /\ Next
  BY <1>1, <1>2, <1>4, <1>5, <1>6, <1>7, <1>8, <1>9, <1>10 DEF Next
<1>11. CASE client.net = "solana" /\ SolNext
  BY <1>1, <1>2, <1>3, <1>4, <1>7, <1>8, <1>9, <1>11 DEF SolNext, SolanaClaimUtxo
<1> QED
  BY <1>10, <1>11 DEF AnyNext

LEMMA ConflictOnly == AInv => RejectedOnlyByConflict
<1> SUFFICES ASSUME AInv, NEW c \in Calls, net[c] = "rejected"
             PROVE  \/ BuildInNullifiers(plan[c].ins) \cap Spent # {}
                    \/ \E d \in Calls \ {c} : \E t \in Tokens :
                         /\ net[d] = "executed" \/ plan[d].approved > 0
                         /\ FromAllowance(plan[d], t) > 0 /\ FromAllowance(plan[c], t) > 0
  BY DEF RejectedOnlyByConflict
<1>1. Rejection(chain, net, plan, c, plan[c])
  BY DEF AInv
<1>2. Spent = SpentOf(chain, Len(chain))
  BY DEF Spent, SpentUpTo, SpentOf
<1> QED
  BY <1>1, <1>2 DEF Rejection, ConflictOf, Party

(***************************************************************************)
(* The contract turns a transaction down only because another call spent   *)
(* one of its inputs, or replaced or used up the allowance that            *)
(* ApproveTokensToHinkal had made sure of.                                 *)
(***************************************************************************)
THEOREM RejectedForConflict == AnySpec => []RejectedOnlyByConflict
<1>1. SolInit => AInv
  BY AInit
<1>2. IInv /\ AInv /\ [AnyNext]_solVars => AInv'
  BY NextA, UnchangedA DEF solVars, vars
<1>3. AInv => RejectedOnlyByConflict
  BY ConflictOnly
<1> QED
  BY Invariance, <1>1, <1>2, <1>3, PTL DEF AnySpec

-----------------------------------------------------------------------------
(***************************************************************************)
(* The number of nullifier accounts that the gas estimate was told.        *)
(***************************************************************************)
Told(ch, k, req, pr) ==
  LET rows == RowsOf(ch, req.toks, pr.view)
  IN  \/ OverLimit(rows, req.chs)
      \/ pr.n = Cardinality(BuildInNullifiers(AddPaddingToUtxos(rows)) \ SpentOf(ch, k))

\* The count was made when the chain had k transactions, none of them the
\* call's own.
Counted(ch, c, req, pr) ==
  /\ Within(pr.view, Len(ch))
  /\ \E k \in 0 .. Len(ch) : /\ \A i \in 2 .. Len(ch) : ch[i].call = c => k < i
                             /\ Told(ch, k, req, pr)

\* Every count is one of the call's own request.
PInv ==
  /\ DOMAIN priced = Calls
  /\ \A c \in Calls :
       /\ pc[c] = "count" => plan[c].req.kind # "claim"
       /\ priced[c].counted =>
            /\ client.net = "solana" /\ pc[c] \notin {"idle", "count"}
            /\ plan[c].req.kind # "claim"
            /\ Counted(chain, c, plan[c].req, priced[c])

LEMMA CountedGrows ==
  ASSUME NEW ch, NEW ch2, Grown(ch, ch2), NEW c, NEW req, NEW pr, Counted(ch, c, req, pr)
  PROVE  Counted(ch2, c, req, pr)
<1>1. Within(pr.view, Len(ch)) /\ Within(pr.view, Len(ch2))
  BY WithinGrows DEF Counted
<1>2. PICK k \in 0 .. Len(ch) : /\ \A i \in 2 .. Len(ch) : ch[i].call = c => k < i
                                /\ Told(ch, k, req, pr)
  BY DEF Counted
<1>3. /\ Len(ch) \in Nat /\ Len(ch2) \in Nat /\ Len(ch) <= Len(ch2)
      /\ \A i \in 1 .. Len(ch) : ch2[i] = ch[i]
  BY DEF Grown
<1>4. k \in 0 .. Len(ch2)
  BY <1>3
<1>5. ASSUME NEW i \in 2 .. Len(ch2), ch2[i].call = c PROVE k < i
  <2>1. CASE i <= Len(ch)
    <3>1. i \in 2 .. Len(ch) /\ ch2[i] = ch[i]
      BY <1>3, <2>1
    <3> QED
      BY <1>2, <1>5, <3>1
  <2>2. CASE ~(i <= Len(ch))
    BY <1>3, <2>2
  <2> QED
    BY <2>1, <2>2
<1>6. RowsOf(ch2, req.toks, pr.view) = RowsOf(ch, req.toks, pr.view)
  BY <1>1, RowsGrow
<1>7. SpentOf(ch2, k) = SpentOf(ch, k)
  BY GrownSame
<1>8. Told(ch2, k, req, pr)
  BY <1>2, <1>6, <1>7 DEF Told
<1> QED
  BY <1>1, <1>4, <1>5, <1>8 DEF Counted

\* A step of call c, which goes on with the same request.
GoesOn(c) ==
  /\ client' = client /\ Grown(chain, chain')
  /\ \A d \in Calls : d # c => pc'[d] = pc[d] /\ plan'[d] = plan[d]
  /\ pc[c] # "idle" => plan'[c].req = plan[c].req /\ pc'[c] \notin {"idle", "count"}
  /\ pc'[c] = "count" => plan'[c].req.kind # "claim"

LEMMA GoesOnP ==
  ASSUME PInv, NEW c \in Calls, GoesOn(c), priced' = priced
  PROVE  PInv'
<1>1. client' = client /\ Grown(chain, chain')
  BY DEF GoesOn
<1>2. ASSUME NEW d \in Calls
      PROVE  /\ pc'[d] = "count" => plan'[d].req.kind # "claim"
             /\ priced[d].counted =>
                  /\ pc'[d] \notin {"idle", "count"} /\ plan'[d].req = plan[d].req
  BY DEF PInv, GoesOn
<1>3. ASSUME NEW d \in Calls, priced[d].counted
      PROVE  /\ client.net = "solana" /\ plan[d].req.kind # "claim"
             /\ Counted(chain', d, plan[d].req, priced[d])
  <2>1. client.net = "solana" /\ plan[d].req.kind # "claim" /\ Counted(chain, d, plan[d].req, priced[d])
    BY <1>3 DEF PInv
  <2> QED
    BY <1>1, <2>1, CountedGrows
<1> QED
  BY <1>1, <1>2, <1>3 DEF PInv

\* The steps of the flows.
LEMMA GotoGoesOn ==
  ASSUME IInv, NEW c \in Calls, NEW label, NEW p, Goto(c, label, p),
         pc[c] # "idle" => p.req = plan[c].req /\ label \notin {"idle", "count"},
         label = "count" => p.req.kind # "claim"
  PROVE  GoesOn(c)
<1>1. Shape /\ Len(chain) \in Nat
  BY CallFacts
<1>2. Moves(c, label, net[c], p)
  BY <1>1, GotoMoves
<1>3. Grown(chain, chain')
  BY <1>1, <1>2 DEF Moves, Grown
<1> QED
  BY <1>2, <1>3 DEF Moves, GoesOn

LEMMA FailGoesOn ==
  ASSUME IInv, NEW c \in Calls, NEW e, Fail(c, e)
  PROVE  GoesOn(c)
<1> DEFINE p == [plan[c] EXCEPT !.err = e]
<1>1. Shape /\ Len(chain) \in Nat /\ IsPlan(plan[c])
  BY CallFacts
<1>2. Moves(c, "failed", net[c], p)
  BY <1>1, FailMoves
<1>3. p.req = plan[c].req
  BY <1>1 DEF IsPlan
<1> HIDE DEF p
<1>4. Grown(chain, chain')
  BY <1>1, <1>2 DEF Moves, Grown
<1> QED
  BY <1>2, <1>3, <1>4 DEF Moves, GoesOn

LEMMA QuietGoesOn ==
  ASSUME IInv, NEW c \in Calls, pc[c] # "idle", NEW label, pc' = [pc EXCEPT ![c] = label],
         label \notin {"idle", "count"}, plan' = plan, client' = client, chain' = chain
  PROVE  GoesOn(c)
<1>1. Shape /\ Len(chain) \in Nat
  BY CallFacts
<1>2. Grown(chain, chain')
  BY <1>1 DEF Grown
<1> QED
  BY <1>1, <1>2 DEF Shape, GoesOn

LEMMA EvmGoesOn ==
  ASSUME IInv, NEW c \in Calls,
         \/ \E r, sim : Begin(c, r, sim)
         \/ \E raw, x : ResolveFee(c, raw, x)
         \/ \E raw : ClaimUtxo(c, raw)
         \/ SelectUtxos(c) \/ RecipientInputOutputUtxos(c)
         \/ HandleLocalMerkleTrees(c) \/ \E k : HandleRemoteMerkleTrees(c, k)
  PROVE  GoesOn(c)
<1>1. IsPlan(plan[c])
  BY CallFacts
<1>2. ASSUME NEW r, NEW sim, Begin(c, r, sim) PROVE GoesOn(c)
  <2>1. \/ Fail(c, "invalid")
        \/ /\ pc[c] = "idle"
           /\ \E label, p : Goto(c, label, p) /\ label \in {"fee", "select"}
    BY <1>2 DEF Begin
  <2> QED
    BY <2>1, FailGoesOn, GotoGoesOn
<1>3. ASSUME NEW raw, NEW x, ResolveFee(c, raw, x) PROVE GoesOn(c)
  <2> DEFINE q == WithFee(plan[c], FeeOfFlow(plan[c], raw, x))
  <2>1. Goto(c, "select", q) \/ Fail(c, "fee")
    BY <1>3 DEF ResolveFee
  <2>2. q.req = plan[c].req
    BY <1>1 DEF WithFee, IsPlan
  <2> HIDE DEF q
  <2> QED
    BY <2>1, <2>2, FailGoesOn, GotoGoesOn
<1>4. ASSUME NEW raw, ClaimUtxo(c, raw) PROVE GoesOn(c)
  <2>1. \/ Fail(c, "funds")
        \/ \E f, cs, a, b :
             Goto(c, "root", [plan[c] EXCEPT !.fee = f, !.chs = cs, !.ins = a, !.outs = b])
    BY <1>4 DEF ClaimUtxo
  <2>2. ASSUME NEW f, NEW cs, NEW a, NEW b,
               Goto(c, "root", [plan[c] EXCEPT !.fee = f, !.chs = cs, !.ins = a, !.outs = b])
        PROVE  GoesOn(c)
    <3> DEFINE q == [plan[c] EXCEPT !.fee = f, !.chs = cs, !.ins = a, !.outs = b]
    <3>1. q.req = plan[c].req /\ Goto(c, "root", q)
      BY <1>1, <2>2 DEF IsPlan
    <3> HIDE DEF q
    <3> QED
      BY <3>1, GotoGoesOn
  <2> QED
    BY <2>1, <2>2, FailGoesOn
<1>5. ASSUME SelectUtxos(c) PROVE GoesOn(c)
  <2>1. \/ \E v, e : Goto(c, "failed", [plan[c] EXCEPT !.view = v, !.err = e])
        \/ \E v, a, b : Goto(c, "root", [plan[c] EXCEPT !.view = v, !.ins = a, !.outs = b])
    BY <1>5 DEF SelectUtxos
  <2>2. ASSUME NEW v, NEW e, Goto(c, "failed", [plan[c] EXCEPT !.view = v, !.err = e])
        PROVE  GoesOn(c)
    <3> DEFINE q == [plan[c] EXCEPT !.view = v, !.err = e]
    <3>1. q.req = plan[c].req /\ Goto(c, "failed", q)
      BY <1>1, <2>2 DEF IsPlan
    <3> HIDE DEF q
    <3> QED
      BY <3>1, GotoGoesOn
  <2>3. ASSUME NEW v, NEW a, NEW b, Goto(c, "root", [plan[c] EXCEPT !.view = v, !.ins = a, !.outs = b])
        PROVE  GoesOn(c)
    <3> DEFINE q == [plan[c] EXCEPT !.view = v, !.ins = a, !.outs = b]
    <3>1. q.req = plan[c].req /\ Goto(c, "root", q)
      BY <1>1, <2>3 DEF IsPlan
    <3> HIDE DEF q
    <3> QED
      BY <3>1, GotoGoesOn
  <2> QED
    BY <2>1, <2>2, <2>3
<1>6. ASSUME RecipientInputOutputUtxos(c) PROVE GoesOn(c)
  <2>1. PICK a, b : Goto(c, "root", [plan[c] EXCEPT !.ins = a, !.outs = b])
    BY <1>6 DEF RecipientInputOutputUtxos
  <2>2. [plan[c] EXCEPT !.ins = a, !.outs = b].req = plan[c].req
    BY <1>1 DEF IsPlan
  <2> QED
    BY <2>1, <2>2, GotoGoesOn
<1>7. ASSUME HandleLocalMerkleTrees(c) \/ \E k : HandleRemoteMerkleTrees(c, k) PROVE GoesOn(c)
  <2>1. PICK k, f : Goto(c, "prove", [plan[c] EXCEPT !.root = k, !.rootFrom = f])
    BY <1>7 DEF HandleLocalMerkleTrees, HandleRemoteMerkleTrees
  <2>2. [plan[c] EXCEPT !.root = k, !.rootFrom = f].req = plan[c].req
    BY <1>1 DEF IsPlan
  <2> QED
    BY <2>1, <2>2, GotoGoesOn
<1> QED
  BY <1>2, <1>3, <1>4, <1>5, <1>6, <1>7

LEMMA SolanaGoesOn ==
  ASSUME IInv, NEW c \in Calls,
         \/ \E r : SolanaBegin(c, r)
         \/ CalculateSolanaNullifierCount(c)
         \/ \E raw, x : SolanaWithdraw(c, raw, x)
         \/ \E raw : SolanaTransfer(c, raw)
         \/ \E raw, slip : SolanaSwap(c, raw, slip)
         \/ SelectSolanaUtxos(c)
  PROVE  GoesOn(c)
<1>1. IsPlan(plan[c])
  BY CallFacts
<1>2. ASSUME NEW r, SolanaBegin(c, r) PROVE GoesOn(c)
  <2> DEFINE q == [NoPlan EXCEPT !.req = r, !.ask = r.chs, !.toks = r.toks, !.chs = r.chs]
             label == IF r.kind = "claim" THEN "fee" ELSE "count"
  <2>1. pc[c] = "idle" /\ (Goto(c, label, q) \/ Fail(c, "invalid"))
    BY <1>2 DEF SolanaBegin
  <2>2. q.req = r
    BY DEF NoPlan
  <2>3. label = "count" => q.req.kind # "claim"
    BY <2>2
  <2> HIDE DEF q, label
  <2> QED
    BY <2>1, <2>3, FailGoesOn, GotoGoesOn
<1>3. ASSUME CalculateSolanaNullifierCount(c) PROVE GoesOn(c)
  <2>1. Goto(c, "fee", plan[c])
    BY <1>3 DEF CalculateSolanaNullifierCount
  <2> QED
    BY <2>1, GotoGoesOn
<1>4. ASSUME NEW i, NEW amount, Goto(c, "select", Charge(plan[c], i, amount)) PROVE GoesOn(c)
  <2> DEFINE q == Charge(plan[c], i, amount)
  <2>1. q.req = plan[c].req
    BY <1>1 DEF IsPlan, Charge
  <2>2. Goto(c, "select", q)
    BY <1>4
  <2> HIDE DEF q
  <2> QED
    BY <2>1, <2>2, GotoGoesOn
<1>5. ASSUME (\E raw, x : SolanaWithdraw(c, raw, x)) \/ (\E raw : SolanaTransfer(c, raw)) PROVE GoesOn(c)
  <2>1. \E amount : Goto(c, "select", Charge(plan[c], 1, amount))
    BY <1>5 DEF SolanaWithdraw, SolanaTransfer
  <2> QED
    BY <1>4, <2>1
<1>6. ASSUME NEW raw, NEW slip, SolanaSwap(c, raw, slip) PROVE GoesOn(c)
  <2>1. Fail(c, "low output") \/ \E amount : Goto(c, "select", Charge(plan[c], 2, amount))
    BY <1>6 DEF SolanaSwap
  <2> QED
    BY <1>4, <2>1, FailGoesOn
<1>7. ASSUME SelectSolanaUtxos(c) PROVE GoesOn(c)
  <2> DEFINE p == [plan[c] EXCEPT !.view = View]
  <2>1. \/ \E e : Goto(c, "failed", [p EXCEPT !.err = e])
        \/ \E a, b : Goto(c, "root", [p EXCEPT !.ins = a, !.outs = b])
    BY <1>7 DEF SelectSolanaUtxos
  <2>2. IsPlan(p) /\ p.req = plan[c].req
    BY <1>1, PlanView
  <2> HIDE DEF p
  <2>3. /\ \A e : [p EXCEPT !.err = e].req = plan[c].req
        /\ \A a, b : [p EXCEPT !.ins = a, !.outs = b].req = plan[c].req
    BY <2>2 DEF IsPlan
  <2> QED
    BY <2>1, <2>3, GotoGoesOn
<1> QED
  BY <1>2, <1>3, <1>5, <1>6, <1>7

-----------------------------------------------------------------------------
LEMMA RestGoesOn ==
  ASSUME IInv, NEW c \in Calls,
         \/ ConstructZkProof(c) \/ ConstructSolanaZkProof(c)
         \/ ReadAllowances(c) \/ ResetAllowance(c) \/ ApproveTokenToHinkal(c)
         \/ Send(c) \/ Answer(c) \/ RequestFails(c) \/ SolanaRequestFails(c) \/ Settle(c)
  PROVE  GoesOn(c)
<1>1. IsPlan(plan[c]) /\ Shape /\ Len(chain) \in Nat
      /\ CallOK(client, chain, pc[c], net[c], plan[c])
  BY CallFacts
<1>2. ASSUME \/ ConstructZkProof(c) \/ ConstructSolanaZkProof(c)
             \/ RequestFails(c) \/ SolanaRequestFails(c)
      PROVE  GoesOn(c)
  <2>1. \/ \E e : Fail(c, e)
        \/ Goto(c, "approve", plan[c]) \/ Goto(c, "send", plan[c])
    BY <1>2 DEF ConstructZkProof, ConstructSolanaZkProof, RequestFails, SolanaRequestFails
  <2> QED
    BY <2>1, FailGoesOn, GotoGoesOn
<1>3. ASSUME ReadAllowances(c) PROVE GoesOn(c)
  <2>1. \/ Goto(c, "send", plan[c])
        \/ \E label \in {"reset", "approving"} : \E m : Goto(c, label, [plan[c] EXCEPT !.approved = m])
    <3> DEFINE short == {i \in plan[c].approved + 1 .. Len(plan[c].toks) :
                           allowance[plan[c].toks[i]] < Required(plan[c], i)}
               t == plan[c].toks[Min(short)]
               l == IF t \in ResetFirst /\ allowance[t] > 0 THEN "reset" ELSE "approving"
               m == Min(short)
    <3>1. \/ Goto(c, "send", plan[c])
          \/ Goto(c, l, [plan[c] EXCEPT !.approved = m])
      BY <1>3 DEF ReadAllowances, Short
    <3>2. l \in {"reset", "approving"}
      OBVIOUS
    <3> HIDE DEF l, m, t, short
    <3> QED
      BY <3>1, <3>2
  <2>2. ASSUME NEW label \in {"reset", "approving"}, NEW m, Goto(c, label, [plan[c] EXCEPT !.approved = m])
        PROVE  GoesOn(c)
    <3> DEFINE q == [plan[c] EXCEPT !.approved = m]
    <3>1. q.req = plan[c].req /\ Goto(c, label, q)
      BY <1>1, <2>2 DEF IsPlan
    <3> HIDE DEF q
    <3> QED
      BY <3>1, GotoGoesOn
  <2>3. ASSUME Goto(c, "send", plan[c]) PROVE GoesOn(c)
    BY <2>3, GotoGoesOn
  <2> QED
    BY <2>1, <2>2, <2>3
<1>4. ASSUME ResetAllowance(c) \/ ApproveTokenToHinkal(c) \/ Send(c) PROVE GoesOn(c)
  <2>1. /\ pc[c] # "idle" /\ plan' = plan /\ client' = client /\ chain' = chain
        /\ \E label \in {"approving", "approve", "sent"} : pc' = [pc EXCEPT ![c] = label]
    BY <1>4 DEF ResetAllowance, ApproveTokenToHinkal, ApproveCall, Send
  <2> QED
    BY <2>1, QuietGoesOn
<1>5. ASSUME Answer(c) PROVE GoesOn(c)
  <2>1. \/ Fail(c, "answer")
        \/ /\ pc[c] # "idle" /\ pc' = [pc EXCEPT ![c] = "done"]
           /\ plan' = plan /\ client' = client /\ chain' = chain
    BY <1>5 DEF Answer
  <2> QED
    BY <2>1, FailGoesOn, QuietGoesOn
<1>6. ASSUME Settle(c) PROVE GoesOn(c)
  <2>1. /\ net[c] = "pending" /\ pc' = pc /\ plan' = plan /\ client' = client
        /\ chain' = chain \/ \E e : chain' = Append(chain, e)
    BY <1>6 DEF Settle
  <2>2. Grown(chain, chain')
    <3>1. GoodChain(chain)
      BY CallFacts
    <3>2. chain = [i \in 1 .. Len(chain) |-> chain[i]]
      BY <3>1 DEF GoodChain
    <3>3. CASE chain' = chain
      BY <1>1, <3>3 DEF Grown
    <3>4. ASSUME NEW e, chain' = Append(chain, e) PROVE Grown(chain, chain')
      <4> DEFINE S == {chain[i] : i \in 1 .. Len(chain)} \cup {e}
      <4>1. chain \in Seq(S) /\ e \in S
        <5>1. \A i \in 1 .. Len(chain) : chain[i] \in S
          OBVIOUS
        <5> HIDE DEF S
        <5>2. chain \in [1 .. Len(chain) -> S]
          BY <3>2, <5>1
        <5> QED
          BY <1>1, <5>2 DEF S
      <4> HIDE DEF S
      <4>2. /\ Len(Append(chain, e)) = Len(chain) + 1
            /\ \A i \in 1 .. Len(chain) : Append(chain, e)[i] = chain[i]
        BY <4>1, AppendProperties
      <4> QED
        BY <1>1, <3>4, <4>2 DEF Grown
    <3> QED
      BY <2>1, <3>3, <3>4
  <2>3. pc[c] \notin {"idle", "count"}
    BY <1>1, <2>1 DEF CallOK
  <2> QED
    BY <2>1, <2>2, <2>3 DEF GoesOn
<1> QED
  BY <1>2, <1>3, <1>4, <1>5, <1>6

\* The count itself.
LEMMA CountP ==
  ASSUME IInv, PInv, client.net = "solana", NEW c \in Calls, CalculateSolanaNullifierCount(c)
  PROVE  PInv'
<1> DEFINE p == plan[c]
           rows == RowsOf(chain, p.toks, View)
<1>1. pc[c] = "count" /\ Goto(c, "fee", p)
  BY DEF CalculateSolanaNullifierCount
<1>2. /\ Shape /\ Len(chain) \in Nat /\ CallOK(client, chain, pc[c], net[c], p) /\ net[c] = "none"
      /\ client \in Clients
  BY <1>1, CallFacts
<1>3. Begun(client, chain, p)
  BY <1>1, <1>2 DEF CallOK
<1>4. p.req.kind # "claim"
  BY <1>1 DEF PInv
<1>5. p.toks = p.req.toks /\ p.chs = p.req.chs
  BY <1>3, <1>4 DEF Begun
<1>6. Rows(p) = rows
  BY ViewRows DEF Rows
<1>7. Spent = SpentOf(chain, Len(chain))
  BY DEF Spent, SpentUpTo, SpentOf
<1>8. Within(View, Len(chain)) /\ DOMAIN priced = Calls
  BY <1>2 DEF Shape, Within, View, PInv
<1> HIDE DEF rows
<1>9. PICK pr : /\ priced' = [priced EXCEPT ![c] = pr]
                /\ ~pr.counted \/ (/\ pr.view = View
                                   /\ \/ OverLimit(rows, p.chs)
                                      \/ pr.n = Cardinality(BuildInNullifiers(AddPaddingToUtxos(rows)) \ Spent))
  <2>1. \/ \E pr : pr.counted = FALSE /\ priced' = [priced EXCEPT ![c] = pr]
        \/ \E pr : /\ pr.view = View /\ priced' = [priced EXCEPT ![c] = pr]
                   /\ OverLimit(rows, p.chs) \/ pr.n = SolanaNullifierCount(p)
    <3> DEFINE pr(n, b) == [n |-> n, view |-> View, counted |-> b]
    <3>1. \/ priced' = [priced EXCEPT ![c] = pr(0, FALSE)]
          \/ OverLimit(rows, p.chs) /\ priced' = [priced EXCEPT ![c] = pr(6, TRUE)]
          \/ priced' = [priced EXCEPT ![c] = pr(SolanaNullifierCount(p), TRUE)]
      <4>1. \/ priced' = [priced EXCEPT ![c] = [n |-> 0, view |-> View, counted |-> FALSE]]
            \/ IF OverLimit(Rows(p), p.chs)
               THEN priced' = [priced EXCEPT ![c] = [n |-> 6, view |-> View, counted |-> TRUE]]
               ELSE priced' = [priced EXCEPT ![c] = [n |-> SolanaNullifierCount(p), view |-> View,
                                                     counted |-> TRUE]]
        BY Zenon DEF CalculateSolanaNullifierCount
      <4> QED
        BY <1>6, <4>1, Zenon
    <3>2. \A n, b : pr(n, b).view = View /\ pr(n, b).n = n /\ pr(n, b).counted = b
      OBVIOUS
    <3> HIDE DEF pr
    <3>3. CASE priced' = [priced EXCEPT ![c] = pr(0, FALSE)]
      <4>1. pr(0, FALSE).counted = FALSE
        BY <3>2
      <4> QED
        BY <3>3, <4>1
    <3>4. CASE OverLimit(rows, p.chs) /\ priced' = [priced EXCEPT ![c] = pr(6, TRUE)]
      <4>1. pr(6, TRUE).view = View
        BY <3>2
      <4> QED
        BY <3>4, <4>1
    <3>5. CASE priced' = [priced EXCEPT ![c] = pr(SolanaNullifierCount(p), TRUE)]
      <4> DEFINE n == SolanaNullifierCount(p)
      <4>1. pr(n, TRUE).view = View /\ pr(n, TRUE).n = n
        BY <3>2
      <4> QED
        BY <3>5, <4>1
    <3> QED
      BY <3>1, <3>3, <3>4, <3>5
  <2> QED
    BY <1>6, <2>1 DEF SolanaNullifierCount
<1>10. priced'[c] = pr /\ DOMAIN priced' = Calls /\ \A d \in Calls : d # c => priced'[d] = priced[d]
  BY <1>8, <1>9
<1>11. Moves(c, "fee", "none", p)
  BY <1>1, <1>2, GotoMoves
<1>12. /\ client' = client /\ chain' = chain /\ pc'[c] = "fee" /\ plan'[c] = p
       /\ \A d \in Calls : d # c => pc'[d] = pc[d] /\ plan'[d] = plan[d]
  BY <1>11 DEF Moves
<1>13. ASSUME pr.counted PROVE Counted(chain, c, p.req, pr)
  <2>1. Within(pr.view, Len(chain)) /\ pr.view = View
    BY <1>8, <1>9, <1>13
  <2>2. Told(chain, Len(chain), p.req, pr)
    <3>1. rows = RowsOf(chain, p.req.toks, pr.view)
      BY <1>5, <2>1 DEF rows
    <3> QED
      BY <1>5, <1>7, <1>9, <1>13, <3>1 DEF Told
  <2>3. \A i \in 2 .. Len(chain) : chain[i].call # c
    <3> SUFFICES ASSUME NEW i \in 2 .. Len(chain), chain[i].call = c PROVE FALSE
      OBVIOUS
    <3>1. net[c] = "executed"
      BY ExecutedFacts
    <3> QED
      BY <1>2, <3>1
  <2>4. Len(chain) \in 0 .. Len(chain)
    BY <1>2
  <2> QED
    BY <2>1, <2>2, <2>3, <2>4 DEF Counted
<1>14. ASSUME NEW d \in Calls, d # c
       PROVE  /\ pc[d] = "count" => plan[d].req.kind # "claim"
              /\ priced[d].counted =>
                   /\ client.net = "solana" /\ pc[d] \notin {"idle", "count"}
                   /\ plan[d].req.kind # "claim"
                   /\ Counted(chain, d, plan[d].req, priced[d])
  BY DEF PInv
<1>15. ASSUME NEW d \in Calls
       PROVE  /\ pc'[d] = "count" => plan'[d].req.kind # "claim"
              /\ priced'[d].counted =>
                   /\ client'.net = "solana" /\ pc'[d] \notin {"idle", "count"}
                   /\ plan'[d].req.kind # "claim"
                   /\ Counted(chain', d, plan'[d].req, priced'[d])
  <2>1. CASE d = c
    BY <1>4, <1>10, <1>12, <1>13, <2>1
  <2>2. CASE d # c
    BY <1>10, <1>12, <1>14, <2>2
  <2> QED
    BY <2>1, <2>2
<1> QED
  BY <1>10, <1>15 DEF PInv

\* The count at the beginning and in every step.
LEMMA PInit == SolInit => PInv
<1> SUFFICES ASSUME SolInit PROVE PInv
  OBVIOUS
<1>1. priced = [c \in Calls |-> NotPriced] /\ pc = [c \in Calls |-> "idle"]
  BY DEF SolInit, Init
<1>2. NotPriced.counted = FALSE
  BY DEF NotPriced
<1> QED
  BY <1>1, <1>2 DEF PInv

LEMMA UnchangedP ==
  ASSUME PInv, client' = client, chain' = chain, pc' = pc, plan' = plan, priced' = priced
  PROVE  PInv'
BY DEF PInv

LEMMA NextP ==
  ASSUME IInv, PInv, AnyNext
  PROVE  PInv'
<1>1. CASE (SeeOutputs \/ SeeNullifiers \/ SeeTree) /\ priced' = priced
  BY <1>1, UnchangedP DEF SeeOutputs, SeeNullifiers, SeeTree
<1>2. ASSUME NEW c \in Calls, priced' = priced,
             \/ \E r, sim : Begin(c, r, sim)
             \/ \E raw, x : ResolveFee(c, raw, x)
             \/ \E raw : ClaimUtxo(c, raw)
             \/ SelectUtxos(c) \/ RecipientInputOutputUtxos(c)
             \/ HandleLocalMerkleTrees(c) \/ \E k : HandleRemoteMerkleTrees(c, k)
      PROVE  PInv'
  BY <1>2, EvmGoesOn, GoesOnP
<1>3. ASSUME NEW c \in Calls, priced' = priced,
             \/ \E r : SolanaBegin(c, r)
             \/ \E raw, x : SolanaWithdraw(c, raw, x)
             \/ \E raw : SolanaTransfer(c, raw)
             \/ \E raw, slip : SolanaSwap(c, raw, slip)
             \/ SelectSolanaUtxos(c)
      PROVE  PInv'
  BY <1>3, SolanaGoesOn, GoesOnP
<1>4. ASSUME NEW c \in Calls, client.net = "solana", CalculateSolanaNullifierCount(c)
      PROVE  PInv'
  BY <1>4, CountP
<1>5. ASSUME NEW c \in Calls, priced' = priced,
             \/ ConstructZkProof(c) \/ ConstructSolanaZkProof(c)
             \/ ReadAllowances(c) \/ ResetAllowance(c) \/ ApproveTokenToHinkal(c)
             \/ Send(c) \/ Answer(c) \/ RequestFails(c) \/ SolanaRequestFails(c) \/ Settle(c)
      PROVE  PInv'
  BY <1>5, RestGoesOn, GoesOnP
<1>6. CASE client.net = "evm" /\ Next /\ UNCHANGED priced
  BY <1>1, <1>2, <1>5, <1>6 DEF Next
<1>7. CASE client.net = "solana" /\ SolNext
  <2>1. CASE (SeeOutputs \/ SeeNullifiers \/ SeeTree) /\ priced' = priced
    BY <1>1, <2>1
  <2>2. ASSUME NEW c \in Calls,
               \/ \E r : SolanaBegin(c, r)
               \/ \E raw, x : SolanaWithdraw(c, raw, x)
               \/ \E raw : SolanaTransfer(c, raw)
               \/ \E raw, slip : SolanaSwap(c, raw, slip)
               \/ SelectSolanaUtxos(c)
        PROVE  PInv'
    <3>1. priced' = priced
      BY <2>2 DEF SolanaBegin, SolanaWithdraw, SolanaTransfer, SolanaSwap, SelectSolanaUtxos
    <3> QED
      BY <1>3, <2>2, <3>1
  <2>3. ASSUME NEW c \in Calls, NEW raw, SolanaClaimUtxo(c, raw) PROVE PInv'
    BY <1>2, <2>3 DEF SolanaClaimUtxo
  <2>4. ASSUME NEW c \in Calls, HandleLocalMerkleTrees(c) /\ priced' = priced PROVE PInv'
    BY <1>2, <2>4
  <2>5. ASSUME NEW c \in Calls, NEW k, HandleRemoteMerkleTrees(c, k) /\ priced' = priced PROVE PInv'
    BY <1>2, <2>5
  <2>6. ASSUME NEW c \in Calls,
               \/ (Send(c) \/ Answer(c) \/ Settle(c)) /\ priced' = priced
               \/ ConstructSolanaZkProof(c) \/ SolanaRequestFails(c)
        PROVE  PInv'
    <3>1. priced' = priced
      BY <2>6 DEF ConstructSolanaZkProof, SolanaRequestFails
    <3> QED
      BY <1>5, <2>6, <3>1
  <2>7. ASSUME NEW c \in Calls, CalculateSolanaNullifierCount(c) PROVE PInv'
    BY <1>4, <1>7, <2>7
  <2> QED
    BY <1>7, <2>1, <2>2, <2>3, <2>4, <2>5, <2>6, <2>7 DEF SolNext
<1> QED
  BY <1>6, <1>7 DEF AnyNext

-----------------------------------------------------------------------------
\* The fee only makes a limit harder to keep.
LEMMA FeeKeepsLimit ==
  ASSUME NEW cl, NEW ch, GoodChain(ch), NEW p, Merged(cl, p), SolanaAmounts(cl, p),
         Within(p.view, Len(ch)), OverLimit(RowsOf(ch, p.toks, p.view), p.ask)
  PROVE  OverLimit(RowsOf(ch, p.toks, p.view), p.chs)
<1> DEFINE rows == RowsOf(ch, p.toks, p.view)
<1>1. DOMAIN rows = DOMAIN p.toks
  BY DEF RowsOf
<1>2. PICK i \in DOMAIN p.toks : /\ Len(rows[i]) > MaxInput /\ p.ask[i] < 0
                                 /\ TotalAmount(SubSeq(rows[i], 1, MaxInput)) < -p.ask[i]
  BY <1>1 DEF OverLimit
<1> DEFINE U == StockOf(ch, p.view, p.toks[i])
           cut == SubSeq(rows[i], 1, MaxInput)
<1>3. Stock(U) /\ rows[i] = SortAndPadUtxos(U) /\ Supply(ch, U, p.toks[i], "user")
  <2>1. Supply(ch, U, p.toks[i], "user")
    BY SupplyOfView
  <2>2. Stock(U)
    BY <2>1 DEF Supply
  <2>3. rows[i] = SortAndPadUtxos(U)
    BY DEF RowsOf
  <2> QED
    BY <2>1, <2>2, <2>3
<1>4. p.chs[i] \in Int /\ p.ask[i] \in Int /\ p.chs[i] <= p.ask[i]
  <2>1. p.chs[i] \in Int
    BY DEF Merged
  <2>2. p.toks = p.req.toks /\ \A k \in DOMAIN p.toks : p.ask[k] < 0 => p.chs[k] <= p.ask[k]
    BY DEF SolanaAmounts
  <2>3. p.ask[i] \in Int
    BY <2>2 DEF Merged
  <2> QED
    BY <1>2, <2>1, <2>2, <2>3
<1> HIDE DEF U, rows
<1>5. Filled(rows[i], U) /\ Len(rows[i]) \in Nat
  BY <1>3, FilledSortAndPad
<1>6. MaxInput \in 1 .. Len(rows[i])
  <2>1. Len(rows[i]) > MaxInput /\ MaxInput \in Nat /\ 1 < MaxInput
    <3>1. MinInput \in Nat /\ MaxInput \in Nat /\ 1 < MinInput /\ MinInput < MaxInput
      BY Limits
    <3> QED
      BY <1>2, <3>1
  <2> QED
    BY <1>5, <2>1
<1>7. Filled(cut, U) /\ Len(cut) = MaxInput
  BY <1>3, <1>5, <1>6, FilledCut
<1> HIDE DEF cut
<1>8. TotalAmount(cut) \in Nat
  BY <1>3, <1>7, FilledInput
<1>9. TotalAmount(cut) < -p.chs[i] /\ p.chs[i] < 0
  BY <1>2, <1>4, <1>8 DEF cut
<1>10. OverLimit(rows, p.chs)
  BY <1>1, <1>2, <1>9 DEF OverLimit, cut
<1> QED
  BY <1>10 DEF rows

\* The selection is the one that was counted, and nothing of it was spent
\* before.
LEMMA PricedIsPaid ==
  ASSUME IInv, PInv
  PROVE  PricedAsExecuted
<1> SUFFICES ASSUME NEW i \in 2 .. Len(chain), NEW c, c = chain[i].call,
                    priced[c].counted, priced[c].view = plan[c].view
             PROVE  Cardinality(chain[i].ins) = priced[c].n
  BY DEF PricedAsExecuted
<1> DEFINE p == plan[c]
           rows == RowsOf(chain, p.toks, p.view)
<1>1. /\ c \in Calls /\ GoodChain(chain) /\ Sound(client, chain, p)
      /\ chain[i].ins = BuildInNullifiers(p.ins)
  BY ExecutedFacts
<1>2. client.net = "solana" /\ p.req.kind # "claim" /\ Counted(chain, c, p.req, priced[c])
  BY <1>1 DEF PInv
<1>3. Merged(client, p)
  BY <1>1, <1>2 DEF Sound
<1>4. SolanaAmounts(client, p)
  BY <1>2, <1>3 DEF Merged
<1>5. p.toks = p.req.toks /\ p.ask = p.req.chs /\ p.req.kind \in {"withdraw", "transfer", "swap"}
  BY <1>4 DEF SolanaAmounts
<1>6. SelectSound(chain, p)
  BY <1>1, <1>5 DEF Sound, ChoosesUtxos
<1>7. Within(p.view, Len(chain)) /\ p.ins = AddPaddingToUtxos(rows) /\ ~OverLimit(rows, p.chs)
  BY <1>6 DEF SelectSound
<1>8. ~OverLimit(rows, p.req.chs)
  BY <1>1, <1>3, <1>4, <1>5, <1>7, FeeKeepsLimit
<1>9. PICK k \in 0 .. Len(chain) : k < i /\ Told(chain, k, p.req, priced[c])
  BY <1>2 DEF Counted
<1>10. priced[c].n = Cardinality(BuildInNullifiers(AddPaddingToUtxos(rows)) \ SpentOf(chain, k))
  <2>1. rows = RowsOf(chain, p.req.toks, priced[c].view)
    BY <1>5
  <2> HIDE DEF rows
  <2> QED
    BY <1>8, <1>9, <2>1 DEF Told
<1>11. priced[c].n = Cardinality(chain[i].ins \ SpentOf(chain, k))
  BY <1>1, <1>7, <1>10
<1>12. chain[i].ins \cap SpentOf(chain, i - 1) = {}
  BY <1>1 DEF GoodChain
<1>13. SpentOf(chain, k) \in SUBSET SpentOf(chain, i - 1)
  <2>1. k \in Int /\ i - 1 \in Int /\ k <= i - 1
    BY <1>9
  <2> QED
    BY <2>1, UtxosMono
<1>14. chain[i].ins \ SpentOf(chain, k) = chain[i].ins
  BY <1>12, <1>13
<1> QED
  BY <1>11, <1>14

(***************************************************************************)
(* CalculateSolanaNullifierCount tells the gas estimate the number of      *)
(* nullifiers that the transaction creates, if the view has not changed.   *)
(***************************************************************************)
THEOREM PricedAsPaid == AnySpec => []PricedAsExecuted
<1>1. SolInit => PInv
  BY PInit
<1>2. IInv /\ PInv /\ [AnyNext]_solVars => PInv'
  BY NextP, UnchangedP DEF solVars, vars
<1>3. IInv /\ PInv => PricedAsExecuted
  BY PricedIsPaid
<1> QED
  BY Invariance, <1>1, <1>2, <1>3, PTL DEF AnySpec
=============================================================================
