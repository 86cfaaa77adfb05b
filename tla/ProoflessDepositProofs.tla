----------------------- MODULE ProoflessDepositProofs -----------------------
(***************************************************************************)
(* DepositedOnce, NoStandingAllowance and RevertedOnlyIfShared of          *)
(* ProoflessDeposit, for any calls, tokens, requests, energy and number of *)
(* sends, and any funds below the word.                                    *)
(*                                                                         *)
(* DepositedOnce: a call sends one transaction (SentOnce), of a request    *)
(* that was accepted (Planned), and UTXOs and fees are those of the mined  *)
(* transactions (Made).  NoStandingAllowance: the allowance of a call that *)
(* is alone is at most what it found, or what its deposit uses up          *)
(* (Approved); its simulation waits for the approvals that are on their    *)
(* way (Awaited), and a deposit charges what was approved (Charged).       *)
(*                                                                         *)
(* RevertedOnlyIfShared: the wallet has at least its funds less what       *)
(* deposits charged and what Tron transactions needed (Paid), a call past  *)
(* an approval has an allowance that is enough unless another call         *)
(* competes for it (Enough), and what was simulated or checked could be    *)
(* paid from the funds; a Tron call that is alone still has what the check *)
(* set aside, in energy or in sun (Affordable).  A step of one call takes  *)
(* nothing of this from another (OtherKeeps): it changes only allowances   *)
(* that it competes for, and takes only what it accounts for.  So a        *)
(* deposit without an excuse is accepted (Left, Acceptable).               *)
(***************************************************************************)
EXTENDS ProoflessDeposit, FiniteSetTheorems, NaturalsInduction, WellFoundedInduction, TLAPS

Labels == {"idle", "relay", "approve", "reset", "approving", "simulate", "balance",
           "send", "done", "failed", "returned"}

\* A call at one of these has sent nothing yet.
BeforeSend == {"idle", "relay", "approve", "reset", "approving", "simulate", "balance", "send"}

Request == [entry : {"plain", "fee", "own", "other"},
            toks : Seq(Tokens), amts : Seq(Nat), keys : Seq(Int),
            feeTok : Tokens, fee : Nat, dataOnly : BOOLEAN]

Errors == {"none", "invalid", "relay", "simulation", "balance", "send", "answer",
           "blockhash", "preflight", "request"}

Plan == [req : Request, spender : Spenders, fee : Nat, need : [Tokens -> Nat], tok : Tokens,
         handled : SUBSET Tokens, before : [Tokens -> Nat], covered : Nat,
         sends : 0 .. MaxSends, err : Errors]

Status == {"none", "pending", "mined", "reverted"}

TypeOK ==
  /\ wallet \in [Tokens -> Nat]
  /\ allowance \in [Spenders -> [Tokens -> Nat]]
  /\ pc \in [Calls -> Labels]
  /\ plan \in [Calls -> Plan]
  /\ pending \subseteq [call : Calls, spender : Spenders, tok : Tokens, amt : Nat]
  /\ tx \in [Calls -> [1 .. MaxSends -> Status]]
  /\ energy \in Nat /\ approvalCost \in [Calls -> Nat] /\ depositCost \in [Calls -> Nat]

\* The i-th UTXO that the k-th transaction of c makes, and its fee.
Utxo(c, k, i) ==
  [call |-> c, send |-> k, slot |-> i, key |-> plan[c].req.keys[i],
   tok |-> plan[c].req.toks[i], amt |-> EncodedAmounts(plan[c].req)[i]]

Fee(c, k) == [call |-> c, send |-> k, amt |-> plan[c].fee]

\* Where a call is and what it has sent: nothing before it is through with
\* its sends, and one transaction afterwards.
SentOnce ==
  \A c \in Calls :
    /\ pc[c] \in BeforeSend => \A k \in 1 .. MaxSends : tx[c][k] = "none"
    /\ pc[c] \in BeforeSend => plan[c].sends < MaxSends
    /\ \A k, l \in 1 .. MaxSends : tx[c][k] # "none" /\ tx[c][l] # "none" => k = l

\* What was accepted is one amount and one key for every token, and is
\* approved and charged with the same fee.
Planned ==
  \A c \in Calls :
    \/ pc[c] = "idle"
    \/ pc[c] \in {"failed", "returned"} /\ \A k \in 1 .. MaxSends : tx[c][k] = "none"
    \/ LET r == plan[c].req
       IN  /\ Len(r.toks) = Len(r.amts) /\ Len(r.keys) = Len(r.amts)
           /\ plan[c].fee = r.fee
           /\ plan[c].need = BuildWrapperApprovalInputs(r)

\* UTXOs and fees are those of the mined transactions.
Made ==
  /\ \A u \in utxos : \E c \in Calls, k \in 1 .. MaxSends :
       tx[c][k] = "mined" /\ \E i \in DOMAIN plan[c].req.toks : u = Utxo(c, k, i)
  /\ \A f \in fees : \E c \in Calls, k \in 1 .. MaxSends :
       tx[c][k] = "mined" /\ plan[c].fee # 0 /\ f = Fee(c, k)
  /\ \A c \in Calls, k \in 1 .. MaxSends : tx[c][k] = "mined" =>
       /\ \A i \in DOMAIN plan[c].req.toks : Utxo(c, k, i) \in utxos
       /\ plan[c].fee # 0 => Fee(c, k) \in fees

\* Approvals that are on their way are those of a call that has begun.  The
\* simulation of a call that is alone does not pass before they are mined.
Awaited ==
  /\ chain.net # "tron" => pending = {}
  /\ chain.net = "solana" => \A c \in Calls : pc[c] \notin {"approve", "reset", "approving"}
  /\ \A a \in pending : pc[a.call] # "idle"
  /\ \A c \in Calls : Alone(c) => \A a \in pending :
       /\ a.call = c /\ a.spender = plan[c].spender /\ a.tok \in plan[c].handled \ {Native}
       /\ a.amt = plan[c].need[a.tok] /\ allowance[a.spender][a.tok] < a.amt
       /\ pc[c] \in {"approve", "simulate", "failed"}
       /\ \A k \in 1 .. MaxSends : tx[c][k] = "none"

\* The allowance of a call that is alone: what it found or less, or what its
\* deposit is about to use up.
Approved ==
  \A c \in Calls : Alone(c) /\ pc[c] # "idle" =>
    \A t \in Pulled :
      \/ allowance[plan[c].spender][t] <= plan[c].before[t]
      \/ /\ allowance[plan[c].spender][t] = plan[c].need[t]
         /\ chain.net # "solana"
         /\ \A k \in 1 .. MaxSends : tx[c][k] # "mined"

IInv == TypeOK /\ SentOnce /\ Planned /\ Made /\ Awaited /\ Approved

-----------------------------------------------------------------------------
(***************************************************************************)
(* Sums.                                                                   *)
(***************************************************************************)
\* A nonempty set of natural numbers has a least element.
LEMMA LeastNumber ==
  ASSUME NEW T \in SUBSET Nat, T # {}
  PROVE  \E n \in T : \A m \in T : n <= m
<1>1. PICK n \in T : \A m \in T : <<m, n>> \notin OpToRel(<, Nat)
  BY NatLessThanWellFounded, WFMin
<1>2. \A m \in T : ~(m < n)
  BY <1>1 DEF OpToRel
<1> QED
  BY <1>2

\* Induction over the subsets of a finite set: G is the set of those for which
\* something holds.
LEMMA SubsetInduction ==
  ASSUME NEW S, IsFiniteSet(S), NEW G, {} \in G,
         \A T \in SUBSET S : T # {} /\ (\A x \in T : T \ {x} \in G) => T \in G
  PROVE  \A T \in SUBSET S : T \in G
<1> DEFINE Bad == {T \in SUBSET S : T \notin G}
           Sizes == {Cardinality(T) : T \in Bad}
<1>1. SUFFICES ASSUME Bad # {} PROVE FALSE
  OBVIOUS
<1>2. \A T \in SUBSET S : IsFiniteSet(T) /\ Cardinality(T) \in Nat
  BY FS_Subset, FS_CardinalityType
<1>3. Sizes \in SUBSET Nat /\ Sizes # {}
  BY <1>1, <1>2
<1>4. PICK n \in Sizes : \A m \in Sizes : n <= m
  BY <1>3, LeastNumber
<1>5. PICK T \in Bad : n = Cardinality(T)
  BY <1>4
<1>6. T # {} /\ T \in SUBSET S
  BY <1>5
<1>7. ASSUME NEW x \in T PROVE T \ {x} \in G
  <2>1. Cardinality(T \ {x}) = n - 1 /\ n \in Nat
    BY <1>2, <1>5, <1>6, FS_RemoveElement
  <2>2. T \ {x} \notin Bad
    BY <1>4, <2>1
  <2> QED
    BY <1>6, <2>2
<1>8. T \in G
  BY <1>6, <1>7
<1> QED
  BY <1>5, <1>8

\* The index that SumFunctionOnSet takes next.
Chosen(s) == CHOOSE x \in s : TRUE

Summed(f, g, s) == IF s = {} THEN 0 ELSE f[Chosen(s)] + g[s \ {Chosen(s)}]

Small(S, n) == {s \in SUBSET S : Cardinality(s) <= n}

\* g sums f over the subsets of S with at most n elements.
Sums(f, g, S, n) ==
  DOMAIN g = Small(S, n) /\ \A s \in Small(S, n) : g[s] = Summed(f, g, s)

LEMMA Smaller ==
  ASSUME NEW S, IsFiniteSet(S), NEW n \in Nat, NEW s \in Small(S, n + 1), s # {}
  PROVE  Chosen(s) \in s /\ s \ {Chosen(s)} \in Small(S, n)
<1>1. Chosen(s) \in s
  BY DEF Chosen
<1>2. IsFiniteSet(s)
  BY FS_Subset DEF Small
<1>3. Cardinality(s \ {Chosen(s)}) = Cardinality(s) - 1 /\ Cardinality(s) \in Nat
  BY <1>1, <1>2, FS_RemoveElement, FS_CardinalityType
<1> QED
  BY <1>1, <1>3 DEF Small

\* There is such a g for the empty set, and for sets of one more element.
LEMMA SumsStart ==
  ASSUME NEW S, IsFiniteSet(S), NEW f
  PROVE  \E g : Sums(f, g, S, 0)
<1> DEFINE g == [s \in Small(S, 0) |-> 0]
<1>1. ASSUME NEW s \in Small(S, 0) PROVE s = {}
  <2>1. IsFiniteSet(s) /\ Cardinality(s) <= 0
    BY FS_Subset DEF Small
  <2>2. Cardinality(s) \in Nat /\ (Cardinality(s) = 0 <=> s = {})
    BY <2>1, FS_CardinalityType, FS_EmptySet
  <2> QED
    BY <2>1, <2>2
<1>2. Sums(f, g, S, 0)
  BY <1>1 DEF Sums, Summed
<1> QED
  BY <1>2

LEMMA SumsStep ==
  ASSUME NEW S, IsFiniteSet(S), NEW f, NEW n \in Nat, NEW g, Sums(f, g, S, n)
  PROVE  \E h : Sums(f, h, S, n + 1)
<1> DEFINE h == [s \in Small(S, n + 1) |-> Summed(f, g, s)]
<1>2. ASSUME NEW s \in Small(S, n) PROVE s \in Small(S, n + 1) /\ h[s] = g[s]
  <2>1. Cardinality(s) \in Nat
    BY FS_Subset, FS_CardinalityType DEF Small
  <2>2. s \in Small(S, n + 1)
    BY <2>1 DEF Small
  <2> QED
    BY <2>2 DEF Sums
<1>3. ASSUME NEW s \in Small(S, n + 1) PROVE Summed(f, h, s) = Summed(f, g, s)
  <2>1. CASE s = {}
    BY <2>1 DEF Summed
  <2>2. CASE s # {}
    <3>1. h[s \ {Chosen(s)}] = g[s \ {Chosen(s)}]
      BY <2>2, Smaller, <1>2
    <3> HIDE DEF h
    <3> QED
      BY <2>2, <3>1 DEF Summed
  <2> QED
    BY <2>1, <2>2
<1>4. Sums(f, h, S, n + 1)
  <2>1. DOMAIN h = Small(S, n + 1)
    OBVIOUS
  <2>2. \A s \in Small(S, n + 1) : h[s] = Summed(f, g, s)
    OBVIOUS
  <2> HIDE DEF h
  <2> QED
    BY <1>3, <2>1, <2>2 DEF Sums
<1> QED
  BY <1>4

LEMMA SumsExist ==
  ASSUME NEW S, IsFiniteSet(S), NEW f, NEW n \in Nat
  PROVE  \E g : Sums(f, g, S, n)
<1> DEFINE Bad == {m \in Nat : ~ \E g : Sums(f, g, S, m)}
<1>1. SUFFICES ASSUME Bad # {} PROVE FALSE
  OBVIOUS
<1>2. PICK m \in Bad : \A l \in Bad : m <= l
  BY <1>1, LeastNumber
<1>3. m # 0
  BY <1>2, SumsStart
<1>4. m - 1 \in Nat /\ m - 1 \notin Bad /\ (m - 1) + 1 = m
  BY <1>2, <1>3
<1>5. PICK g : Sums(f, g, S, m - 1)
  BY <1>4
<1>6. \E h : Sums(f, h, S, (m - 1) + 1)
  BY <1>4, <1>5, SumsStep
<1> QED
  BY <1>2, <1>4, <1>6

\* The function behind SumFunctionOnSet(f, S): it has the values its
\* definition says.
Iter(f, S) == CHOOSE g : g = [s \in SUBSET S |-> Summed(f, g, s)]

LEMMA SumIter ==
  ASSUME NEW S, IsFiniteSet(S), NEW f
  PROVE  /\ SumFunctionOnSet(f, S) = Iter(f, S)[S]
         /\ \A s \in SUBSET S : Iter(f, S)[s] = Summed(f, Iter(f, S), s)
<1> DEFINE Fixed(g) == g = [s \in SUBSET S |-> Summed(f, g, s)]
<1>1. SumFunctionOnSet(f, S) = Iter(f, S)[S]
  BY DEF SumFunctionOnSet, FoldFunctionOnSet, MapThenFoldSet, Summed, Chosen, Iter
<1>2. PICK g : Sums(f, g, S, Cardinality(S))
  BY SumsExist, FS_CardinalityType
<1>3. Small(S, Cardinality(S)) = SUBSET S
  BY FS_Subset DEF Small
<1>4. DOMAIN g = SUBSET S /\ \A s \in SUBSET S : g[s] = Summed(f, g, s)
  BY <1>2, <1>3 DEF Sums
<1>d. DEFINE h == [s \in SUBSET S |-> g[s]]
<1>5. Fixed(h)
  <2>1. ASSUME NEW s \in SUBSET S PROVE Summed(f, h, s) = Summed(f, g, s)
    <3>1. s # {} => h[s \ {Chosen(s)}] = g[s \ {Chosen(s)}]
      OBVIOUS
    <3> HIDE DEF h
    <3> QED
      BY <3>1 DEF Summed
  <2>2. \A s \in SUBSET S : g[s] = Summed(f, h, s)
    BY <1>4, <2>1
  <2> QED
    BY <2>2
<1>6. Fixed(Iter(f, S))
  <2> HIDE DEF h
  <2> QED
    BY <1>5 DEF Iter
<1>7. \A s \in SUBSET S : Iter(f, S)[s] = Summed(f, Iter(f, S), s)
  BY <1>6
<1> QED
  BY <1>1, <1>7

\* The sums of a set and of a subset of it agree on what is below both.
LEMMA IterAgree ==
  ASSUME NEW S, IsFiniteSet(S), NEW T \in SUBSET S, NEW f, NEW e, \A x \in T : f[x] = e[x]
  PROVE  Iter(f, S)[T] = Iter(e, T)[T]
<1> DEFINE G == {s \in SUBSET T : Iter(f, S)[s] = Iter(e, T)[s]}
<1>1. IsFiniteSet(T)
  BY FS_Subset
<1>2. \A s \in SUBSET T : /\ Iter(f, S)[s] = Summed(f, Iter(f, S), s)
                          /\ Iter(e, T)[s] = Summed(e, Iter(e, T), s)
  BY <1>1, SumIter
<1>3. {} \in G
  BY <1>2 DEF Summed
<1>4. ASSUME NEW s \in SUBSET T, s # {}, \A x \in s : s \ {x} \in G PROVE s \in G
  <2>1. Chosen(s) \in s
    BY <1>4 DEF Chosen
  <2>2. Iter(f, S)[s \ {Chosen(s)}] = Iter(e, T)[s \ {Chosen(s)}]
    BY <1>4, <2>1
  <2>3. f[Chosen(s)] = e[Chosen(s)]
    BY <2>1
  <2> QED
    BY <1>2, <1>4, <2>2, <2>3 DEF Summed
<1>5. \A s \in SUBSET T : s \in G
  <2> HIDE DEF G
  <2> QED
    BY <1>1, <1>3, <1>4, SubsetInduction
<1> QED
  BY <1>5

LEMMA SumEmpty ==
  ASSUME NEW f
  PROVE  SumFunctionOnSet(f, {}) = 0
<1>1. IsFiniteSet({})
  BY FS_EmptySet
<1> QED
  BY <1>1, SumIter DEF Summed

\* The sum depends on the values at S only.
LEMMA SumEq ==
  ASSUME NEW S, IsFiniteSet(S), NEW f, NEW e, \A x \in S : f[x] = e[x]
  PROVE  SumFunctionOnSet(f, S) = SumFunctionOnSet(e, S)
BY IterAgree, SumIter

LEMMA SumChosen ==
  ASSUME NEW S, IsFiniteSet(S), S # {}, NEW f
  PROVE  SumFunctionOnSet(f, S) = f[Chosen(S)] + SumFunctionOnSet(f, S \ {Chosen(S)})
<1> DEFINE T == S \ {Chosen(S)}
<1>1. T \in SUBSET S /\ IsFiniteSet(T)
  BY FS_Subset
<1>2. Iter(f, S)[T] = Iter(f, T)[T]
  BY <1>1, IterAgree
<1>3. SumFunctionOnSet(f, T) = Iter(f, T)[T]
  BY <1>1, SumIter
<1>4. Iter(f, S)[S] = f[Chosen(S)] + Iter(f, S)[T]
  BY SumIter DEF Summed
<1> QED
  BY <1>2, <1>3, <1>4, SumIter

LEMMA SumInt ==
  ASSUME NEW S, IsFiniteSet(S), NEW f, \A x \in S : f[x] \in Int
  PROVE  SumFunctionOnSet(f, S) \in Int
<1> DEFINE G == {s \in SUBSET S : SumFunctionOnSet(f, s) \in Int}
<1>1. {} \in G
  BY SumEmpty
<1>2. ASSUME NEW s \in SUBSET S, s # {}, \A x \in s : s \ {x} \in G PROVE s \in G
  <2>1. Chosen(s) \in s /\ IsFiniteSet(s)
    BY <1>2, FS_Subset DEF Chosen
  <2>2. SumFunctionOnSet(f, s) = f[Chosen(s)] + SumFunctionOnSet(f, s \ {Chosen(s)})
    BY <1>2, <2>1, SumChosen
  <2> QED
    BY <1>2, <2>1, <2>2
<1>3. \A s \in SUBSET S : s \in G
  <2> HIDE DEF G
  <2> QED
    BY <1>1, <1>2, SubsetInduction
<1> QED
  BY <1>3

\* Any element can be taken out first.
LEMMA SumRemove ==
  ASSUME NEW S, IsFiniteSet(S), NEW f, \A x \in S : f[x] \in Int, NEW x \in S
  PROVE  SumFunctionOnSet(f, S) = f[x] + SumFunctionOnSet(f, S \ {x})
<1> DEFINE G == {s \in SUBSET S : \A y \in s :
                   SumFunctionOnSet(f, s) = f[y] + SumFunctionOnSet(f, s \ {y})}
<1>1. {} \in G
  OBVIOUS
<1>2. ASSUME NEW s \in SUBSET S, s # {}, \A z \in s : s \ {z} \in G PROVE s \in G
  <2>1. Chosen(s) \in s /\ IsFiniteSet(s)
    BY <1>2, FS_Subset DEF Chosen
  <2>2. SumFunctionOnSet(f, s) = f[Chosen(s)] + SumFunctionOnSet(f, s \ {Chosen(s)})
    BY <1>2, <2>1, SumChosen
  <2>3. ASSUME NEW y \in s PROVE SumFunctionOnSet(f, s) = f[y] + SumFunctionOnSet(f, s \ {y})
    <3> DEFINE z == Chosen(s)
               rest == s \ {y, z}
    <3>1. CASE y = z
      BY <2>2, <3>1
    <3>2. CASE y # z
      <4>1. (s \ {z}) \ {y} = rest /\ (s \ {y}) \ {z} = rest
        OBVIOUS
      <4>2. SumFunctionOnSet(f, s \ {z}) = f[y] + SumFunctionOnSet(f, rest)
        BY <1>2, <2>1, <3>2, <4>1
      <4>3. SumFunctionOnSet(f, s \ {y}) = f[z] + SumFunctionOnSet(f, rest)
        BY <1>2, <2>1, <3>2, <4>1
      <4>4. IsFiniteSet(rest) /\ rest \subseteq S
        BY <2>1, FS_Subset
      <4>5. SumFunctionOnSet(f, rest) \in Int
        BY <4>4, SumInt
      <4>6. f[y] \in Int /\ f[z] \in Int
        BY <2>1
      <4> HIDE DEF z, rest
      <4> QED
        BY <2>2, <4>2, <4>3, <4>5, <4>6 DEF z
    <3> QED
      BY <3>1, <3>2
  <2> QED
    BY <2>3
<1>3. \A s \in SUBSET S : s \in G
  <2> HIDE DEF G
  <2> QED
    BY <1>1, <1>2, SubsetInduction
<1> QED
  BY <1>3

\* Sums over disjoint sets add up.
LEMMA SumUnion ==
  ASSUME NEW S, IsFiniteSet(S), NEW T, IsFiniteSet(T), S \cap T = {},
         NEW f, \A x \in S \cup T : f[x] \in Int
  PROVE  SumFunctionOnSet(f, S \cup T) = SumFunctionOnSet(f, S) + SumFunctionOnSet(f, T)
<1> DEFINE Good(s) == SumFunctionOnSet(f, s \cup T) = SumFunctionOnSet(f, s) + SumFunctionOnSet(f, T)
           G == {s \in SUBSET S : Good(s)}
<1>0. SumFunctionOnSet(f, T) \in Int
  BY SumInt
<1>1. {} \in G
  <2>1. {} \cup T = T
    OBVIOUS
  <2> QED
    BY <1>0, <2>1, SumEmpty
<1>2. ASSUME NEW s \in SUBSET S, s # {}, \A z \in s : s \ {z} \in G PROVE s \in G
  <2>1. PICK z \in s : TRUE
    BY <1>2
  <2>2. IsFiniteSet(s) /\ IsFiniteSet(s \cup T) /\ IsFiniteSet(s \ {z})
    BY FS_Subset, FS_Union
  <2>3. (s \cup T) \ {z} = (s \ {z}) \cup T
    BY <2>1
  <2>4. SumFunctionOnSet(f, s \cup T) = f[z] + SumFunctionOnSet(f, (s \ {z}) \cup T)
    BY <2>1, <2>2, <2>3, SumRemove
  <2>5. SumFunctionOnSet(f, s) = f[z] + SumFunctionOnSet(f, s \ {z})
    BY <2>1, <2>2, SumRemove
  <2>6. SumFunctionOnSet(f, (s \ {z}) \cup T)
          = SumFunctionOnSet(f, s \ {z}) + SumFunctionOnSet(f, T)
    BY <1>2, <2>1
  <2>7. SumFunctionOnSet(f, s \ {z}) \in Int /\ f[z] \in Int
    BY <2>1, <2>2, SumInt
  <2> QED
    BY <1>0, <2>4, <2>5, <2>6, <2>7
<1>3. \A s \in SUBSET S : s \in G
  <2> HIDE DEF G
  <2> QED
    BY <1>1, <1>2, SubsetInduction
<1> QED
  BY <1>3

\* A sum of natural numbers.
LEMMA SumNat ==
  ASSUME NEW S, IsFiniteSet(S), NEW f, \A x \in S : f[x] \in Nat
  PROVE  SumFunctionOnSet(f, S) \in Nat
<1> DEFINE G == {s \in SUBSET S : SumFunctionOnSet(f, s) \in Nat}
<1>1. {} \in G
  BY SumEmpty
<1>2. ASSUME NEW s \in SUBSET S, s # {}, \A x \in s : s \ {x} \in G PROVE s \in G
  <2>1. Chosen(s) \in s /\ IsFiniteSet(s)
    BY <1>2, FS_Subset DEF Chosen
  <2>2. SumFunctionOnSet(f, s) = f[Chosen(s)] + SumFunctionOnSet(f, s \ {Chosen(s)})
    BY <1>2, <2>1, SumChosen
  <2> QED
    BY <1>2, <2>1, <2>2
<1>3. \A s \in SUBSET S : s \in G
  <2> HIDE DEF G
  <2> QED
    BY <1>1, <1>2, SubsetInduction
<1> QED
  BY <1>3

-----------------------------------------------------------------------------
(***************************************************************************)
(* Requests and what they charge.                                          *)
(***************************************************************************)
WellFormed(r) == Len(r.toks) = Len(r.amts) /\ Len(r.keys) = Len(r.amts)

LEMMA RequestTypes ==
  ASSUME NEW r \in Request
  PROVE  /\ r.toks \in Seq(Tokens) /\ r.amts \in Seq(Nat) /\ r.keys \in Seq(Int)
         /\ r.feeTok \in Tokens /\ r.fee \in Nat /\ r.dataOnly \in BOOLEAN
BY DEF Request

\* The indices of a token, of amounts that are well formed.
LEMMA Indices ==
  ASSUME NEW toks \in Seq(Tokens), NEW amts \in Seq(Nat), Len(toks) = Len(amts), NEW t
  PROVE  SumFunctionOnSet(amts, {i \in DOMAIN toks : toks[i] = t}) \in Nat
<1> DEFINE S == {i \in DOMAIN toks : toks[i] = t}
<1>1. S \subseteq 1 .. Len(amts) /\ Len(amts) \in Nat
  OBVIOUS
<1>2. IsFiniteSet(1 .. Len(amts))
  BY <1>1, FS_Interval
<1>3. IsFiniteSet(S)
  BY <1>1, <1>2, FS_Subset
<1>4. \A i \in S : amts[i] \in Nat
  BY <1>1
<1> HIDE DEF S
<1>5. SumFunctionOnSet(amts, S) \in Nat
  BY <1>3, <1>4, SumNat
<1> QED
  BY <1>5 DEF S

\* What is approved for a request is natural.
LEMMA NeedNat ==
  ASSUME NEW r \in Request, WellFormed(r)
  PROVE  BuildWrapperApprovalInputs(r) \in [Tokens -> Nat]
<1>1. ASSUME NEW t \in Tokens PROVE AggregateAmountsForApproval(r, t) \in Nat
  BY RequestTypes, Indices DEF WellFormed, AggregateAmountsForApproval
<1>2. r.fee \in Nat
  BY RequestTypes
<1> QED
  BY <1>1, <1>2 DEF BuildWrapperApprovalInputs

LEMMA Modulo ==
  ASSUME NEW x \in Nat, NEW w \in Nat \ {0}
  PROVE  /\ x % w \in Nat /\ x % w <= x
         /\ x < w => x % w = x
OBVIOUS

LEMMA Encoded ==
  ASSUME NEW r \in Request
  PROVE  /\ EncodedAmounts(r) \in Seq(Nat) /\ Len(EncodedAmounts(r)) = Len(r.amts)
         /\ \A i \in DOMAIN r.amts :
              /\ EncodedAmounts(r)[i] <= r.amts[i]
              /\ r.amts[i] < Word => EncodedAmounts(r)[i] = r.amts[i]
<1>1. r.amts \in Seq(Nat)
  BY RequestTypes
<1>2. CASE chain.net # "solana"
  BY <1>1, <1>2 DEF EncodedAmounts
<1>3. CASE chain.net = "solana"
  <2>1. EncodedAmounts(r) = [i \in 1 .. Len(r.amts) |-> r.amts[i] % Word]
    BY <1>1, <1>3 DEF EncodedAmounts
  <2>2. \A i \in 1 .. Len(r.amts) :
          /\ r.amts[i] % Word \in Nat /\ r.amts[i] % Word <= r.amts[i]
          /\ r.amts[i] < Word => r.amts[i] % Word = r.amts[i]
    <3>1. Word \in Nat \ {0}
      BY ProoflessAssumption
    <3>2. \A i \in 1 .. Len(r.amts) : r.amts[i] \in Nat
      BY <1>1
    <3> QED
      BY <3>1, <3>2, Modulo
  <2> QED
    BY <1>1, <2>1, <2>2
<1> QED
  BY <1>2, <1>3

\* What the contract charges: natural, and what was approved unless the chain
\* is Solana.
LEMMA Charged ==
  ASSUME NEW p \in Plan, WellFormed(p.req), NEW t \in Tokens
  PROVE  /\ Charge(p, t) \in Nat
         /\ chain.net # "solana" /\ p.fee = p.req.fee =>
              Charge(p, t) = BuildWrapperApprovalInputs(p.req)[t]
<1>1. p.req \in Request /\ p.fee \in Nat
  BY DEF Plan
<1>2. p.req.toks \in Seq(Tokens) /\ Len(p.req.toks) = Len(p.req.amts)
  BY <1>1, RequestTypes DEF WellFormed
<1>3. SumFunctionOnSet(EncodedAmounts(p.req), {i \in DOMAIN p.req.toks : p.req.toks[i] = t}) \in Nat
  BY <1>1, <1>2, Encoded, Indices
<1>4. Charge(p, t) \in Nat
  BY <1>1, <1>3 DEF Charge
<1>5. ASSUME chain.net # "solana", p.fee = p.req.fee
      PROVE  Charge(p, t) = BuildWrapperApprovalInputs(p.req)[t]
  BY <1>5 DEF Charge, BuildWrapperApprovalInputs, AggregateAmountsForApproval, EncodedAmounts
<1> QED
  BY <1>4, <1>5

-----------------------------------------------------------------------------
(***************************************************************************)
(* Types.                                                                  *)
(***************************************************************************)
LEMMA PlanTypes ==
  ASSUME NEW p \in Plan
  PROVE  /\ p.req \in Request /\ p.spender \in Spenders /\ p.fee \in Nat
         /\ p.need \in [Tokens -> Nat] /\ p.tok \in Tokens /\ p.handled \subseteq Tokens
         /\ p.before \in [Tokens -> Nat] /\ p.covered \in Nat /\ p.sends \in 0 .. MaxSends
BY DEF Plan

LEMMA Types ==
  ASSUME TypeOK, NEW c \in Calls
  PROVE  /\ plan[c] \in Plan /\ pc[c] \in Labels
         /\ plan[c].req \in Request /\ plan[c].spender \in Spenders /\ plan[c].fee \in Nat
         /\ plan[c].need \in [Tokens -> Nat] /\ plan[c].tok \in Tokens
         /\ plan[c].before \in [Tokens -> Nat] /\ plan[c].covered \in Nat
         /\ plan[c].handled \subseteq Tokens /\ plan[c].sends \in 0 .. MaxSends
<1>1. plan[c] \in Plan /\ pc[c] \in Labels
  BY DEF TypeOK
<1> QED
  BY <1>1, PlanTypes

LEMMA NoPlanType == NoPlan \in Plan
<1>1. Native \in Tokens /\ MaxSends \in Nat
  BY ProoflessAssumption
<1>2. NoRequest \in Request
  BY <1>1 DEF NoRequest, Request
<1> DEFINE zero == [t \in Tokens |-> 0]
<1>3. zero \in [Tokens -> Nat]
  OBVIOUS
<1>4. 0 \in 0 .. MaxSends /\ {} \in SUBSET Tokens /\ "hinkal" \in Spenders
  BY <1>1 DEF Spenders
<1>5. NoPlan = [req |-> NoRequest, spender |-> "hinkal", fee |-> 0, need |-> zero, tok |-> Native,
                handled |-> {}, before |-> zero, covered |-> 0, sends |-> 0,
                err |-> "none"]
  BY DEF NoPlan
<1> HIDE DEF zero
<1> QED
  BY <1>1, <1>2, <1>3, <1>4, <1>5 DEF Plan, Errors

LEMMA InitInv == Init => IInv
<1> SUFFICES ASSUME Init PROVE IInv
  OBVIOUS
<1>1. TypeOK
  <2>1. wallet \in [Tokens -> Nat]
    BY ProoflessAssumption DEF Init
  <2>2. allowance \in [Spenders -> [Tokens -> Nat]]
    BY ProoflessAssumption DEF Init
  <2>3. pc \in [Calls -> Labels]
    BY DEF Init, Labels
  <2>4. plan \in [Calls -> Plan]
    BY NoPlanType DEF Init
  <2>5. tx \in [Calls -> [1 .. MaxSends -> Status]]
    BY DEF Init, Status
  <2> QED
    BY <2>1, <2>2, <2>3, <2>4, <2>5, ProoflessAssumption DEF Init, TypeOK
<1>2. \A c \in Calls : pc[c] = "idle" /\ plan[c].sends = 0
  BY DEF Init, NoPlan
<1>3. \A c \in Calls, k \in 1 .. MaxSends : tx[c][k] = "none"
  BY DEF Init
<1>4. SentOnce
  BY <1>2, <1>3, ProoflessAssumption DEF SentOnce
<1>5. Planned
  BY <1>2 DEF Planned
<1>6. Made
  BY <1>3 DEF Init, Made
<1>7. Awaited
  BY <1>2 DEF Init, Awaited
<1>8. Approved
  BY <1>2 DEF Approved
<1> QED
  BY <1>1, <1>4, <1>5, <1>6, <1>7, <1>8 DEF IInv

-----------------------------------------------------------------------------
(***************************************************************************)
(* A call begins.                                                          *)
(***************************************************************************)
LEMMA EnterStep ==
  ASSUME IInv, NEW c \in Calls, NEW r \in Request, NEW valid \in BOOLEAN, NEW s \in Spenders,
         NEW label \in {"relay", "approve", "send", "returned"},
         valid => WellFormed(r), chain.net = "solana" => label # "approve",
         Enter(c, r, valid, s, label)
  PROVE  IInv'
<1> DEFINE q == [NoPlan EXCEPT !.req = r, !.fee = r.fee, !.spender = s, !.before = allowance[s]]
           p == IF valid THEN [q EXCEPT !.need = BuildWrapperApprovalInputs(r)]
                         ELSE [q EXCEPT !.err = "invalid"]
           l == IF valid THEN label ELSE "failed"
<1>1. /\ pc[c] = "idle" /\ pc' = [pc EXCEPT ![c] = l] /\ plan' = [plan EXCEPT ![c] = p]
      /\ UNCHANGED <<chain, wallet, allowance, pending, tx, utxos, fees, tronVars>>
  BY DEF Enter, Goto
<1>2. /\ p \in Plan /\ p.before = allowance[s] /\ p.spender = s /\ p.sends = 0
      /\ valid => p.req = r /\ p.fee = r.fee /\ p.need = BuildWrapperApprovalInputs(r)
  <2>1. allowance[s] \in [Tokens -> Nat] /\ r.fee \in Nat
    BY RequestTypes DEF IInv, TypeOK
  <2>2. /\ q \in Plan /\ q.before = allowance[s] /\ q.spender = s /\ q.sends = 0
        /\ q.req = r /\ q.fee = r.fee
    <3>1. NoPlan \in Plan /\ NoPlan.sends = 0
      BY NoPlanType DEF NoPlan
    <3> QED
      BY <2>1, <3>1 DEF Plan
  <2> HIDE DEF q
  <2>3. valid => BuildWrapperApprovalInputs(r) \in [Tokens -> Nat]
    BY NeedNat
  <2>4. CASE valid
    <3>1. p = [q EXCEPT !.need = BuildWrapperApprovalInputs(r)]
      BY <2>4
    <3> HIDE DEF p
    <3> QED
      BY <2>2, <2>3, <2>4, <3>1 DEF Plan
  <2>5. CASE ~valid
    <3>1. p = [q EXCEPT !.err = "invalid"]
      BY <2>5
    <3> HIDE DEF p
    <3> QED
      BY <2>2, <2>5, <3>1 DEF Plan, Errors
  <2> QED
    BY <2>4, <2>5
<1>3. /\ l \in Labels \ {"idle"} /\ (valid => l = label) /\ (~valid => l = "failed")
      /\ chain.net = "solana" => l \notin {"approve", "reset", "approving"}
      /\ l \in {"relay", "approve", "send", "returned", "failed"}
  BY DEF Labels
<1> HIDE DEF q, p, l
<1>4. /\ \A d \in Calls \ {c} : pc'[d] = pc[d] /\ plan'[d] = plan[d]
      /\ pc'[c] = l /\ plan'[c] = p
  BY <1>1 DEF IInv, TypeOK
<1>5. \A k \in 1 .. MaxSends : tx[c][k] = "none"
  BY <1>1 DEF IInv, SentOnce, BeforeSend
<1>6. TypeOK'
  BY <1>1, <1>2, <1>3 DEF IInv, TypeOK, tronVars
<1>7. SentOnce'
  <2>1. tx' = tx /\ p.sends < MaxSends
    BY <1>1, <1>2, ProoflessAssumption
  <2> QED
    BY <1>4, <1>5, <2>1 DEF IInv, SentOnce
<1>8. Planned'
  <2> SUFFICES ASSUME NEW d \in Calls
               PROVE  (\/ pc[d] = "idle"
                       \/ pc[d] \in {"failed", "returned"} /\ \A k \in 1 .. MaxSends : tx[d][k] = "none"
                       \/ /\ Len(plan[d].req.toks) = Len(plan[d].req.amts)
                          /\ Len(plan[d].req.keys) = Len(plan[d].req.amts)
                          /\ plan[d].fee = plan[d].req.fee
                          /\ plan[d].need = BuildWrapperApprovalInputs(plan[d].req))'
    BY DEF Planned
  <2>1. CASE d # c
    BY <1>1, <1>4, <2>1 DEF IInv, Planned
  <2>2. CASE d = c /\ ~valid
    BY <1>1, <1>3, <1>4, <1>5, <2>2
  <2>3. CASE d = c /\ valid
    BY <1>1, <1>2, <1>4, <2>3 DEF WellFormed
  <2> QED
    BY <2>1, <2>2, <2>3
<1>9. Made'
  <2>1. \A d \in Calls, k \in 1 .. MaxSends : tx[d][k] = "mined" => d # c
    BY <1>5
  <2>2. \A d \in Calls \ {c}, k \in 1 .. MaxSends : \A i : Utxo(d, k, i)' = Utxo(d, k, i)
    BY <1>1, <1>4 DEF Utxo, EncodedAmounts
  <2>3. \A d \in Calls \ {c}, k \in 1 .. MaxSends : Fee(d, k)' = Fee(d, k)
    BY <1>1, <1>4 DEF Fee
  <2> QED
    BY <1>1, <1>4, <2>1, <2>2, <2>3 DEF IInv, Made
<1>10. \A d \in Calls : Alone(d)' => d = c /\ Alone(d)
  BY <1>3, <1>4 DEF Alone
<1>11. Awaited'
  <2>1. Alone(c) => pending = {}
    BY <1>1 DEF IInv, Awaited
  <2> QED
    BY <1>1, <1>3, <1>4, <1>10, <2>1 DEF IInv, Awaited
<1>12. Approved'
  <2>1. \A t \in Tokens : allowance[s][t] <= allowance[s][t]
    BY DEF IInv, TypeOK
  <2> QED
    BY <1>1, <1>2, <1>4, <1>10, <2>1 DEF Approved, Pulled
<1> QED
  BY <1>6, <1>7, <1>8, <1>9, <1>11, <1>12 DEF IInv

\* Structures that are made, one for every token.
LEMMA Structures ==
  ASSUME NEW r \in Request
  PROVE  GetProoflessStealthAddressStructures(r) \in Request
<1> DEFINE made == [i \in DOMAIN r.toks |-> -i]
<1>1. made \in Seq(Int)
  <2>1. DOMAIN r.toks = 1 .. Len(r.toks) /\ Len(r.toks) \in Nat
    BY RequestTypes
  <2> QED
    BY <2>1
<1> HIDE DEF made
<1>2. \/ GetProoflessStealthAddressStructures(r) = [r EXCEPT !.keys = made]
      \/ GetProoflessStealthAddressStructures(r) = [r EXCEPT !.keys = r.keys]
  BY DEF GetProoflessStealthAddressStructures, made
<1> QED
  BY <1>1, <1>2 DEF Request

LEMMA BeginStep ==
  ASSUME IInv, NEW c \in Calls, NEW asked \in Requests, Begin(c, asked)
  PROVE  IInv'
<1> DEFINE r == GetProoflessStealthAddressStructures(asked)
<1>1. asked \in Request /\ r \in Request
  BY Structures, ProoflessAssumption DEF Request
<1> HIDE DEF r
<1>2. "hinkal" \in Spenders /\ "wrapper" \in Spenders
  BY DEF Spenders
<1>3. CASE HinkalProoflessDeposit(c, asked)
  BY <1>1, <1>2, <1>3, EnterStep DEF HinkalProoflessDeposit, ValidPlain, WellFormed, r
<1>4. CASE HinkalTronProoflessDeposit(c, asked)
  BY <1>1, <1>2, <1>4, EnterStep DEF HinkalTronProoflessDeposit, ValidPlain, WellFormed, r
<1>5. CASE HinkalProoflessDepositWithPublicFee(c, asked)
  BY <1>1, <1>2, <1>5, EnterStep DEF HinkalProoflessDepositWithPublicFee, ValidWithFee,
     AssertWrapperArgLengths, WellFormed, Request
<1>6. CASE HinkalTronProoflessDepositWithPublicFee(c, asked)
  BY <1>1, <1>2, <1>6, EnterStep DEF HinkalTronProoflessDepositWithPublicFee, ValidWithFee,
     AssertWrapperArgLengths, WellFormed
<1>7. CASE HinkalSolanaProoflessDeposit(c, asked)
  BY <1>1, <1>2, <1>7, EnterStep DEF HinkalSolanaProoflessDeposit, OneMint,
     ValidateSolanaDepositArgs, WellFormed, r
<1>8. CASE HinkalSolanaProoflessDepositWithPublicFee(c, asked)
  BY <1>1, <1>2, <1>8, EnterStep DEF HinkalSolanaProoflessDepositWithPublicFee, OneMint,
     ValidateSolanaDepositArgs, WellFormed
<1>9. CASE HinkalSolanaDeposit(c, asked)
  BY <1>1, <1>2, <1>9, EnterStep DEF HinkalSolanaDeposit, OneMint,
     ValidateSolanaDepositArgs, WellFormed, r
<1>10. CASE HinkalSolanaDepositForOther(c, asked)
  BY <1>1, <1>2, <1>10, EnterStep DEF HinkalSolanaDepositForOther, OneMint,
     ValidateSolanaDepositArgs, WellFormed
<1> QED
  BY <1>3, <1>4, <1>5, <1>6, <1>7, <1>8, <1>9, <1>10 DEF Begin

-----------------------------------------------------------------------------
(***************************************************************************)
(* A call goes on.                                                         *)
(***************************************************************************)
\* Call c goes on to l with local variables p, which has the request, the
\* fee and the approvals of before.
GoesOn(c, l, p) ==
  /\ pc[c] \in BeforeSend \ {"idle"} /\ l \in Labels \ {"idle", "returned"}
  /\ p \in Plan /\ p.req = plan[c].req /\ p.fee = plan[c].fee /\ p.need = plan[c].need
  /\ p.before = plan[c].before /\ p.spender = plan[c].spender
  /\ plan[c].handled \subseteq p.handled
  /\ pc' = [pc EXCEPT ![c] = l] /\ plan' = [plan EXCEPT ![c] = p]
  /\ UNCHANGED <<chain, wallet, utxos, fees, tronVars>>

LEMMA GoesOnFacts ==
  ASSUME IInv, NEW c \in Calls, NEW l, NEW p, GoesOn(c, l, p)
  PROVE  /\ \A d \in Calls \ {c} : pc'[d] = pc[d] /\ plan'[d] = plan[d]
         /\ pc'[c] = l /\ plan'[c] = p
         /\ \A k \in 1 .. MaxSends : tx[c][k] = "none"
         /\ pc' \in [Calls -> Labels] /\ plan' \in [Calls -> Plan]
         /\ \A d \in Calls : Alone(d)' => d = c /\ Alone(c)
         /\ WellFormed(plan[c].req) /\ plan[c].fee = plan[c].req.fee
         /\ plan[c].need = BuildWrapperApprovalInputs(plan[c].req)
<1>1. /\ \A d \in Calls \ {c} : pc'[d] = pc[d] /\ plan'[d] = plan[d]
      /\ pc'[c] = l /\ plan'[c] = p
      /\ pc' \in [Calls -> Labels] /\ plan' \in [Calls -> Plan]
  BY DEF GoesOn, IInv, TypeOK
<1>2. \A k \in 1 .. MaxSends : tx[c][k] = "none"
  BY DEF GoesOn, IInv, SentOnce
<1>3. \A d \in Calls : Alone(d)' => d = c /\ Alone(c)
  BY <1>1 DEF GoesOn, Alone
<1>4. /\ WellFormed(plan[c].req) /\ plan[c].fee = plan[c].req.fee
      /\ plan[c].need = BuildWrapperApprovalInputs(plan[c].req)
  BY DEF GoesOn, IInv, Planned, WellFormed, BeforeSend
<1> QED
  BY <1>1, <1>2, <1>3, <1>4

\* Requests stay, and so do UTXOs and fees as long as nothing is mined.
LEMMA GoesOnPlanned ==
  ASSUME IInv, NEW c \in Calls, NEW l, NEW p, GoesOn(c, l, p),
         \A d \in Calls \ {c} : tx'[d] = tx[d]
  PROVE  Planned'
<1> SUFFICES ASSUME NEW d \in Calls
             PROVE  (\/ pc[d] = "idle"
                     \/ pc[d] \in {"failed", "returned"} /\ \A k \in 1 .. MaxSends : tx[d][k] = "none"
                     \/ /\ Len(plan[d].req.toks) = Len(plan[d].req.amts)
                        /\ Len(plan[d].req.keys) = Len(plan[d].req.amts)
                        /\ plan[d].fee = plan[d].req.fee
                        /\ plan[d].need = BuildWrapperApprovalInputs(plan[d].req))'
  BY DEF Planned
<1>1. CASE d # c
  BY <1>1, GoesOnFacts DEF IInv, Planned
<1>2. CASE d = c
  <2>1. plan'[c] = p
    BY GoesOnFacts
  <2>2. p.req = plan[c].req /\ p.fee = plan[c].fee /\ p.need = plan[c].need
    BY DEF GoesOn
  <2> QED
    BY <1>2, <2>1, <2>2, GoesOnFacts DEF WellFormed
<1> QED
  BY <1>1, <1>2

LEMMA GoesOnMade ==
  ASSUME IInv, NEW c \in Calls, NEW l, NEW p, GoesOn(c, l, p),
         \A d \in Calls, k \in 1 .. MaxSends : tx'[d][k] = "mined" <=> tx[d][k] = "mined"
  PROVE  Made'
<1>1. /\ UNCHANGED <<chain, utxos, fees, tronVars>>
      /\ \A d \in Calls : plan'[d].req = plan[d].req /\ plan'[d].fee = plan[d].fee
  BY GoesOnFacts DEF GoesOn
<1>2. \A d \in Calls, k \in 1 .. MaxSends : \A i : Utxo(d, k, i)' = Utxo(d, k, i)
  BY <1>1 DEF Utxo, EncodedAmounts
<1>3. \A d \in Calls, k \in 1 .. MaxSends : Fee(d, k)' = Fee(d, k)
  BY <1>1 DEF Fee
<1> QED
  BY <1>1, <1>2, <1>3 DEF IInv, Made

LEMMA GoesOnSent ==
  ASSUME IInv, NEW c \in Calls, NEW l, NEW p, GoesOn(c, l, p), UNCHANGED tx,
         l \in BeforeSend => p.sends < MaxSends
  PROVE  SentOnce'
BY GoesOnFacts DEF IInv, SentOnce

LEMMA GoesOnApproved ==
  ASSUME IInv, NEW c \in Calls, NEW l, NEW p, GoesOn(c, l, p), UNCHANGED allowance,
         \A k \in 1 .. MaxSends : tx'[c][k] # "mined"
  PROVE  Approved'
<1> SUFFICES ASSUME Alone(c)', NEW t \in Pulled
             PROVE  (\/ allowance[plan[c].spender][t] <= plan[c].before[t]
                     \/ /\ allowance[plan[c].spender][t] = plan[c].need[t]
                        /\ chain.net # "solana"
                        /\ \A k \in 1 .. MaxSends : tx[c][k] # "mined")'
  BY GoesOnFacts DEF Approved
<1>1. Alone(c) /\ pc[c] # "idle"
  BY GoesOnFacts DEF GoesOn
<1>2. /\ plan'[c].spender = plan[c].spender /\ plan'[c].before = plan[c].before
      /\ plan'[c].need = plan[c].need /\ UNCHANGED chain
  BY GoesOnFacts DEF GoesOn
<1> QED
  BY <1>1, <1>2 DEF IInv, Approved

\* A step that changes nothing but where the call is and its local variables.
LEMMA QuietStep ==
  ASSUME IInv, NEW c \in Calls, NEW l, NEW p, GoesOn(c, l, p),
         UNCHANGED <<allowance, pending, tx>>,
         l \in BeforeSend => p.sends < MaxSends,
         l \in {"approve", "reset", "approving"} => chain.net # "solana",
         Alone(c) /\ pending # {} => l \in {"approve", "simulate", "failed"}
  PROVE  IInv'
<1>1. TypeOK'
  BY GoesOnFacts DEF GoesOn, IInv, TypeOK, tronVars
<1>2. SentOnce' /\ Planned' /\ Made' /\ Approved'
  BY GoesOnSent, GoesOnPlanned, GoesOnMade, GoesOnApproved, GoesOnFacts
<1>3. Awaited'
  <2>1. /\ UNCHANGED <<chain, pending, allowance, tx>>
        /\ pc' = [pc EXCEPT ![c] = l] /\ l # "idle"
        /\ p.spender = plan[c].spender /\ p.need = plan[c].need /\ plan[c].handled \subseteq p.handled
    BY DEF GoesOn
  <2>2. chain.net # "tron" => pending = {}
    BY DEF IInv, Awaited
  <2>3. chain.net = "solana" => \A d \in Calls : pc'[d] \notin {"approve", "reset", "approving"}
    BY GoesOnFacts DEF IInv, Awaited
  <2>4. \A a \in pending : pc'[a.call] # "idle"
    BY <2>1 DEF IInv, Awaited, TypeOK
  <2>5. ASSUME Alone(c), NEW a \in pending
        PROVE  /\ a.call = c /\ a.spender = p.spender /\ a.tok \in p.handled \ {Native}
               /\ a.amt = p.need[a.tok] /\ allowance[a.spender][a.tok] < a.amt
               /\ l \in {"approve", "simulate", "failed"}
               /\ \A k \in 1 .. MaxSends : tx[c][k] = "none"
    BY <2>1, <2>5 DEF IInv, Awaited
  <2>6. \A d \in Calls : Alone(d)' => \A a \in pending :
          /\ a.call = d /\ a.spender = plan'[d].spender /\ a.tok \in plan'[d].handled \ {Native}
          /\ a.amt = plan'[d].need[a.tok] /\ allowance[a.spender][a.tok] < a.amt
          /\ pc'[d] \in {"approve", "simulate", "failed"}
          /\ \A k \in 1 .. MaxSends : tx[d][k] = "none"
    BY <2>5, GoesOnFacts
  <2> QED
    BY <2>1, <2>2, <2>3, <2>4, <2>6 DEF Awaited
<1> QED
  BY <1>1, <1>2, <1>3 DEF IInv

\* What the error of a call leaves of its local variables.
LEMMA FailedPlan ==
  ASSUME NEW p \in Plan, NEW e \in Errors
  PROVE  LET q == [p EXCEPT !.err = e]
         IN  /\ q \in Plan /\ q.req = p.req /\ q.fee = p.fee /\ q.need = p.need
             /\ q.before = p.before /\ q.spender = p.spender /\ q.handled = p.handled
             /\ q.sends = p.sends /\ q.covered = p.covered
BY DEF Plan

LEMMA FailStep ==
  ASSUME IInv, NEW c \in Calls, pc[c] \in BeforeSend \ {"idle"}, NEW e \in Errors, Fail(c, e),
         UNCHANGED <<chain, wallet, allowance, pending, tx, utxos, fees, tronVars>>
  PROVE  IInv'
<1> DEFINE p == [plan[c] EXCEPT !.err = e]
<1>1. /\ p \in Plan /\ p.req = plan[c].req /\ p.fee = plan[c].fee /\ p.need = plan[c].need
      /\ p.before = plan[c].before /\ p.spender = plan[c].spender /\ p.handled = plan[c].handled
  BY Types, FailedPlan DEF IInv
<1>2. pc' = [pc EXCEPT ![c] = "failed"] /\ plan' = [plan EXCEPT ![c] = p]
  BY DEF Fail, Goto
<1> HIDE DEF p
<1>3. GoesOn(c, "failed", p)
  BY <1>1, <1>2 DEF GoesOn, Labels
<1> QED
  BY <1>3, QuietStep DEF BeforeSend

\* A step that changes nothing of the call but where it is.
LEMMA GotoStep ==
  ASSUME IInv, NEW c \in Calls, NEW l \in Labels \ {"idle", "returned"},
         pc[c] \in BeforeSend \ {"idle"}, Goto(c, l, plan[c]),
         UNCHANGED <<chain, wallet, allowance, pending, tx, utxos, fees, tronVars>>,
         l \in {"approve", "reset", "approving"} => chain.net # "solana",
         Alone(c) /\ pending # {} => l \in {"approve", "simulate", "failed"}
  PROVE  IInv'
<1>1. GoesOn(c, l, plan[c])
  BY Types DEF GoesOn, Goto, IInv
<1>2. plan[c].sends < MaxSends
  BY DEF IInv, SentOnce
<1> QED
  BY <1>1, <1>2, QuietStep

\* Where an approval is on its way, of a call that is alone.
LEMMA AwaitedAt ==
  ASSUME IInv, NEW c \in Calls, Alone(c), pending # {}
  PROVE  chain.net = "tron" /\ pc[c] \in {"approve", "simulate", "failed"}
BY DEF IInv, Awaited

LEMMA PickRelayStep ==
  ASSUME IInv, NEW c \in Calls, NEW found \in BOOLEAN, PickRelay(c, found)
  PROVE  IInv'
<1>1. pc[c] = "relay" /\ pc[c] \in BeforeSend \ {"idle"}
  BY DEF PickRelay, BeforeSend
<1>2. UNCHANGED <<chain, wallet, allowance, pending, tx, utxos, fees, tronVars>>
  BY DEF PickRelay
<1>3. \/ Fail(c, "relay")
      \/ chain.net = "solana" /\ Goto(c, "send", plan[c])
      \/ chain.net # "solana" /\ Goto(c, "approve", plan[c])
  BY DEF PickRelay
<1>4. CASE Fail(c, "relay")
  BY <1>1, <1>2, <1>4, FailStep DEF Errors
<1>5. CASE chain.net = "solana" /\ Goto(c, "send", plan[c])
  BY <1>1, <1>2, <1>5, GotoStep, AwaitedAt DEF Labels
<1>6. CASE chain.net # "solana" /\ Goto(c, "approve", plan[c])
  BY <1>1, <1>2, <1>6, GotoStep, AwaitedAt DEF Labels
<1> QED
  BY <1>3, <1>4, <1>5, <1>6

LEMMA NextApprovalStep ==
  ASSUME IInv, NEW c \in Calls, NextApproval(c)
  PROVE  IInv'
<1>1. pc[c] = "approve" /\ pc[c] \in BeforeSend \ {"idle"} /\ chain.net = "evm"
  BY DEF NextApproval, BeforeSend
<1>2. UNCHANGED <<chain, wallet, allowance, pending, tx, utxos, fees, tronVars>>
  BY DEF NextApproval
<1>3. Alone(c) => pending = {}
  BY <1>1, AwaitedAt
<1>4. CASE Short(c) = {}
  <2>1. Goto(c, "send", plan[c])
    BY <1>4 DEF NextApproval
  <2> QED
    BY <1>1, <1>2, <1>3, <2>1, GotoStep DEF Labels
<1>5. CASE Short(c) # {}
  <2>1. PICK t \in Short(c), l \in {"reset", "approving"} :
          Goto(c, l, [plan[c] EXCEPT !.tok = t, !.handled = @ \union {t}])
    BY <1>5 DEF NextApproval
  <2> DEFINE p == [plan[c] EXCEPT !.tok = t, !.handled = @ \union {t}]
  <2>2. t \in Tokens
    BY DEF Short, Pulled
  <2>3. /\ p \in Plan /\ p.req = plan[c].req /\ p.fee = plan[c].fee /\ p.need = plan[c].need
        /\ p.before = plan[c].before /\ p.spender = plan[c].spender /\ p.sends = plan[c].sends
        /\ p.handled = plan[c].handled \union {t}
    <3>1. plan[c] \in Plan
      BY Types DEF IInv
    <3> QED
      BY <2>2, <3>1 DEF Plan
  <2>4. pc' = [pc EXCEPT ![c] = l] /\ plan' = [plan EXCEPT ![c] = p]
    BY <2>1 DEF Goto
  <2> HIDE DEF p
  <2>5. GoesOn(c, l, p)
    BY <1>1, <1>2, <2>3, <2>4 DEF GoesOn, Labels
  <2>6. p.sends < MaxSends
    BY <1>1, <2>3 DEF IInv, SentOnce
  <2> QED
    BY <1>1, <1>2, <1>3, <2>5, <2>6, QuietStep
<1> QED
  BY <1>4, <1>5

LEMMA WaitStep ==
  ASSUME IInv, NEW c \in Calls, WaitForTronErc20Approvals(c)
  PROVE  IInv'
BY GotoStep DEF WaitForTronErc20Approvals, BeforeSend, Labels

\* The simulation does not pass before the approvals are mined.
LEMMA SimulateStep ==
  ASSUME IInv, NEW c \in Calls, SimulateTronTransaction(c)
  PROVE  IInv'
<1>1. pc[c] = "simulate" /\ pc[c] \in BeforeSend \ {"idle"}
  BY DEF SimulateTronTransaction, BeforeSend
<1>2. UNCHANGED <<chain, wallet, allowance, pending, tx, utxos, fees, tronVars>>
  BY DEF SimulateTronTransaction
<1>3. CASE Fail(c, "simulation")
  BY <1>1, <1>2, <1>3, FailStep DEF Errors
<1>4. CASE Accepts(plan[c], plan[c].need[Native]) /\ Goto(c, "balance", plan[c])
  <2>1. ASSUME Alone(c), NEW a \in pending PROVE FALSE
    <3>1. /\ a.spender = plan[c].spender /\ a.tok \in Pulled /\ a.amt = plan[c].need[a.tok]
          /\ allowance[a.spender][a.tok] < a.amt /\ chain.net = "tron"
      BY <2>1, Types DEF IInv, Awaited, Pulled
    <3>2. /\ WellFormed(plan[c].req) /\ plan[c].fee = plan[c].req.fee
          /\ plan[c].need = BuildWrapperApprovalInputs(plan[c].req)
      BY <1>1 DEF IInv, Planned, WellFormed
    <3>3. Charge(plan[c], a.tok) = a.amt
      BY <3>1, <3>2, Charged, Types DEF IInv, Pulled
    <3>4. Charge(plan[c], a.tok) <= allowance[plan[c].spender][a.tok]
      BY <1>4, <3>1 DEF Accepts
    <3>5. a.amt \in Nat /\ allowance[a.spender][a.tok] \in Nat
      BY <2>1, <3>1, Types DEF IInv, TypeOK, Pulled
    <3> QED
      BY <3>1, <3>3, <3>4, <3>5
  <2> QED
    BY <1>1, <1>2, <1>4, <2>1, GotoStep DEF Labels
<1> QED
  BY <1>3, <1>4 DEF SimulateTronTransaction

LEMMA DivNat ==
  ASSUME NEW x \in Nat, NEW b \in Nat \ {0}
  PROVE  x \div b \in Nat
OBVIOUS

LEMMA ProductNat ==
  ASSUME NEW x \in Nat, NEW y \in Nat
  PROVE  x * y \in Nat
OBVIOUS

\* What a Tron call sets aside is a number of sun.
LEMMA FeeNat ==
  ASSUME TypeOK, NEW use \in Costs, NEW known \in BOOLEAN
  PROVE  (IF known THEN EstimateTronFeeSunWithPadding(use) ELSE FeeLimit) \in Nat
<1> DEFINE payable == Excess(use, energy)
           pad == (payable * Padding) \div PaddingBase
<1>1. use \in Nat /\ energy \in Nat /\ FeeLimit \in Nat
  BY ProoflessAssumption DEF TypeOK
<1>2. payable \in Nat
  BY <1>1 DEF Excess
<1> HIDE DEF payable
<1>3. pad \in Nat
  BY <1>2, DivNat, ProductNat, ProoflessAssumption
<1>4. EstimateTronFeeSunWithPadding(use) = Lesser(payable + pad, FeeLimit)
  BY DEF EstimateTronFeeSunWithPadding, payable
<1> HIDE DEF pad
<1> QED
  BY <1>1, <1>2, <1>3, <1>4 DEF Lesser

LEMMA CheckBalanceStep ==
  ASSUME IInv, NEW c \in Calls, NEW use \in Costs, NEW known \in BOOLEAN,
         CheckTronBalance(c, use, known)
  PROVE  IInv'
<1>1. pc[c] = "balance" /\ pc[c] \in BeforeSend \ {"idle"}
  BY DEF CheckTronBalance, BeforeSend
<1>2. UNCHANGED <<chain, wallet, allowance, pending, tx, utxos, fees, tronVars>>
  BY DEF CheckTronBalance
<1> DEFINE fee == IF known THEN EstimateTronFeeSunWithPadding(use) ELSE FeeLimit
           p == [plan[c] EXCEPT !.covered = energy + fee]
<1>3. Fail(c, "balance") \/ Goto(c, "send", p)
  BY DEF CheckTronBalance
<1>4. CASE Fail(c, "balance")
  BY <1>1, <1>2, <1>4, FailStep DEF Errors
<1>5. CASE Goto(c, "send", p)
  <2>1. /\ p \in Plan /\ p.req = plan[c].req /\ p.fee = plan[c].fee /\ p.need = plan[c].need
        /\ p.before = plan[c].before /\ p.spender = plan[c].spender /\ p.sends = plan[c].sends
        /\ p.handled = plan[c].handled
    <3>1. plan[c] \in Plan /\ energy + fee \in Nat
      BY Types, FeeNat DEF IInv, TypeOK
    <3> HIDE DEF fee
    <3> QED
      BY <3>1 DEF Plan
  <2>2. pc' = [pc EXCEPT ![c] = "send"] /\ plan' = [plan EXCEPT ![c] = p]
    BY <1>5 DEF Goto
  <2> HIDE DEF p
  <2>3. GoesOn(c, "send", p)
    BY <1>1, <1>2, <2>1, <2>2 DEF GoesOn, Labels
  <2>4. p.sends < MaxSends
    BY <1>1, <2>1 DEF IInv, SentOnce
  <2> QED
    BY <1>1, <1>2, <2>3, <2>4, QuietStep, AwaitedAt
<1> QED
  BY <1>3, <1>4, <1>5

LEMMA RequestFailsStep ==
  ASSUME IInv, NEW c \in Calls, RequestFails(c)
  PROVE  IInv'
BY FailStep DEF RequestFails, BeforeSend, Errors

\* An approval of an EVM wallet.
LEMMA ApproveStep ==
  ASSUME IInv, NEW c \in Calls, pc[c] \in {"reset", "approving"},
         NEW l \in {"approving", "approve"},
         NEW amount \in {0, plan[c].need[plan[c].tok]}, Approve(c, amount, l)
  PROVE  IInv'
<1> DEFINE s == plan[c].spender
           t == plan[c].tok
<1>1. /\ allowance' = [allowance EXCEPT ![s][t] = amount]
      /\ Goto(c, l, plan[c]) /\ UNCHANGED <<chain, wallet, pending, tx, utxos, fees, tronVars>>
  BY DEF Approve
<1>2. /\ s \in Spenders /\ t \in Tokens /\ amount \in Nat /\ plan[c] \in Plan
      /\ plan[c].before \in [Tokens -> Nat] /\ plan[c].sends < MaxSends /\ chain.net # "solana"
      /\ pc[c] \in BeforeSend \ {"idle"}
  BY Types DEF IInv, SentOnce, BeforeSend, Awaited
<1>3. GoesOn(c, l, plan[c])
  BY <1>1, <1>2 DEF GoesOn, Goto, Labels
<1>4. /\ allowance' \in [Spenders -> [Tokens -> Nat]]
      /\ \A u \in Tokens : allowance'[s][u] = IF u = t THEN amount ELSE allowance[s][u]
  BY <1>1, <1>2 DEF IInv, TypeOK
<1>5. TypeOK'
  BY <1>1, <1>3, <1>4, GoesOnFacts DEF IInv, TypeOK, tronVars
<1>6. SentOnce' /\ Planned' /\ Made'
  BY <1>1, <1>2, <1>3, GoesOnSent, GoesOnPlanned, GoesOnMade
<1>7. Alone(c) => pending = {}
  BY AwaitedAt
<1>8. Awaited'
  <2>1. chain'.net = chain.net /\ pending' = pending /\ tx' = tx
    BY <1>1
  <2>2. \A d \in Calls : chain.net = "solana" => pc'[d] \notin {"approve", "reset", "approving"}
    BY <1>2
  <2>3. \A a \in pending : pc'[a.call] # "idle"
    BY <1>3, GoesOnFacts DEF IInv, Awaited, TypeOK
  <2>4. \A d \in Calls : Alone(d)' => pending = {}
    BY <1>3, <1>7, GoesOnFacts
  <2>5. chain.net # "tron" => pending = {}
    BY DEF IInv, Awaited
  <2> QED
    BY <2>1, <2>2, <2>3, <2>4, <2>5 DEF Awaited
<1>9. Approved'
  <2> SUFFICES ASSUME Alone(c)', NEW u \in Pulled
               PROVE  (\/ allowance[plan[c].spender][u] <= plan[c].before[u]
                       \/ /\ allowance[plan[c].spender][u] = plan[c].need[u]
                          /\ chain.net # "solana"
                          /\ \A k \in 1 .. MaxSends : tx[c][k] # "mined")'
    BY <1>3, GoesOnFacts DEF Approved
  <2>1. plan'[c] = plan[c] /\ chain' = chain /\ tx' = tx /\ Alone(c) /\ u \in Tokens
    BY <1>1, <1>3, GoesOnFacts DEF Pulled
  <2>2. \A k \in 1 .. MaxSends : tx[c][k] # "mined"
    BY <1>3, GoesOnFacts
  <2>3. CASE u # t
    <3>1. allowance'[s][u] = allowance[s][u] /\ pc[c] # "idle"
      BY <1>2, <1>4, <2>1, <2>3
    <3>2. \/ allowance[s][u] <= plan[c].before[u]
          \/ allowance[s][u] = plan[c].need[u] /\ chain.net # "solana"
      BY <2>1, <3>1 DEF IInv, Approved
    <3> QED
      BY <2>1, <2>2, <3>1, <3>2
  <2>4. CASE u = t
    <3>1. allowance'[s][u] = amount /\ plan[c].before[u] \in Nat
      BY <1>2, <1>4, <2>1, <2>4
    <3> QED
      BY <1>2, <2>1, <2>2, <2>4, <3>1
  <2> QED
    BY <2>3, <2>4
<1> QED
  BY <1>5, <1>6, <1>8, <1>9 DEF IInv

LEMMA BroadcastStep ==
  ASSUME IInv, NEW c \in Calls, BroadcastApproval(c)
  PROVE  IInv'
<1>1. /\ pc[c] = "approve" /\ pc[c] \in BeforeSend \ {"idle"} /\ chain.net = "tron"
      /\ UNCHANGED <<chain, wallet, allowance, tx, utxos, fees, tronVars>>
  BY DEF BroadcastApproval, BeforeSend
<1> DEFINE A(t) == [call |-> c, spender |-> plan[c].spender, tok |-> t, amt |-> plan[c].need[t]]
           P(t) == [plan[c] EXCEPT !.handled = @ \union {t}]
<1>2. PICK t \in Short(c) : pending' = pending \union {A(t)} /\ Goto(c, "approve", P(t))
  BY DEF BroadcastApproval
<1> DEFINE p == P(t)
           a == A(t)
<1>3. t \in Tokens /\ t # Native /\ allowance[plan[c].spender][t] < plan[c].need[t]
  BY DEF Short, Pulled
<1>4. /\ p \in Plan /\ p.req = plan[c].req /\ p.fee = plan[c].fee /\ p.need = plan[c].need
      /\ p.before = plan[c].before /\ p.spender = plan[c].spender /\ p.sends = plan[c].sends
      /\ p.handled = plan[c].handled \union {t}
  <2>1. plan[c] \in Plan
    BY Types DEF IInv
  <2> QED
    BY <1>3, <2>1 DEF Plan
<1>5. /\ a \in [call : Calls, spender : Spenders, tok : Tokens, amt : Nat]
      /\ a.call = c /\ a.spender = plan[c].spender /\ a.tok = t /\ a.amt = plan[c].need[t]
  <2>1. plan[c].spender \in Spenders /\ plan[c].need[t] \in Nat
    BY <1>3, Types DEF IInv
  <2> QED
    BY <1>3, <2>1
<1>6. /\ pc' = [pc EXCEPT ![c] = "approve"] /\ plan' = [plan EXCEPT ![c] = p]
      /\ pending' = pending \union {a}
  BY <1>2 DEF Goto
<1> HIDE DEF p, a
<1>7. GoesOn(c, "approve", p)
  BY <1>1, <1>4, <1>6 DEF GoesOn, Labels
<1>8. TypeOK'
  BY <1>1, <1>5, <1>6, <1>7, GoesOnFacts DEF IInv, TypeOK, tronVars
<1>9. p.sends < MaxSends
  BY <1>1, <1>4 DEF IInv, SentOnce
<1>10. SentOnce' /\ Planned' /\ Made' /\ Approved'
  BY <1>1, <1>7, <1>9, GoesOnSent, GoesOnPlanned, GoesOnMade, GoesOnApproved, GoesOnFacts
<1>11. Awaited'
  <2>1. \A b \in pending' : pc'[b.call] # "idle"
    <3>1. pc'[a.call] # "idle"
      BY <1>5, <1>7, GoesOnFacts
    <3>2. \A b \in pending : pc'[b.call] # "idle"
      BY <1>7, GoesOnFacts DEF IInv, Awaited, TypeOK
    <3> QED
      BY <1>6, <3>1, <3>2
  <2>2. ASSUME Alone(c), NEW b \in pending'
        PROVE  /\ b.call = c /\ b.spender = p.spender /\ b.tok \in p.handled \ {Native}
               /\ b.amt = p.need[b.tok] /\ allowance[b.spender][b.tok] < b.amt
    <3>1. CASE b = a
      BY <1>3, <1>4, <1>5, <3>1
    <3>2. CASE b \in pending
      BY <1>4, <2>2, <3>2 DEF IInv, Awaited
    <3> QED
      BY <1>6, <3>1, <3>2
  <2>3. \A d \in Calls : Alone(d)' => \A b \in pending' :
          /\ b.call = d /\ b.spender = plan'[d].spender /\ b.tok \in plan'[d].handled \ {Native}
          /\ b.amt = plan'[d].need[b.tok] /\ allowance[b.spender][b.tok] < b.amt
          /\ pc'[d] \in {"approve", "simulate", "failed"}
          /\ \A k \in 1 .. MaxSends : tx[d][k] = "none"
    BY <1>7, <2>2, GoesOnFacts
  <2> QED
    BY <1>1, <2>1, <2>3 DEF Awaited
<1> QED
  BY <1>8, <1>10, <1>11 DEF IInv

\* A deposit is sent: the only transaction of its call.
LEMMA SendStep ==
  ASSUME IInv, NEW c \in Calls, pc[c] = "send", NEW l \in {"done", "failed"}, NEW p,
         GoesOn(c, l, p), NEW n \in 1 .. MaxSends, tx' = [tx EXCEPT ![c][n] = "pending"],
         UNCHANGED <<allowance, pending>>
  PROVE  IInv'
<1>1. /\ \A d \in Calls \ {c} : tx'[d] = tx[d]
      /\ \A k \in 1 .. MaxSends : tx'[c][k] = IF k = n THEN "pending" ELSE "none"
      /\ tx' \in [Calls -> [1 .. MaxSends -> Status]]
  <2>1. \A k \in 1 .. MaxSends : tx[c][k] = "none"
    BY GoesOnFacts
  <2>2. tx \in [Calls -> [1 .. MaxSends -> Status]]
    BY DEF IInv, TypeOK
  <2> QED
    BY <2>1, <2>2 DEF Status
<1>2. TypeOK'
  BY <1>1, GoesOnFacts DEF GoesOn, IInv, TypeOK, tronVars
<1>3. SentOnce'
  BY <1>1, GoesOnFacts DEF IInv, SentOnce, BeforeSend
<1>4. \A d \in Calls, k \in 1 .. MaxSends : tx'[d][k] = "mined" <=> tx[d][k] = "mined"
  BY <1>1, GoesOnFacts
<1>5. Planned' /\ Made'
  BY <1>1, <1>4, GoesOnPlanned, GoesOnMade
<1>6. Approved'
  BY <1>1, GoesOnApproved
<1>7. Awaited'
  <2>1. chain' = chain /\ pending' = pending
    BY DEF GoesOn
  <2>2. chain.net = "solana" => \A d \in Calls : pc'[d] \notin {"approve", "reset", "approving"}
    BY GoesOnFacts DEF IInv, Awaited
  <2>3. \A a \in pending : pc'[a.call] # "idle"
    BY GoesOnFacts DEF IInv, Awaited, TypeOK
  <2>4. \A d \in Calls : Alone(d)' => pending = {}
    BY GoesOnFacts, AwaitedAt
  <2>5. chain.net # "tron" => pending = {}
    BY DEF IInv, Awaited
  <2> QED
    BY <2>1, <2>2, <2>3, <2>4, <2>5 DEF Awaited
<1> QED
  BY <1>2, <1>3, <1>5, <1>6, <1>7 DEF IInv

LEMMA SendTransactionStep ==
  ASSUME IInv, NEW c \in Calls, SendTransaction(c)
  PROVE  IInv'
<1>1. /\ pc[c] = "send" /\ pc[c] \in BeforeSend \ {"idle"}
      /\ tx' = [tx EXCEPT ![c][1] = "pending"]
      /\ UNCHANGED <<chain, wallet, allowance, pending, utxos, fees, tronVars>>
  BY DEF SendTransaction, BeforeSend
<1>2. 1 \in 1 .. MaxSends
  BY ProoflessAssumption
<1>3. CASE Goto(c, "done", plan[c])
  <2>1. GoesOn(c, "done", plan[c])
    BY <1>1, <1>3, Types DEF GoesOn, Goto, Labels, IInv
  <2> QED
    BY <1>1, <1>2, <2>1, SendStep
<1>4. CASE Fail(c, "send")
  <2> DEFINE p == [plan[c] EXCEPT !.err = "send"]
  <2>1. /\ p \in Plan /\ p.req = plan[c].req /\ p.fee = plan[c].fee /\ p.need = plan[c].need
        /\ p.before = plan[c].before /\ p.spender = plan[c].spender /\ p.handled = plan[c].handled
    BY Types, FailedPlan DEF IInv, Errors
  <2>2. pc' = [pc EXCEPT ![c] = "failed"] /\ plan' = [plan EXCEPT ![c] = p]
    BY <1>4 DEF Fail, Goto
  <2> HIDE DEF p
  <2>3. GoesOn(c, "failed", p)
    BY <1>1, <2>1, <2>2 DEF GoesOn, Labels
  <2> QED
    BY <1>1, <1>2, <2>3, SendStep
<1> QED
  BY <1>3, <1>4 DEF SendTransaction

\* Only what no node has let pass is sent again.
LEMMA SignAndSendStep ==
  ASSUME IInv, NEW c \in Calls, SignAndSendSolanaInstructions(c)
  PROVE  IInv'
<1> DEFINE p == [plan[c] EXCEPT !.sends = @ + 1]
           F(e) == [p EXCEPT !.err = e]
<1>1. /\ pc[c] = "send" /\ pc[c] \in BeforeSend \ {"idle"} /\ chain.net = "solana"
      /\ UNCHANGED <<chain, wallet, allowance, pending, utxos, fees, tronVars>>
  BY DEF SignAndSendSolanaInstructions, BeforeSend
<1>2. /\ p \in Plan /\ p.req = plan[c].req /\ p.fee = plan[c].fee /\ p.need = plan[c].need
      /\ p.before = plan[c].before /\ p.spender = plan[c].spender /\ p.handled = plan[c].handled
      /\ p.sends = plan[c].sends + 1 /\ p.sends \in 1 .. MaxSends
  <2>1. plan[c] \in Plan /\ plan[c].sends \in 0 .. MaxSends /\ plan[c].sends < MaxSends
    BY <1>1, Types DEF IInv, SentOnce
  <2>2. plan[c].sends + 1 \in 0 .. MaxSends /\ plan[c].sends + 1 \in 1 .. MaxSends
    BY <2>1, ProoflessAssumption
  <2> QED
    BY <2>1, <2>2 DEF Plan
<1>3. \A e \in Errors :
        /\ F(e) \in Plan /\ F(e).req = plan[c].req /\ F(e).fee = plan[c].fee
        /\ F(e).need = plan[c].need /\ F(e).before = plan[c].before
        /\ F(e).spender = plan[c].spender /\ F(e).handled = plan[c].handled
  <2> HIDE DEF p
  <2> QED
    BY <1>2, FailedPlan
<1>4. \A e \in Errors :
        pc' = [pc EXCEPT ![c] = "failed"] /\ plan' = [plan EXCEPT ![c] = F(e)]
          => GoesOn(c, "failed", F(e))
  <2> HIDE DEF p, F
  <2> QED
    BY <1>1, <1>3 DEF GoesOn, Labels
<1>5. \A l \in {"done", "send"} :
        pc' = [pc EXCEPT ![c] = l] /\ plan' = [plan EXCEPT ![c] = p] => GoesOn(c, l, p)
  <2> HIDE DEF p, F
  <2> QED
    BY <1>1, <1>2 DEF GoesOn, Labels
<1>6. CASE /\ tx' = [tx EXCEPT ![c][p.sends] = "pending"]
           /\ \/ Goto(c, "done", p)
              \/ Goto(c, "failed", F("answer"))
  <2>1. GoesOn(c, "done", p) \/ GoesOn(c, "failed", F("answer"))
    <3> HIDE DEF p, F
    <3> QED
      BY <1>4, <1>5, <1>6 DEF Goto, Errors
  <2> HIDE DEF p, F
  <2> QED
    BY <1>1, <1>2, <1>6, <2>1, SendStep
<1>7. CASE UNCHANGED tx /\ Goto(c, "send", p) /\ p.sends < MaxSends
  <2> HIDE DEF p, F
  <2>1. GoesOn(c, "send", p)
    BY <1>5, <1>7 DEF Goto
  <2>2. pending = {}
    BY <1>1 DEF IInv, Awaited
  <2> QED
    BY <1>1, <1>7, <2>1, <2>2, QuietStep
<1>8. CASE UNCHANGED tx /\ \E e \in {"blockhash", "preflight"} : Goto(c, "failed", F(e))
  <2> HIDE DEF p, F
  <2>1. PICK e \in {"blockhash", "preflight"} : Goto(c, "failed", F(e))
    BY <1>8
  <2>2. GoesOn(c, "failed", F(e))
    BY <1>4, <2>1 DEF Goto, Errors
  <2> QED
    BY <1>1, <1>8, <2>2, QuietStep DEF BeforeSend
<1> DEFINE Error(e) == IF TriesLeft(p) /\ ShouldRetrySolanaSendError(e)
                       THEN Goto(c, "send", p)
                       ELSE Goto(c, "failed", F(e))
<1>9. \/ /\ tx' = [tx EXCEPT ![c][p.sends] = "pending"]
         /\ Goto(c, "done", p) \/ Error("answer")
      \/ \E e \in {"blockhash", "preflight"} : Error(e) /\ UNCHANGED tx
  BY DEF SignAndSendSolanaInstructions
<1> HIDE DEF p, F
<1>10. Error("answer") => Goto(c, "failed", F("answer"))
  BY DEF ShouldRetrySolanaSendError
<1>11. \A e : Error(e) => \/ Goto(c, "send", p) /\ p.sends < MaxSends
                          \/ Goto(c, "failed", F(e))
  BY DEF TriesLeft
<1> QED
  BY <1>6, <1>7, <1>8, <1>9, <1>10, <1>11

-----------------------------------------------------------------------------
(***************************************************************************)
(* The chain.                                                              *)
(***************************************************************************)
\* What Tron takes of a transaction that needs use.
LEMMA BurntFacts ==
  ASSUME TypeOK, NEW use \in Nat, NEW spare \in Nat
  PROVE  /\ Burnt(use, spare) \in Nat /\ Burnt(use, spare) <= spare
         /\ Excess(use, energy) \in Nat /\ Excess(use, energy) <= use
         /\ Burnt(use, spare) <= Excess(use, energy)
         /\ Excess(energy, Lesser(use, FeeLimit)) \in Nat
<1>1. energy \in Nat /\ FeeLimit \in Nat
  BY ProoflessAssumption DEF TypeOK
<1> QED
  BY <1>1 DEF Burnt, Excess, Lesser

LEMMA MineApprovalStep ==
  ASSUME IInv, NEW a \in pending, NEW use \in Costs, MineApproval(a, use)
  PROVE  IInv'
<1> DEFINE c == a.call
<1>1. /\ pending' = pending \ {a} /\ UNCHANGED <<chain, pc, tx, utxos, fees>>
      /\ a \in [call : Calls, spender : Spenders, tok : Tokens, amt : Nat]
      /\ c \in Calls /\ a.spender \in Spenders /\ a.tok \in Tokens /\ a.amt \in Nat
  BY DEF MineApproval, IInv, TypeOK
<1>2. chain.net = "tron"
  BY DEF IInv, Awaited
<1>3. plan' = plan /\ plan' \in [Calls -> Plan]
  BY DEF MineApproval, IInv, TypeOK
<1>4. /\ allowance' \in [Spenders -> [Tokens -> Nat]]
      /\ \A s \in Spenders, t \in Tokens :
           \/ allowance'[s][t] = allowance[s][t]
           \/ s = a.spender /\ t = a.tok /\ allowance'[s][t] = a.amt
  <2>1. CASE UNCHANGED allowance
    BY <2>1 DEF IInv, TypeOK
  <2>2. CASE allowance' = [allowance EXCEPT ![a.spender][a.tok] = a.amt]
    BY <1>1, <2>2 DEF IInv, TypeOK
  <2> QED
    BY <2>1, <2>2 DEF MineApproval
<1> HIDE DEF c
<1>5. TypeOK'
  <2>1. /\ wallet' = [wallet EXCEPT ![Native] = @ - Burnt(use, @)]
        /\ energy' = Excess(energy, Lesser(use, FeeLimit))
        /\ approvalCost' = [approvalCost EXCEPT ![c] = @ + use] /\ depositCost' = depositCost
    BY DEF MineApproval, UseEnergy, c
  <2>2. use \in Nat /\ Native \in Tokens
    BY ProoflessAssumption
  <2>3. wallet' \in [Tokens -> Nat]
    <3>1. wallet \in [Tokens -> Nat]
      BY DEF IInv, TypeOK
    <3>2. wallet[Native] \in Nat
      BY <2>2, <3>1
    <3>3. Burnt(use, wallet[Native]) \in Nat /\ Burnt(use, wallet[Native]) <= wallet[Native]
      BY <2>2, <3>2, BurntFacts DEF IInv
    <3> QED
      BY <2>1, <2>2, <3>1, <3>2, <3>3
  <2>4. energy' \in Nat
    BY <2>1, <2>2, BurntFacts DEF IInv
  <2>5. approvalCost' \in [Calls -> Nat]
    BY <1>1, <2>1, <2>2 DEF IInv, TypeOK, c
  <2> QED
    BY <1>1, <1>3, <1>4, <2>1, <2>3, <2>4, <2>5 DEF IInv, TypeOK
<1>6. SentOnce'
  BY <1>1, <1>3 DEF IInv, SentOnce
<1>7. Planned'
  BY <1>1, <1>3 DEF IInv, Planned
<1>8. Made'
  <2>1. \A d \in Calls, k \in 1 .. MaxSends : \A i : Utxo(d, k, i)' = Utxo(d, k, i)
    BY <1>1, <1>3 DEF Utxo, EncodedAmounts
  <2>2. \A d \in Calls, k \in 1 .. MaxSends : Fee(d, k)' = Fee(d, k)
    BY <1>1, <1>3 DEF Fee
  <2> QED
    BY <1>1, <1>3, <2>1, <2>2 DEF IInv, Made
<1>9. \A d \in Calls : Alone(d)' <=> Alone(d)
  BY <1>1 DEF Alone
<1>10. Awaited'
  <2>1. ASSUME NEW d \in Calls, Alone(d), NEW b \in pending \ {a}
        PROVE  /\ b.call = d /\ b.spender = plan'[d].spender
               /\ b.tok \in plan'[d].handled \ {Native}
               /\ b.amt = plan'[d].need[b.tok] /\ allowance'[b.spender][b.tok] < b.amt
               /\ pc[d] \in {"approve", "simulate", "failed"}
               /\ \A k \in 1 .. MaxSends : tx[d][k] = "none"
    <3>1. /\ b.call = d /\ b.spender = plan[d].spender /\ b.tok \in plan[d].handled \ {Native}
          /\ b.amt = plan[d].need[b.tok] /\ allowance[b.spender][b.tok] < b.amt
          /\ pc[d] \in {"approve", "simulate", "failed"}
          /\ \A k \in 1 .. MaxSends : tx[d][k] = "none"
      BY <2>1 DEF IInv, Awaited
    <3>2. a.call = d /\ a.spender = plan[d].spender /\ a.amt = plan[d].need[a.tok]
      BY <2>1 DEF IInv, Awaited
    <3>3. b \in [call : Calls, spender : Spenders, tok : Tokens, amt : Nat]
      BY DEF IInv, TypeOK
    <3>4. b.tok # a.tok
      <4>1. SUFFICES ASSUME b.tok = a.tok PROVE b = a
        OBVIOUS
      <4> QED
        BY <1>1, <3>1, <3>2, <3>3, <4>1
    <3>5. allowance'[b.spender][b.tok] = allowance[b.spender][b.tok]
      BY <1>4, <3>3, <3>4
    <3> QED
      BY <1>3, <3>1, <3>5
  <2>2. \A b \in pending : pc[b.call] # "idle"
    BY DEF IInv, Awaited
  <2> QED
    BY <1>1, <1>2, <1>9, <2>1, <2>2 DEF Awaited
<1>11. Approved'
  <2> SUFFICES ASSUME NEW d \in Calls, Alone(d), pc[d] # "idle", NEW t \in Pulled
               PROVE  (\/ allowance[plan[d].spender][t] <= plan[d].before[t]
                       \/ /\ allowance[plan[d].spender][t] = plan[d].need[t]
                          /\ chain.net # "solana"
                          /\ \A k \in 1 .. MaxSends : tx[d][k] # "mined")'
    BY <1>1, <1>9 DEF Approved
  <2>1. /\ a.call = d /\ a.spender = plan[d].spender /\ a.amt = plan[d].need[a.tok]
        /\ \A k \in 1 .. MaxSends : tx[d][k] # "mined"
    BY DEF IInv, Awaited
  <2>2. \/ allowance[plan[d].spender][t] <= plan[d].before[t]
        \/ allowance[plan[d].spender][t] = plan[d].need[t]
    BY DEF IInv, Approved
  <2>3. plan[d].spender \in Spenders /\ t \in Tokens
    BY Types DEF IInv, Pulled
  <2>4. \/ allowance'[plan[d].spender][t] = allowance[plan[d].spender][t]
        \/ allowance'[plan[d].spender][t] = plan[d].need[t]
    BY <1>4, <2>1, <2>3
  <2> QED
    BY <1>1, <1>2, <1>3, <2>1, <2>2, <2>4
<1> QED
  BY <1>5, <1>6, <1>7, <1>8, <1>10, <1>11 DEF IInv

\* What MineDeposit adds to the UTXOs.
MadeBy(c, k) == {Utxo(c, k, i) : i \in DOMAIN plan[c].req.toks}

\* A transaction that is out belongs to a call that is through with its
\* sends, with a plan that was accepted.
LEMMA OutFacts ==
  ASSUME IInv, NEW c \in Calls, NEW k \in 1 .. MaxSends, tx[c][k] # "none"
  PROVE  /\ pc[c] \notin BeforeSend /\ pc[c] # "idle"
         /\ WellFormed(plan[c].req) /\ plan[c].fee = plan[c].req.fee
         /\ plan[c].need = BuildWrapperApprovalInputs(plan[c].req)
         /\ \A t \in Tokens : /\ Charge(plan[c], t) \in Nat
                              /\ chain.net # "solana" => Charge(plan[c], t) = plan[c].need[t]
<1>1. pc[c] \notin BeforeSend
  BY DEF IInv, SentOnce
<1>2. pc[c] # "idle"
  BY <1>1 DEF BeforeSend
<1>3. /\ WellFormed(plan[c].req) /\ plan[c].fee = plan[c].req.fee
      /\ plan[c].need = BuildWrapperApprovalInputs(plan[c].req)
  BY <1>2 DEF IInv, Planned, WellFormed
<1>4. plan[c] \in Plan
  BY Types DEF IInv
<1>5. \A t \in Tokens : /\ Charge(plan[c], t) \in Nat
                        /\ chain.net # "solana" => Charge(plan[c], t) = plan[c].need[t]
  BY <1>3, <1>4, Charged
<1> QED
  BY <1>1, <1>2, <1>3, <1>5

\* What the wallet has left next to the value of a call.
LEMMA SpareNat ==
  ASSUME IInv, NEW c \in Calls
  PROVE  /\ Excess(wallet[Native], SentValue(plan[c])) \in Nat
         /\ Excess(wallet[Native], SentValue(plan[c])) <= wallet[Native]
<1>1. wallet[Native] \in Nat /\ plan[c].need[Native] \in Nat /\ Word \in Nat \ {0}
  BY Types, ProoflessAssumption DEF IInv, TypeOK
<1>2. SentValue(plan[c]) \in Nat
  BY <1>1, Modulo DEF SentValue
<1> QED
  BY <1>1, <1>2 DEF Excess

\* A deposit that is turned down.
LEMMA RevertStep ==
  ASSUME IInv, NEW c \in Calls, NEW k \in 1 .. MaxSends, tx[c][k] = "pending",
         tx' = [tx EXCEPT ![c][k] = "reverted"], NEW use \in Nat, NEW spare \in Nat,
         spare <= wallet[Native], wallet' = [wallet EXCEPT ![Native] = @ - Burnt(use, spare)],
         UseEnergy(use), depositCost' = [depositCost EXCEPT ![c] = use],
         UNCHANGED <<chain, allowance, pc, plan, pending, utxos, fees, approvalCost>>
  PROVE  IInv'
<1>1. /\ \A d \in Calls, l \in 1 .. MaxSends :
           tx'[d][l] = IF d = c /\ l = k THEN "reverted" ELSE tx[d][l]
      /\ tx' \in [Calls -> [1 .. MaxSends -> Status]]
  BY DEF IInv, TypeOK, Status
<1>2. pc[c] \notin BeforeSend
  BY OutFacts
<1>3. TypeOK'
  <2>1. wallet' \in [Tokens -> Nat]
    <3>1. wallet \in [Tokens -> Nat] /\ Native \in Tokens
      BY ProoflessAssumption DEF IInv, TypeOK
    <3>2. wallet[Native] \in Nat /\ Burnt(use, spare) \in Nat /\ Burnt(use, spare) <= spare
      BY <3>1, BurntFacts DEF IInv
    <3> QED
      BY <3>1, <3>2
  <2>2. energy' \in Nat
    BY BurntFacts DEF IInv, UseEnergy
  <2>3. depositCost' \in [Calls -> Nat]
    BY DEF IInv, TypeOK
  <2> QED
    BY <1>1, <2>1, <2>2, <2>3 DEF IInv, TypeOK
<1>4. SentOnce'
  <2>1. \A d \in Calls, l \in 1 .. MaxSends : tx'[d][l] = "none" <=> tx[d][l] = "none"
    BY <1>1
  <2> QED
    BY <2>1 DEF IInv, SentOnce
<1>5. Planned'
  BY <1>1 DEF IInv, Planned
<1>6. Made'
  <2>1. \A d \in Calls, l \in 1 .. MaxSends : tx'[d][l] = "mined" <=> tx[d][l] = "mined"
    BY <1>1
  <2>2. \A d \in Calls, l \in 1 .. MaxSends : \A i : Utxo(d, l, i)' = Utxo(d, l, i)
    BY DEF Utxo, EncodedAmounts
  <2>3. \A d \in Calls, l \in 1 .. MaxSends : Fee(d, l)' = Fee(d, l)
    BY DEF Fee
  <2> QED
    BY <2>1, <2>2, <2>3 DEF IInv, Made
<1>7. \A d \in Calls : Alone(d)' <=> Alone(d)
  BY DEF Alone
<1>8. Awaited'
  <2>1. \A d \in Calls : Alone(d) /\ pending # {} => d # c
    BY DEF IInv, Awaited
  <2> QED
    BY <1>1, <1>7, <2>1 DEF IInv, Awaited
<1>9. Approved'
  BY <1>1, <1>7 DEF IInv, Approved
<1> QED
  BY <1>3, <1>4, <1>5, <1>6, <1>8, <1>9 DEF IInv

\* A deposit that is accepted.
LEMMA AcceptStep ==
  ASSUME IInv, NEW c \in Calls, NEW k \in 1 .. MaxSends, NEW use \in Nat,
         MineDeposit(c, k, use), Succeeds(plan[c], use)
  PROVE  IInv'
<1> DEFINE p == plan[c]
           s == p.spender
           burnt == Burnt(use, Excess(wallet[Native], SentValue(p)))
<1>1. /\ tx[c][k] = "pending" /\ tx' = [tx EXCEPT ![c][k] = "mined"]
      /\ wallet' = [t \in Tokens |-> wallet[t] - Charge(p, t) - (IF t = Native THEN burnt ELSE 0)]
      /\ UseEnergy(use) /\ depositCost' = [depositCost EXCEPT ![c] = use]
      /\ allowance' = IF chain.net = "solana" THEN allowance
                      ELSE [allowance EXCEPT ![s] =
                              [t \in Tokens |-> IF t = Native THEN @[t] ELSE @[t] - Charge(p, t)]]
      /\ utxos' = utxos \union MadeBy(c, k)
      /\ fees' = IF p.fee = 0 THEN fees ELSE fees \union {Fee(c, k)}
      /\ UNCHANGED <<chain, pc, plan, pending, approvalCost>>
  BY DEF MineDeposit, MadeBy, Utxo, Fee
<1>2. /\ \A d \in Calls, l \in 1 .. MaxSends :
           tx'[d][l] = IF d = c /\ l = k THEN "mined" ELSE tx[d][l]
      /\ tx' \in [Calls -> [1 .. MaxSends -> Status]]
  BY <1>1 DEF IInv, TypeOK, Status
<1>3. /\ p \in Plan /\ s \in Spenders /\ p.need \in [Tokens -> Nat]
      /\ p.before \in [Tokens -> Nat]
  BY Types DEF IInv
<1>4. \A t \in Tokens : Charge(p, t) \in Nat /\ (chain.net # "solana" => Charge(p, t) = p.need[t])
  BY <1>1, OutFacts
<1>5. pc[c] # "idle" /\ \A l \in 1 .. MaxSends : tx[c][l] # "mined"
  <2>1. \A l \in 1 .. MaxSends : tx[c][l] # "none" => l = k
    BY <1>1 DEF IInv, SentOnce
  <2> QED
    BY <1>1, <2>1, OutFacts
<1>6. ASSUME chain.net # "solana"
      PROVE  /\ allowance' \in [Spenders -> [Tokens -> Nat]]
             /\ \A t \in Pulled : allowance'[s][t] = allowance[s][t] - p.need[t]
  <2> DEFINE row == [t \in Tokens |-> IF t = Native THEN allowance[s][t]
                                      ELSE allowance[s][t] - Charge(p, t)]
  <2>1. allowance \in [Spenders -> [Tokens -> Nat]]
    BY DEF IInv, TypeOK
  <2>2. allowance' = [allowance EXCEPT ![s] = row]
    BY <1>1, <1>3, <1>6, <2>1
  <2>3. \A t \in Pulled : Charge(p, t) <= allowance[s][t]
    BY <1>6 DEF Succeeds, Accepts
  <2>4. row \in [Tokens -> Nat]
    BY <1>3, <1>4, <2>1, <2>3 DEF Pulled
  <2>5. \A t \in Pulled : row[t] = allowance[s][t] - p.need[t]
    BY <1>4, <1>6 DEF Pulled
  <2> HIDE DEF row, p, s
  <2> QED
    BY <1>3, <2>1, <2>2, <2>4, <2>5
<1>7. TypeOK'
  <2>1. wallet' \in [Tokens -> Nat]
    <3>1. /\ \A t \in Tokens : Charge(p, t) <= wallet[t]
          /\ Charge(p, Native) + Excess(use, energy) <= wallet[Native]
      BY DEF Succeeds, Accepts
    <3>2. wallet \in [Tokens -> Nat] /\ Native \in Tokens
      BY ProoflessAssumption DEF IInv, TypeOK
    <3>3. burnt \in Nat /\ burnt <= Excess(use, energy) /\ Excess(use, energy) \in Nat
      BY <1>1, <1>4, <3>2, SpareNat, BurntFacts DEF IInv
    <3> HIDE DEF p, burnt
    <3>4. ASSUME NEW t \in Tokens
          PROVE  wallet[t] - Charge(p, t) - (IF t = Native THEN burnt ELSE 0) \in Nat
      <4>1. Charge(p, t) \in Nat /\ wallet[t] \in Nat /\ Charge(p, t) <= wallet[t]
        BY <1>4, <3>1, <3>2
      <4>2. t = Native => Charge(p, t) + Excess(use, energy) <= wallet[t]
        BY <3>1
      <4> QED
        BY <3>3, <4>1, <4>2
    <3> QED
      BY <1>1, <3>4
  <2>2. allowance' \in [Spenders -> [Tokens -> Nat]]
    BY <1>1, <1>6 DEF IInv, TypeOK
  <2>3. energy' \in Nat
    BY <1>1, BurntFacts DEF IInv, UseEnergy
  <2>4. depositCost' \in [Calls -> Nat]
    BY <1>1 DEF IInv, TypeOK
  <2> QED
    BY <1>1, <1>2, <2>1, <2>2, <2>3, <2>4 DEF IInv, TypeOK
<1>8. SentOnce'
  <2>1. \A d \in Calls, l \in 1 .. MaxSends : tx'[d][l] = "none" <=> tx[d][l] = "none"
    BY <1>1, <1>2
  <2> QED
    BY <1>1, <2>1 DEF IInv, SentOnce
<1>9. Planned'
  <2>1. \A d \in Calls, l \in 1 .. MaxSends : tx'[d][l] = "none" <=> tx[d][l] = "none"
    BY <1>1, <1>2
  <2> QED
    BY <1>1, <2>1 DEF IInv, Planned
<1>10. Made'
  <2>1. \A d \in Calls, l \in 1 .. MaxSends : \A i : Utxo(d, l, i)' = Utxo(d, l, i)
    BY <1>1 DEF Utxo, EncodedAmounts
  <2>2. \A d \in Calls, l \in 1 .. MaxSends : Fee(d, l)' = Fee(d, l)
    BY <1>1 DEF Fee
  <2>3. \A d \in Calls, l \in 1 .. MaxSends :
          tx'[d][l] = "mined" <=> tx[d][l] = "mined" \/ (d = c /\ l = k)
    BY <1>2
  <2>4. ASSUME NEW u \in utxos'
        PROVE  \E d \in Calls, l \in 1 .. MaxSends :
                 tx'[d][l] = "mined" /\ \E i \in DOMAIN plan[d].req.toks : u = Utxo(d, l, i)
    <3>1. CASE u \in utxos
      BY <2>3, <3>1 DEF IInv, Made
    <3>2. CASE u \in MadeBy(c, k)
      BY <2>3, <3>2 DEF MadeBy
    <3> QED
      BY <1>1, <3>1, <3>2
  <2>5. ASSUME NEW f \in fees'
        PROVE  \E d \in Calls, l \in 1 .. MaxSends :
                 tx'[d][l] = "mined" /\ plan[d].fee # 0 /\ f = Fee(d, l)
    <3>1. CASE f \in fees
      BY <2>3, <3>1 DEF IInv, Made
    <3>2. CASE p.fee # 0 /\ f = Fee(c, k)
      BY <2>3, <3>2
    <3> QED
      BY <1>1, <3>1, <3>2
  <2>6. ASSUME NEW d \in Calls, NEW l \in 1 .. MaxSends, tx'[d][l] = "mined"
        PROVE  /\ \A i \in DOMAIN plan[d].req.toks : Utxo(d, l, i) \in utxos'
               /\ plan[d].fee # 0 => Fee(d, l) \in fees'
    <3>1. CASE tx[d][l] = "mined"
      BY <1>1, <3>1 DEF IInv, Made
    <3>2. CASE d = c /\ l = k
      BY <1>1, <3>2 DEF MadeBy
    <3> QED
      BY <2>3, <2>6, <3>1, <3>2
  <2> QED
    BY <1>1, <2>1, <2>2, <2>4, <2>5, <2>6 DEF Made
<1>11. \A d \in Calls : (Alone(d)' <=> Alone(d)) /\ (Alone(d) => d = c)
  BY <1>1, <1>5 DEF Alone
<1>12. Awaited'
  <2>1. Alone(c) => pending = {}
    BY <1>1 DEF IInv, Awaited
  <2>2. \A a \in pending : pc[a.call] # "idle"
    BY DEF IInv, Awaited
  <2>3. /\ chain.net # "tron" => pending = {}
        /\ chain.net = "solana" => \A d \in Calls : pc[d] \notin {"approve", "reset", "approving"}
    BY DEF IInv, Awaited
  <2> QED
    BY <1>1, <1>11, <2>1, <2>2, <2>3 DEF Awaited
<1>13. Approved'
  <2> SUFFICES ASSUME Alone(c), NEW t \in Pulled
               PROVE  allowance'[s][t] <= p.before[t]
    BY <1>1, <1>11 DEF Approved
  <2>1. \/ allowance[s][t] <= p.before[t]
        \/ allowance[s][t] = p.need[t] /\ chain.net # "solana"
    BY <1>5 DEF IInv, Approved
  <2>2. p.before[t] \in Nat /\ p.need[t] \in Nat /\ allowance[s][t] \in Nat
    BY <1>3 DEF IInv, TypeOK, Pulled
  <2>3. CASE chain.net = "solana"
    BY <1>1, <2>1, <2>3
  <2>4. CASE chain.net # "solana"
    <3>1. allowance'[s][t] = allowance[s][t] - p.need[t]
      BY <1>6, <2>4
    <3> HIDE DEF s, p
    <3> QED
      BY <2>1, <2>2, <3>1
  <2> QED
    BY <2>3, <2>4
<1> QED
  BY <1>7, <1>8, <1>9, <1>10, <1>12, <1>13 DEF IInv

LEMMA MineDepositStep ==
  ASSUME IInv, NEW c \in Calls, NEW k \in 1 .. MaxSends, NEW use \in Nat, MineDeposit(c, k, use)
  PROVE  IInv'
<1>1. CASE Succeeds(plan[c], use)
  BY <1>1, AcceptStep
<1>2. CASE ~Succeeds(plan[c], use)
  <2> DEFINE spare == Excess(wallet[Native], SentValue(plan[c]))
  <2>1. spare \in Nat /\ spare <= wallet[Native]
    BY SpareNat
  <2>2. /\ tx[c][k] = "pending" /\ tx' = [tx EXCEPT ![c][k] = "reverted"]
        /\ wallet' = [wallet EXCEPT ![Native] = @ - Burnt(use, spare)]
        /\ UseEnergy(use) /\ depositCost' = [depositCost EXCEPT ![c] = use]
        /\ UNCHANGED <<chain, allowance, pc, plan, pending, utxos, fees, approvalCost>>
    BY <1>2 DEF MineDeposit
  <2> HIDE DEF spare
  <2> QED
    BY <2>1, <2>2, RevertStep
<1> QED
  BY <1>1, <1>2

LEMMA NextInv == IInv /\ [Next]_prooflessVars => IInv'
<1> SUFFICES ASSUME IInv, [Next]_prooflessVars PROVE IInv'
  OBVIOUS
<1>1. ASSUME NEW c \in Calls, CallStep(c) PROVE IInv'
  <2>1. CASE \E r \in Requests : Begin(c, r)
    BY <2>1, BeginStep
  <2>2. CASE \E found \in BOOLEAN : PickRelay(c, found)
    BY <2>2, PickRelayStep
  <2>3. CASE NextApproval(c)
    BY <2>3, NextApprovalStep
  <2>4. CASE ResetApproval(c)
    BY <2>4, ApproveStep DEF ResetApproval
  <2>5. CASE ApproveTokenToHinkal(c)
    BY <2>5, ApproveStep DEF ApproveTokenToHinkal
  <2>6. CASE BroadcastApproval(c)
    BY <2>6, BroadcastStep
  <2>7. CASE WaitForTronErc20Approvals(c)
    BY <2>7, WaitStep
  <2>8. CASE SimulateTronTransaction(c)
    BY <2>8, SimulateStep
  <2>9. CASE \E use \in Costs, known \in BOOLEAN : CheckTronBalance(c, use, known)
    BY <2>9, CheckBalanceStep
  <2>10. CASE SendTransaction(c)
    BY <2>10, SendTransactionStep
  <2>11. CASE SignAndSendSolanaInstructions(c)
    BY <2>11, SignAndSendStep
  <2>12. CASE RequestFails(c)
    BY <2>12, RequestFailsStep
  <2> QED
    BY <1>1, <2>1, <2>2, <2>3, <2>4, <2>5, <2>6, <2>7, <2>8, <2>9, <2>10, <2>11, <2>12
    DEF CallStep
<1>2. ASSUME NEW a \in pending, NEW use \in Costs, MineApproval(a, use) PROVE IInv'
  BY <1>2, MineApprovalStep
<1>3. ASSUME NEW c \in Calls, NEW k \in 1 .. MaxSends, NEW use \in Costs \union {0},
             MineDeposit(c, k, use)
      PROVE  IInv'
  <2>1. use \in Nat
    BY ProoflessAssumption
  <2> QED
    BY <1>3, <2>1, MineDepositStep
<1>4. CASE UNCHANGED prooflessVars
  <2>1. \A c \in Calls : Alone(c)' <=> Alone(c)
    BY <1>4 DEF prooflessVars, Alone
  <2>2. \A c \in Calls, k \in 1 .. MaxSends : /\ \A i : Utxo(c, k, i)' = Utxo(c, k, i)
                                              /\ Fee(c, k)' = Fee(c, k)
    BY <1>4 DEF prooflessVars, Utxo, EncodedAmounts, Fee
  <2>3. TypeOK' /\ SentOnce' /\ Planned'
    BY <1>4 DEF prooflessVars, tronVars, IInv, TypeOK, SentOnce, Planned
  <2>4. Made'
    BY <1>4, <2>2 DEF prooflessVars, IInv, Made
  <2>5. Awaited' /\ Approved'
    BY <1>4, <2>1 DEF prooflessVars, IInv, Awaited, Approved
  <2> QED
    BY <2>3, <2>4, <2>5 DEF IInv
<1>5. CASE Regenerate
  <2>1. /\ UNCHANGED <<chain, wallet, allowance, pc, plan, pending, tx, utxos, fees,
                       approvalCost, depositCost>>
        /\ energy' \in Nat
    BY <1>5 DEF Regenerate, IInv, TypeOK
  <2>2. \A c \in Calls : Alone(c)' <=> Alone(c)
    BY <2>1 DEF Alone
  <2>3. \A c \in Calls, k \in 1 .. MaxSends : /\ \A i : Utxo(c, k, i)' = Utxo(c, k, i)
                                              /\ Fee(c, k)' = Fee(c, k)
    BY <2>1 DEF Utxo, EncodedAmounts, Fee
  <2>4. TypeOK' /\ SentOnce' /\ Planned'
    BY <2>1 DEF IInv, TypeOK, SentOnce, Planned
  <2>5. Made'
    BY <2>1, <2>3 DEF IInv, Made
  <2>6. Awaited' /\ Approved'
    BY <2>1, <2>2 DEF IInv, Awaited, Approved
  <2> QED
    BY <2>4, <2>5, <2>6 DEF IInv
<1> QED
  BY <1>1, <1>2, <1>3, <1>4, <1>5 DEF Next

LEMMA Invariance == Spec => []IInv
BY InitInv, NextInv, PTL DEF Spec

-----------------------------------------------------------------------------
(***************************************************************************)
(* The theorems.                                                           *)
(***************************************************************************)
\* The UTXOs of one transaction are as many as the request has amounts.
LEMMA MadeCount ==
  ASSUME IInv, NEW c \in Calls, NEW k \in 1 .. MaxSends, WellFormed(plan[c].req)
  PROVE  Cardinality(MadeBy(c, k)) = Len(plan[c].req.amts)
<1> DEFINE n == Len(plan[c].req.amts)
           f == [i \in 1 .. n |-> Utxo(c, k, i)]
<1>1. n \in Nat /\ DOMAIN plan[c].req.toks = 1 .. n
  BY Types, RequestTypes DEF IInv, WellFormed
<1>2. MadeBy(c, k) = {Utxo(c, k, i) : i \in 1 .. n}
  BY <1>1 DEF MadeBy
<1>3. \A i \in 1 .. n : Utxo(c, k, i).slot = i
  BY DEF Utxo
<1> HIDE DEF n
<1>4. f \in [1 .. n -> MadeBy(c, k)]
  BY <1>2
<1>5. \A i, j \in 1 .. n : f[i] = f[j] => i = j
  BY <1>3
<1>6. \A u \in MadeBy(c, k) : \E i \in 1 .. n : f[i] = u
  BY <1>2
<1> HIDE DEF f
<1>7. f \in Bijection(1 .. n, MadeBy(c, k))
  BY <1>4, <1>5, <1>6 DEF Bijection, Injection, Surjection, IsInjective
<1>8. ExistsBijection(1 .. n, MadeBy(c, k))
  BY <1>7 DEF ExistsBijection
<1>9. IsFiniteSet(1 .. n) /\ Cardinality(1 .. n) = n
  BY <1>1, FS_Interval
<1>10. Cardinality(MadeBy(c, k)) = n
  BY <1>8, <1>9, FS_Bijection
<1> QED
  BY <1>10 DEF n

\* At most one transaction of a deposit is mined, however often it was sent,
\* and it makes the UTXOs and the fee that were asked for.
THEOREM DepositedOnceAlways == Spec => []DepositedOnce
<1>1. IInv => DepositedOnce
  <2> SUFFICES ASSUME IInv, NEW c \in Calls, {u \in utxos : u.call = c} # {}
               PROVE  LET mine == {u \in utxos : u.call = c}
                          paid == {f \in fees : f.call = c}
                      IN  /\ Cardinality(mine) = Len(plan[c].req.amts)
                          /\ Fits(c) =>
                               {[slot |-> u.slot, key |-> u.key, tok |-> u.tok, amt |-> u.amt] : u \in mine}
                                 = Asked(c)
                          /\ \A u \in mine : u.amt <= plan[c].req.amts[u.slot]
                          /\ {f.amt : f \in paid} = IF plan[c].fee = 0 THEN {} ELSE {plan[c].fee}
                          /\ Cardinality(paid) <= 1
    BY DEF DepositedOnce
  <2> DEFINE mine == {u \in utxos : u.call = c}
             paid == {f \in fees : f.call = c}
             r == plan[c].req
  <2>1. \A d \in Calls, k \in 1 .. MaxSends : \A i : Utxo(d, k, i).call = d
    BY DEF Utxo
  <2>2. \A d \in Calls, k \in 1 .. MaxSends : Fee(d, k).call = d /\ Fee(d, k).amt = plan[d].fee
    BY DEF Fee
  <2>3. PICK k \in 1 .. MaxSends : tx[c][k] = "mined"
    BY <2>1 DEF IInv, Made
  <2>4. \A l \in 1 .. MaxSends : tx[c][l] = "mined" => l = k
    BY <2>3 DEF IInv, SentOnce
  <2>5. WellFormed(r) /\ r \in Request
    BY <2>3, OutFacts, Types DEF IInv
  <2>6. mine = MadeBy(c, k)
    <3>1. ASSUME NEW u \in mine PROVE u \in MadeBy(c, k)
      <4>1. PICK d \in Calls, l \in 1 .. MaxSends : /\ tx[d][l] = "mined"
                                                    /\ \E i \in DOMAIN plan[d].req.toks : u = Utxo(d, l, i)
        BY <3>1 DEF IInv, Made
      <4>2. d = c
        BY <2>1, <3>1, <4>1
      <4>3. l = k
        BY <2>4, <4>1, <4>2
      <4> QED
        BY <4>1, <4>2, <4>3 DEF MadeBy
    <3>2. ASSUME NEW u \in MadeBy(c, k) PROVE u \in mine
      BY <2>1, <2>3, <3>2 DEF IInv, Made, MadeBy
    <3> QED
      BY <3>1, <3>2
  <2>7. paid = IF plan[c].fee = 0 THEN {} ELSE {Fee(c, k)}
    <3>1. ASSUME NEW f \in paid PROVE plan[c].fee # 0 /\ f = Fee(c, k)
      <4>1. PICK d \in Calls, l \in 1 .. MaxSends :
              tx[d][l] = "mined" /\ plan[d].fee # 0 /\ f = Fee(d, l)
        BY <3>1 DEF IInv, Made
      <4>2. d = c
        BY <2>2, <3>1, <4>1
      <4> QED
        BY <2>4, <4>1, <4>2
    <3>2. plan[c].fee # 0 => Fee(c, k) \in paid
      BY <2>2, <2>3 DEF IInv, Made
    <3> QED
      BY <3>1, <3>2
  <2>8. \A i \in DOMAIN r.toks : /\ Utxo(c, k, i).slot = i /\ Utxo(c, k, i).key = r.keys[i]
                                 /\ Utxo(c, k, i).tok = r.toks[i]
                                 /\ Utxo(c, k, i).amt = EncodedAmounts(r)[i]
    BY DEF Utxo
  <2>9. DOMAIN r.toks = DOMAIN r.amts
    BY <2>5, RequestTypes DEF WellFormed
  <2>10. Cardinality(mine) = Len(plan[c].req.amts)
    BY <2>3, <2>5, <2>6, MadeCount
  <2>11. \A u \in mine : u.amt <= plan[c].req.amts[u.slot]
    BY <2>5, <2>6, <2>8, <2>9, Encoded DEF MadeBy
  <2>12. ASSUME Fits(c)
         PROVE  {[slot |-> u.slot, key |-> u.key, tok |-> u.tok, amt |-> u.amt] : u \in mine} = Asked(c)
    <3> DEFINE View(u) == [slot |-> u.slot, key |-> u.key, tok |-> u.tok, amt |-> u.amt]
               Ask(i) == [slot |-> i, key |-> r.keys[i], tok |-> r.toks[i], amt |-> r.amts[i]]
    <3>1. \A i \in DOMAIN r.toks : EncodedAmounts(r)[i] = r.amts[i]
      BY <2>5, <2>9, <2>12, Encoded DEF Fits
    <3>2. \A i \in DOMAIN r.toks : View(Utxo(c, k, i)) = Ask(i)
      BY <2>8, <3>1
    <3>3. Asked(c) = {Ask(i) : i \in DOMAIN r.toks}
      BY DEF Asked
    <3> HIDE DEF View, Ask, mine
    <3>4. {View(u) : u \in mine} = Asked(c)
      BY <2>6, <3>2, <3>3 DEF MadeBy
    <3> QED
      BY <3>4 DEF View
  <2>13. {f.amt : f \in paid} = IF plan[c].fee = 0 THEN {} ELSE {plan[c].fee}
    <3> HIDE DEF paid
    <3> QED
      BY <2>2, <2>7
  <2>14. Cardinality(paid) <= 1
    <3>1. Cardinality({}) = 0
      BY FS_EmptySet
    <3>2. Cardinality({Fee(c, k)}) = 1
      BY FS_Singleton
    <3> HIDE DEF paid
    <3> QED
      BY <2>7, <3>1, <3>2
  <2> QED
    BY <2>10, <2>11, <2>12, <2>13, <2>14
<1> QED
  BY <1>1, Invariance, PTL

\* A wallet that does nothing else keeps no allowance that it did not have.
THEOREM NoStandingAllowanceAlways == Spec => []NoStandingAllowance
<1>1. IInv => NoStandingAllowance
  <2> SUFFICES ASSUME IInv, NEW c \in Calls, NEW k \in 1 .. MaxSends, tx[c][k] = "mined", Alone(c),
                      NEW t \in Pulled
               PROVE  allowance[plan[c].spender][t] <= plan[c].before[t]
    BY DEF NoStandingAllowance
  <2>1. pc[c] # "idle"
    BY OutFacts
  <2> QED
    BY <2>1 DEF IInv, Approved
<1> QED
  BY <1>1, Invariance, PTL

-----------------------------------------------------------------------------
(***************************************************************************)
(* Why deposits are reverted.                                              *)
(***************************************************************************)
Out(c)   == \E k \in 1 .. MaxSends : tx[c][k] = "pending"
Mined(c) == \E k \in 1 .. MaxSends : tx[c][k] = "mined"
Begun    == {c \in Calls : pc[c] # "idle"}

\* What the Tron transactions of the calls needed, and so burnt at most.
Tolls == [c \in Calls |-> approvalCost[c] + depositCost[c]]

\* The most that a call can have taken out of the wallet.
Took(c, t) ==
  (IF Mined(c) THEN Charge(plan[c], t) ELSE 0) + (IF t = Native THEN Tolls[c] ELSE 0)

Spent(t) == SumFunctionOnSet([c \in Begun |-> Took(c, t)], Begun)

\* The wallet has at least what the calls left of its funds.
Paid == \A t \in Tokens : wallet[t] <= Funds[t] /\ Funds[t] <= wallet[t] + Spent(t)

\* Another call uses the allowance of t that c uses.
Competes(c, t) ==
  \E d \in Calls \ {c} : /\ pc[d] # "idle" /\ plan[c].spender = plan[d].spender
                         /\ plan[c].need[t] > 0 /\ plan[d].need[t] > 0

\* Call c is past the approval of t: on EVM once it was mined, on Tron once
\* the simulation has passed.
Passed(c, t) ==
  \/ chain.net = "evm" /\ pc[c] = "approve" /\ t \in plan[c].handled
  \/ pc[c] \in {"reset", "approving"} /\ t \in plan[c].handled \ {plan[c].tok}
  \/ chain.net # "solana" /\ (pc[c] \in {"balance", "send"} \/ Out(c))

Enough(c) ==
  \A t \in Pulled : Passed(c, t) =>
    plan[c].need[t] <= allowance[plan[c].spender][t] \/ Competes(c, t)

\* The wallet had what the call needs when it was simulated, and a Tron
\* wallet that does nothing else still has it, with the fee, once its balance
\* was checked.
Affordable(c) ==
  /\ \/ chain.net = "tron" /\ pc[c] \in {"balance", "send"}
     \/ chain.net # "evm" /\ Out(c)
     => \A t \in Tokens : Charge(plan[c], t) <= Funds[t]
  /\ chain.net = "tron" /\ Alone(c) /\ (pc[c] = "send" \/ Out(c)) =>
       plan[c].need[Native] + Excess(plan[c].covered, energy) <= wallet[Native]

\* Where a call is and what it is about.
OnItsWay(c) ==
  /\ pc[c] # "idle" => chain.net \in {"evm", "tron", "solana"}
  /\ pc[c] = "relay" => plan[c].handled = {}
  /\ pc[c] \in {"reset", "approving"} =>
       /\ chain.net = "evm" /\ plan[c].tok \in Pulled /\ plan[c].need[plan[c].tok] > 0
  /\ pc[c] \in {"simulate", "balance"} => chain.net = "tron"

\* Only Tron transactions need energy, a deposit once it is mined.
Tolled(c) ==
  /\ Tolls[c] # 0 => chain.net = "tron"
  /\ (\A k \in 1 .. MaxSends : tx[c][k] \in {"none", "pending"}) => depositCost[c] = 0

Excused(c) ==
  \/ Underestimated(c)
  \/ chain.net = "evm" /\ \E t \in Tokens : Charge(plan[c], t) > Funds[t]
  \/ Shares(c)

CallR(c) ==
  /\ OnItsWay(c) /\ Tolled(c) /\ Enough(c) /\ Affordable(c)
  /\ \A k \in 1 .. MaxSends : tx[c][k] = "reverted" => Excused(c)

\* Approvals that are on their way are what their calls need.
Broadcasts ==
  \A a \in pending :
    /\ a.tok \in Pulled /\ a.spender = plan[a.call].spender
    /\ a.amt = plan[a.call].need[a.tok] /\ a.amt > 0

RInv == IsFiniteSet(Begun) /\ Paid /\ Broadcasts /\ \A c \in Calls : CallR(c)

\* A sum grows with its terms and with its set.
LEMMA SumMono ==
  ASSUME NEW S, IsFiniteSet(S), NEW f, NEW g,
         \A x \in S : f[x] \in Nat /\ g[x] \in Nat /\ f[x] <= g[x]
  PROVE  SumFunctionOnSet(f, S) <= SumFunctionOnSet(g, S)
<1> DEFINE G == {s \in SUBSET S : SumFunctionOnSet(f, s) <= SumFunctionOnSet(g, s)}
<1>1. {} \in G
  BY SumEmpty
<1>2. ASSUME NEW s \in SUBSET S, s # {}, \A x \in s : s \ {x} \in G PROVE s \in G
  <2>1. PICK x \in s : TRUE
    BY <1>2
  <2>2. IsFiniteSet(s) /\ IsFiniteSet(s \ {x})
    BY FS_Subset
  <2>3. /\ SumFunctionOnSet(f, s) = f[x] + SumFunctionOnSet(f, s \ {x})
        /\ SumFunctionOnSet(g, s) = g[x] + SumFunctionOnSet(g, s \ {x})
    BY <2>1, <2>2, SumRemove
  <2>4. SumFunctionOnSet(f, s \ {x}) \in Nat /\ SumFunctionOnSet(g, s \ {x}) \in Nat
    BY <2>1, <2>2, SumNat
  <2>5. SumFunctionOnSet(f, s \ {x}) <= SumFunctionOnSet(g, s \ {x})
    BY <1>2, <2>1
  <2> QED
    BY <2>1, <2>3, <2>4, <2>5
<1>3. \A s \in SUBSET S : s \in G
  <2> HIDE DEF G
  <2> QED
    BY <1>1, <1>2, SubsetInduction
<1> QED
  BY <1>3

LEMMA SumGrows ==
  ASSUME NEW T, IsFiniteSet(T), NEW S \in SUBSET T, NEW f, NEW g,
         \A x \in T : g[x] \in Nat, \A x \in S : f[x] \in Nat /\ f[x] <= g[x]
  PROVE  SumFunctionOnSet(f, S) <= SumFunctionOnSet(g, T)
<1>1. IsFiniteSet(S) /\ IsFiniteSet(T \ S) /\ T = S \cup (T \ S) /\ S \cap (T \ S) = {}
  BY FS_Subset
<1>2. SumFunctionOnSet(g, T) = SumFunctionOnSet(g, S) + SumFunctionOnSet(g, T \ S)
  <2> DEFINE U == T \ S
  <2>1. IsFiniteSet(U) /\ T = S \cup U /\ S \cap U = {} /\ \A x \in S \cup U : g[x] \in Int
    BY <1>1
  <2> HIDE DEF U
  <2>2. SumFunctionOnSet(g, S \cup U) = SumFunctionOnSet(g, S) + SumFunctionOnSet(g, U)
    BY <1>1, <2>1, SumUnion
  <2> QED
    BY <2>1, <2>2 DEF U
<1>3. SumFunctionOnSet(f, S) <= SumFunctionOnSet(g, S)
  BY <1>1, SumMono
<1>4. /\ SumFunctionOnSet(f, S) \in Nat /\ SumFunctionOnSet(g, S) \in Nat
      /\ SumFunctionOnSet(g, T \ S) \in Nat
  BY <1>1, SumNat
<1> QED
  BY <1>2, <1>3, <1>4

\* Shares, of the state it is looked at in.
OthersIn(pcs, c) == {d \in Calls \ {c} : pcs[d] # "idle"}

UsesIn(plans, tolls, c, t) == plans[c].need[t] + IF t = Native THEN tolls[c] ELSE 0

OthersUse(pcs, plans, tolls, c, t) ==
  SumFunctionOnSet([d \in OthersIn(pcs, c) |-> UsesIn(plans, tolls, d, t)], OthersIn(pcs, c))

CompetesIn(pcs, plans, c, t) ==
  \E d \in OthersIn(pcs, c) : /\ plans[c].spender = plans[d].spender
                              /\ plans[c].need[t] > 0 /\ plans[d].need[t] > 0

SharesIn(pcs, plans, tolls, c) ==
  /\ OthersIn(pcs, c) # {}
  /\ \/ \E t \in Pulled : CompetesIn(pcs, plans, c, t)
     \/ \E t \in Tokens : UsesIn(plans, tolls, c, t) + OthersUse(pcs, plans, tolls, c, t) > Funds[t]

LEMMA SharesAre ==
  ASSUME NEW c \in Calls
  PROVE  /\ Shares(c) <=> SharesIn(pc, plan, Tolls, c)
         /\ \A t : Competes(c, t) <=> CompetesIn(pc, plan, c, t)
<1>1. \A d \in Calls : \A t : Uses(d, t) = UsesIn(plan, Tolls, d, t)
  BY DEF Uses, UsesIn, Tolls
<1>2. \A t : Competes(c, t) <=> CompetesIn(pc, plan, c, t)
  BY DEF Competes, CompetesIn, OthersIn
<1>3. Shares(c) <=> SharesIn(pc, plan, Tolls, c)
  <2> DEFINE O == OthersIn(pc, c)
  <2>1. O = {d \in Calls \ {c} : pc[d] # "idle"}
    BY DEF OthersIn
  <2>2. \A t : OthersUse(pc, plan, Tolls, c, t) = SumFunctionOnSet([d \in O |-> Uses(d, t)], O)
    <3>1. \A t : [d \in O |-> UsesIn(plan, Tolls, d, t)] = [d \in O |-> Uses(d, t)]
      BY <1>1, <2>1
    <3> QED
      BY <3>1 DEF OthersUse
  <2> HIDE DEF O
  <2>3. (\E t \in Pulled : CompetesIn(pc, plan, c, t)) <=>
        (\E d \in O, t \in Pulled :
           plan[c].spender = plan[d].spender /\ plan[c].need[t] > 0 /\ plan[d].need[t] > 0)
    BY DEF CompetesIn, O
  <2>4. Shares(c) <=>
          /\ O # {}
          /\ \/ \E d \in O, t \in Pulled :
                  plan[c].spender = plan[d].spender /\ plan[c].need[t] > 0 /\ plan[d].need[t] > 0
             \/ \E t \in Tokens : Uses(c, t) + SumFunctionOnSet([d \in O |-> Uses(d, t)], O) > Funds[t]
    BY <2>1 DEF Shares
  <2>5. SharesIn(pc, plan, Tolls, c) <=>
          /\ O # {}
          /\ \/ \E t \in Pulled : CompetesIn(pc, plan, c, t)
             \/ \E t \in Tokens :
                  UsesIn(plan, Tolls, c, t) + OthersUse(pc, plan, Tolls, c, t) > Funds[t]
    BY DEF SharesIn, O
  <2> QED
    BY <1>1, <2>2, <2>3, <2>4, <2>5
<1> QED
  BY <1>2, <1>3

\* The same of the next state.
LEMMA SharesAreNext ==
  ASSUME NEW c \in Calls
  PROVE  /\ Shares(c)' <=> SharesIn(pc', plan', Tolls', c)
         /\ \A t : Competes(c, t)' <=> CompetesIn(pc', plan', c, t)
<1>1. \A t : Competes(c, t)' <=> CompetesIn(pc', plan', c, t)
  BY DEF Competes, CompetesIn, OthersIn
<1>2. Shares(c)' <=> SharesIn(pc', plan', Tolls', c)
  <2> DEFINE O == OthersIn(pc', c)
             U(d, t) == UsesIn(plan', Tolls', d, t)
             V(d, t) == plan'[d].need[t]
                        + IF t = Native THEN approvalCost'[d] + depositCost'[d] ELSE 0
  <2>1. \A d \in Calls : \A t : V(d, t) = U(d, t)
    BY DEF UsesIn, Tolls
  <2>2. \A t : OthersUse(pc', plan', Tolls', c, t) = SumFunctionOnSet([d \in O |-> V(d, t)], O)
    <3>1. \A t : [d \in O |-> U(d, t)] = [d \in O |-> V(d, t)]
      BY <2>1 DEF OthersIn
    <3> QED
      BY <3>1 DEF OthersUse
  <2>3. (\E t \in Pulled : CompetesIn(pc', plan', c, t)) <=>
        (\E d \in O, t \in Pulled :
           plan'[c].spender = plan'[d].spender /\ plan'[c].need[t] > 0 /\ plan'[d].need[t] > 0)
    BY DEF CompetesIn
  <2>4. Shares(c)' <=>
          /\ O # {}
          /\ \/ \E d \in O, t \in Pulled :
                  plan'[c].spender = plan'[d].spender /\ plan'[c].need[t] > 0 /\ plan'[d].need[t] > 0
             \/ \E t \in Tokens : V(c, t) + SumFunctionOnSet([d \in O |-> V(d, t)], O) > Funds[t]
    BY DEF Shares, OthersIn, Uses
  <2>5. SharesIn(pc', plan', Tolls', c) <=>
          /\ O # {}
          /\ \/ \E t \in Pulled : CompetesIn(pc', plan', c, t)
             \/ \E t \in Tokens : U(c, t) + OthersUse(pc', plan', Tolls', c, t) > Funds[t]
    BY DEF SharesIn
  <2> HIDE DEF O, U, V
  <2> QED
    BY <2>1, <2>2, <2>3, <2>4, <2>5
<1> QED
  BY <1>1, <1>2

\* Calls that go on: who has begun stays, with its spender and approvals, and
\* what its transactions needed only grows.
Grows(pcs, plans, tolls, pcs2, plans2, tolls2) ==
  \A d \in Calls : pcs[d] # "idle" =>
    /\ pcs2[d] # "idle" /\ plans2[d].spender = plans[d].spender
    /\ plans2[d].need = plans[d].need /\ tolls[d] <= tolls2[d]

LEMMA UsesNat ==
  ASSUME NEW plans \in [Calls -> Plan], NEW tolls \in [Calls -> Nat], NEW d \in Calls,
         NEW t \in Tokens
  PROVE  UsesIn(plans, tolls, d, t) \in Nat
<1>1. plans[d] \in Plan /\ tolls[d] \in Nat
  OBVIOUS
<1>2. plans[d].need[t] \in Nat
  BY <1>1, PlanTypes
<1> QED
  BY <1>1, <1>2 DEF UsesIn

LEMMA UsesGrow ==
  ASSUME NEW plans \in [Calls -> Plan], NEW plans2 \in [Calls -> Plan],
         NEW tolls \in [Calls -> Nat], NEW tolls2 \in [Calls -> Nat], NEW d \in Calls,
         plans2[d].need = plans[d].need, tolls[d] <= tolls2[d], NEW t \in Tokens
  PROVE  /\ UsesIn(plans, tolls, d, t) \in Nat /\ UsesIn(plans2, tolls2, d, t) \in Nat
         /\ UsesIn(plans, tolls, d, t) <= UsesIn(plans2, tolls2, d, t)
<1>1. plans[d] \in Plan /\ plans2[d] \in Plan /\ tolls[d] \in Nat /\ tolls2[d] \in Nat
  OBVIOUS
<1>2. plans[d].need[t] \in Nat /\ plans2[d].need[t] = plans[d].need[t]
  BY <1>1, PlanTypes
<1> QED
  BY <1>1, <1>2 DEF UsesIn

LEMMA CompetesGrows ==
  ASSUME NEW pcs, NEW plans, NEW tolls, NEW pcs2, NEW plans2, NEW tolls2,
         Grows(pcs, plans, tolls, pcs2, plans2, tolls2),
         NEW c \in Calls, pcs[c] # "idle", NEW t, CompetesIn(pcs, plans, c, t)
  PROVE  CompetesIn(pcs2, plans2, c, t)
BY DEF Grows, CompetesIn, OthersIn

LEMMA SharesGrow ==
  ASSUME NEW pcs, NEW plans \in [Calls -> Plan], NEW tolls \in [Calls -> Nat],
         NEW pcs2, NEW plans2 \in [Calls -> Plan], NEW tolls2 \in [Calls -> Nat],
         Grows(pcs, plans, tolls, pcs2, plans2, tolls2), NEW c \in Calls, pcs[c] # "idle",
         IsFiniteSet(OthersIn(pcs2, c)), SharesIn(pcs, plans, tolls, c)
  PROVE  SharesIn(pcs2, plans2, tolls2, c)
<1> DEFINE O == OthersIn(pcs, c)
           O2 == OthersIn(pcs2, c)
<1>1. O \subseteq O2 /\ O # {}
  BY DEF Grows, OthersIn, SharesIn
<1>2. CASE \E t \in Pulled : CompetesIn(pcs, plans, c, t)
  BY <1>1, <1>2, CompetesGrows DEF SharesIn
<1>3. CASE \E t \in Tokens : UsesIn(plans, tolls, c, t) + OthersUse(pcs, plans, tolls, c, t) > Funds[t]
  <2>1. PICK t \in Tokens : UsesIn(plans, tolls, c, t) + OthersUse(pcs, plans, tolls, c, t) > Funds[t]
    BY <1>3
  <2> DEFINE f == [d \in O |-> UsesIn(plans, tolls, d, t)]
             g == [d \in O2 |-> UsesIn(plans2, tolls2, d, t)]
  <2>2. \A d \in O2 : g[d] \in Nat
    BY UsesNat DEF OthersIn
  <2>3. \A d \in O : f[d] \in Nat /\ f[d] <= g[d]
    BY <1>1, UsesGrow DEF Grows, OthersIn
  <2>4. OthersUse(pcs, plans, tolls, c, t) = SumFunctionOnSet(f, O)
    BY DEF OthersUse
  <2>5. OthersUse(pcs2, plans2, tolls2, c, t) = SumFunctionOnSet(g, O2)
    BY DEF OthersUse
  <2>6. IsFiniteSet(O)
    BY <1>1, FS_Subset
  <2> HIDE DEF f, g, O, O2
  <2>7. SumFunctionOnSet(f, O) <= SumFunctionOnSet(g, O2)
    BY <1>1, <2>2, <2>3, SumGrows DEF O2
  <2>8. SumFunctionOnSet(f, O) \in Nat /\ SumFunctionOnSet(g, O2) \in Nat
    BY <2>2, <2>3, <2>6, SumNat DEF O2
  <2>9. /\ UsesIn(plans, tolls, c, t) \in Nat /\ UsesIn(plans2, tolls2, c, t) \in Nat
        /\ UsesIn(plans, tolls, c, t) <= UsesIn(plans2, tolls2, c, t)
    BY UsesGrow DEF Grows
  <2>10. Funds[t] \in Int
    BY ProoflessAssumption
  <2>11. UsesIn(plans2, tolls2, c, t) + OthersUse(pcs2, plans2, tolls2, c, t) > Funds[t]
    BY <2>1, <2>4, <2>5, <2>7, <2>8, <2>9, <2>10
  <2> QED
    BY <1>1, <2>11 DEF SharesIn, O2
<1> QED
  BY <1>2, <1>3 DEF SharesIn

\* A step of call c, or of the chain for it.
StepOf(c) ==
  /\ chain' = chain
  /\ \A d \in Calls \ {c} :
       /\ pc'[d] = pc[d] /\ plan'[d] = plan[d] /\ tx'[d] = tx[d]
       /\ approvalCost'[d] = approvalCost[d] /\ depositCost'[d] = depositCost[d]
  /\ pc'[c] # "idle"
  /\ pc[c] # "idle" => plan'[c].spender = plan[c].spender /\ plan'[c].need = plan[c].need
  /\ Tolls[c] <= Tolls'[c]
  /\ \A s \in Spenders, t \in Pulled : allowance'[s][t] # allowance[s][t] =>
       s = plan'[c].spender /\ plan'[c].need[t] > 0

LEMMA TollsNat ==
  /\ IInv => Tolls \in [Calls -> Nat]
  /\ IInv' => Tolls' \in [Calls -> Nat]
BY DEF IInv, TypeOK, Tolls

LEMMA StepGrows ==
  ASSUME IInv, NEW c \in Calls, StepOf(c)
  PROVE  Grows(pc, plan, Tolls, pc', plan', Tolls')
<1>1. ASSUME NEW d \in Calls, pc[d] # "idle"
      PROVE  /\ pc'[d] # "idle" /\ plan'[d].spender = plan[d].spender
             /\ plan'[d].need = plan[d].need /\ Tolls[d] <= Tolls'[d]
  <2>1. CASE d = c
    BY <1>1, <2>1 DEF StepOf
  <2>2. CASE d # c
    <3>1. plan'[d] = plan[d] /\ pc'[d] = pc[d]
      BY <2>2 DEF StepOf
    <3>2. Tolls'[d] = Tolls[d] /\ Tolls[d] \in Nat
      BY <2>2, TollsNat DEF StepOf, Tolls
    <3> QED
      BY <1>1, <3>1, <3>2
  <2> QED
    BY <2>1, <2>2
<1> QED
  BY <1>1 DEF Grows

LEMMA StepBegun ==
  ASSUME NEW c \in Calls, StepOf(c), IsFiniteSet(Begun)
  PROVE  IsFiniteSet(Begun') /\ Begun' = Begun \cup {c}
<1>1. IsFiniteSet(Begun \cup {c})
  BY FS_AddElement
<1>2. Begun' = Begun \cup {c}
  BY DEF StepOf, Begun
<1> QED
  BY <1>1, <1>2

LEMMA OthersFinite ==
  ASSUME NEW c, IsFiniteSet(Begun)
  PROVE  IsFiniteSet(OthersIn(pc, c))
<1>1. OthersIn(pc, c) \subseteq Begun
  BY DEF OthersIn, Begun
<1> QED
  BY <1>1, FS_Subset

\* The same of the next state.
LEMMA OthersFiniteNext ==
  ASSUME NEW c, IsFiniteSet(Begun')
  PROVE  IsFiniteSet(OthersIn(pc', c))
<1>1. OthersIn(pc', c) \subseteq Begun'
  BY DEF OthersIn, Begun
<1> QED
  BY <1>1, FS_Subset

LEMMA ChargeSame ==
  ASSUME chain' = chain, NEW d \in Calls, plan'[d].req = plan[d].req, plan'[d].fee = plan[d].fee
  PROVE  \A t : Charge(plan[d], t)' = Charge(plan[d], t)
BY DEF Charge, EncodedAmounts

\* An excuse stays one.
LEMMA ExcuseKept ==
  ASSUME IInv, IInv', NEW c \in Calls, StepOf(c), IsFiniteSet(Begun), NEW d \in Calls,
         pc[d] # "idle", plan'[d] = plan[d], depositCost'[d] = depositCost[d], Excused(d)
  PROVE  Excused(d)'
<1>1. CASE Underestimated(d)
  BY <1>1 DEF Excused, Underestimated
<1>2. CASE chain.net = "evm" /\ \E t \in Tokens : Charge(plan[d], t) > Funds[t]
  <2>1. chain' = chain
    BY DEF StepOf
  <2>2. \A t : Charge(plan[d], t)' = Charge(plan[d], t)
    BY <2>1, ChargeSame
  <2> QED
    BY <1>2, <2>1, <2>2 DEF Excused
<1>3. CASE Shares(d)
  <2>1. SharesIn(pc, plan, Tolls, d)
    BY <1>3, SharesAre
  <2>2. IsFiniteSet(OthersIn(pc', d))
    BY StepBegun, OthersFiniteNext
  <2>3. plan \in [Calls -> Plan] /\ plan' \in [Calls -> Plan]
    BY DEF IInv, TypeOK
  <2>4. SharesIn(pc', plan', Tolls', d)
    BY <2>1, <2>2, <2>3, StepGrows, TollsNat, SharesGrow
  <2> QED
    BY <2>4, SharesAreNext DEF Excused
<1> QED
  BY <1>1, <1>2, <1>3 DEF Excused

LEMMA CompetesKept ==
  ASSUME IInv, NEW c \in Calls, StepOf(c), NEW d \in Calls, pc[d] # "idle", NEW t, Competes(d, t)
  PROVE  Competes(d, t)'
<1>1. Grows(pc, plan, Tolls, pc', plan', Tolls') /\ CompetesIn(pc, plan, d, t)
  BY StepGrows, SharesAre
<1>2. CompetesIn(pc', plan', d, t)
  BY <1>1, CompetesGrows
<1> QED
  BY <1>2, SharesAreNext

\* What a step of c leaves to another call.
LEMMA OtherKeeps ==
  ASSUME IInv, IInv', NEW c \in Calls, StepOf(c), IsFiniteSet(Begun), NEW d \in Calls \ {c}, CallR(d)
  PROVE  CallR(d)'
<1>1. /\ chain' = chain /\ pc'[d] = pc[d] /\ plan'[d] = plan[d] /\ tx'[d] = tx[d]
      /\ depositCost'[d] = depositCost[d]
  BY DEF StepOf
<1>2. \A t : Charge(plan[d], t)' = Charge(plan[d], t)
  BY <1>1, ChargeSame
<1>3. Out(d)' <=> Out(d)
  BY <1>1 DEF Out
<1>4. ~Alone(d)'
  BY DEF StepOf, Alone
<1>5. OnItsWay(d)'
  BY <1>1 DEF CallR, OnItsWay
<1>6. Tolled(d)'
  <2>1. Tolls'[d] = Tolls[d]
    BY DEF StepOf, Tolls
  <2> QED
    BY <1>1, <2>1 DEF CallR, Tolled
<1>7. Affordable(d)'
  BY <1>1, <1>2, <1>3, <1>4 DEF CallR, Affordable
<1>8. Enough(d)'
  <2> SUFFICES ASSUME NEW t \in Pulled, Passed(d, t)'
               PROVE  plan[d].need[t] <= allowance'[plan[d].spender][t] \/ Competes(d, t)'
    BY <1>1 DEF Enough
  <2>1. Passed(d, t)
    BY <1>1, <1>3 DEF Passed
  <2>2. plan[d].need[t] <= allowance[plan[d].spender][t] \/ Competes(d, t)
    BY <2>1 DEF CallR, Enough
  <2>3. pc[d] # "idle"
    <3>1. CASE Out(d)
      BY <3>1, OutFacts DEF Out
    <3>2. CASE ~Out(d)
      BY <2>1, <3>2 DEF Passed
    <3> QED
      BY <3>1, <3>2
  <2>4. CASE Competes(d, t)
    BY <2>3, <2>4, CompetesKept
  <2>5. CASE allowance'[plan[d].spender][t] = allowance[plan[d].spender][t]
    BY <2>2, <2>4, <2>5
  <2>6. CASE allowance'[plan[d].spender][t] # allowance[plan[d].spender][t]
    <3>1. plan[d].spender \in Spenders /\ plan[d].need[t] \in Nat /\ t \in Tokens
      BY Types DEF IInv, Pulled
    <3>2. plan[d].spender = plan'[c].spender /\ plan'[c].need[t] > 0 /\ pc'[c] # "idle"
      BY <2>6, <3>1 DEF StepOf
    <3>3. allowance'[plan[d].spender][t] \in Nat
      BY <3>1 DEF IInv, TypeOK
    <3>4. CASE plan[d].need[t] = 0
      BY <3>3, <3>4
    <3>5. CASE plan[d].need[t] > 0
      BY <1>1, <3>2, <3>5 DEF Competes
    <3> QED
      BY <3>1, <3>4, <3>5
  <2> QED
    BY <2>5, <2>6
<1>9. ASSUME NEW k \in 1 .. MaxSends, tx'[d][k] = "reverted" PROVE Excused(d)'
  <2>1. tx[d][k] = "reverted"
    BY <1>1, <1>9
  <2>2. Excused(d) /\ pc[d] # "idle"
    BY <2>1, OutFacts DEF CallR
  <2> QED
    BY <1>1, <2>2, ExcuseKept
<1> QED
  BY <1>5, <1>6, <1>7, <1>8, <1>9 DEF CallR

LEMMA StepR ==
  ASSUME IInv, IInv', RInv, NEW c \in Calls, StepOf(c), CallR(c)', Paid', Broadcasts'
  PROVE  RInv'
<1>1. IsFiniteSet(Begun')
  BY StepBegun DEF RInv
<1>2. \A d \in Calls \ {c} : CallR(d)'
  BY OtherKeeps DEF RInv
<1>3. \A d \in Calls : CallR(d)'
  BY <1>2
<1> QED
  BY <1>1, <1>3 DEF RInv

\* What is on its way stays as it was broadcast.
LEMMA BroadcastsKeep ==
  ASSUME IInv, RInv, NEW c \in Calls, StepOf(c), NEW a \in pending
  PROVE  /\ a.tok \in Pulled /\ a.spender = plan'[a.call].spender
         /\ a.amt = plan'[a.call].need[a.tok] /\ a.amt > 0
<1>1. /\ a.tok \in Pulled /\ a.spender = plan[a.call].spender
      /\ a.amt = plan[a.call].need[a.tok] /\ a.amt > 0
  BY DEF RInv, Broadcasts
<1>2. a.call \in Calls /\ pc[a.call] # "idle"
  BY DEF IInv, Awaited, TypeOK
<1>3. plan'[a.call].spender = plan[a.call].spender /\ plan'[a.call].need = plan[a.call].need
  BY <1>2, StepGrows DEF Grows
<1> QED
  BY <1>1, <1>3

LEMMA TookNat ==
  ASSUME IInv, NEW c \in Calls, NEW t \in Tokens
  PROVE  Took(c, t) \in Nat
<1>1. Mined(c) => Charge(plan[c], t) \in Nat
  BY OutFacts DEF Mined
<1>2. Tolls[c] \in Nat
  BY TollsNat
<1> QED
  BY <1>1, <1>2 DEF Took

LEMMA SpentNat ==
  ASSUME IInv, RInv, NEW t \in Tokens
  PROVE  Spent(t) \in Nat
<1> DEFINE f == [c \in Begun |-> Took(c, t)]
<1>1. \A c \in Begun : f[c] \in Nat
  BY TookNat DEF Begun
<1>2. Spent(t) = SumFunctionOnSet(f, Begun)
  BY DEF Spent
<1> HIDE DEF f
<1> QED
  BY <1>1, <1>2, SumNat DEF RInv

\* A step of c that takes no more from the wallet than c accounts for.
LEMMA PaidStep ==
  ASSUME IInv, RInv, NEW c \in Calls, StepOf(c),
         \A t \in Tokens : /\ wallet'[t] \in Nat /\ Took(c, t)' \in Nat /\ wallet'[t] <= wallet[t]
                           /\ wallet[t] + Took(c, t) <= wallet'[t] + Took(c, t)'
  PROVE  Paid'
<1> SUFFICES ASSUME NEW t \in Tokens
             PROVE  wallet'[t] <= Funds[t] /\ Funds[t] <= wallet'[t] + Spent(t)'
  BY DEF Paid
<1> DEFINE f == [d \in Begun |-> Took(d, t)]
           N == Begun \cup {c}
           O == Begun \ {c}
           g == [d \in N |-> Took(d, t)']
<1>1. \A d \in O : Took(d, t)' = Took(d, t) /\ d \in Calls
  <2> SUFFICES ASSUME NEW d \in Calls \ {c} PROVE Took(d, t)' = Took(d, t)
    BY DEF Begun
  <2>1. /\ chain' = chain /\ plan'[d] = plan[d] /\ tx'[d] = tx[d]
        /\ approvalCost'[d] = approvalCost[d] /\ depositCost'[d] = depositCost[d]
    BY DEF StepOf
  <2>2. Charge(plan[d], t)' = Charge(plan[d], t)
    BY <2>1, ChargeSame
  <2>3. (Mined(d)' <=> Mined(d)) /\ Tolls'[d] = Tolls[d]
    BY <2>1 DEF Mined, Tolls
  <2> QED
    BY <2>2, <2>3 DEF Took
<1>2. IsFiniteSet(Begun) /\ IsFiniteSet(N) /\ IsFiniteSet(O) /\ Begun' = N
  <2>1. IsFiniteSet(O)
    BY FS_Subset DEF RInv
  <2> QED
    BY <2>1, StepBegun DEF RInv
<1>3. Spent(t) = SumFunctionOnSet(f, Begun) /\ Spent(t)' = SumFunctionOnSet(g, N)
  BY <1>2 DEF Spent
<1>4. /\ \A d \in Begun : f[d] \in Nat
      /\ \A d \in N : g[d] \in Nat
      /\ \A d \in O : f[d] = g[d]
      /\ g[c] = Took(c, t)' /\ (c \in Begun => f[c] = Took(c, t))
  BY <1>1, TookNat DEF Begun
<1>5. c \in N /\ N \ {c} = O /\ (c \notin Begun => O = Begun)
  OBVIOUS
<1> HIDE DEF f, g, N, O
<1>6. SumFunctionOnSet(g, N) = g[c] + SumFunctionOnSet(g, O)
  <2>1. \A d \in N : g[d] \in Int
    BY <1>4
  <2> QED
    BY <1>2, <1>5, <2>1, SumRemove
<1>7. SumFunctionOnSet(g, O) = SumFunctionOnSet(f, O)
  BY <1>2, <1>4, SumEq
<1>8. SumFunctionOnSet(f, Begun) <= Took(c, t) + SumFunctionOnSet(f, O)
  <2>0. SumFunctionOnSet(f, O) \in Nat /\ Took(c, t) \in Nat
    <3>1. \A d \in O : f[d] \in Nat
      BY <1>4 DEF O
    <3> QED
      BY <1>2, <3>1, SumNat, TookNat
  <2>1. CASE c \in Begun
    <3>1. Begun \ {c} = O /\ \A d \in Begun : f[d] \in Int
      BY <1>4 DEF O
    <3>2. SumFunctionOnSet(f, Begun) = f[c] + SumFunctionOnSet(f, O)
      BY <1>2, <2>1, <3>1, SumRemove
    <3> QED
      BY <1>4, <2>0, <2>1, <3>2
  <2>2. CASE c \notin Begun
    BY <1>5, <2>0, <2>2
  <2> QED
    BY <2>1, <2>2
<1>9. SumFunctionOnSet(f, O) \in Nat /\ SumFunctionOnSet(f, Begun) \in Nat /\ Took(c, t) \in Nat
  <2>1. \A d \in O : f[d] \in Nat
    BY <1>4 DEF O
  <2> QED
    BY <1>2, <1>4, <2>1, SumNat, TookNat
<1>10. /\ wallet[t] <= Funds[t] /\ Funds[t] <= wallet[t] + Spent(t)
       /\ wallet[t] \in Nat /\ Funds[t] \in Nat
  BY ProoflessAssumption DEF RInv, Paid, IInv, TypeOK
<1>11. /\ wallet'[t] \in Nat /\ Took(c, t)' \in Nat /\ wallet'[t] <= wallet[t]
       /\ wallet[t] + Took(c, t) <= wallet'[t] + Took(c, t)'
  OBVIOUS
<1>12. Spent(t)' = Took(c, t)' + SumFunctionOnSet(f, O)
  BY <1>3, <1>4, <1>6, <1>7
<1> QED
  BY <1>3, <1>8, <1>9, <1>10, <1>11, <1>12

\* A step of a call that has sent nothing so far.
LEMMA OwnStep ==
  ASSUME IInv, IInv', RInv, NEW c \in Calls, StepOf(c), pc[c] \in BeforeSend, wallet' = wallet,
         UNCHANGED tronVars, \A k \in 1 .. MaxSends : tx'[c][k] \in {"none", "pending"},
         OnItsWay(c)', Enough(c)', Affordable(c)', Broadcasts'
  PROVE  RInv'
<1>1. \A k \in 1 .. MaxSends : tx[c][k] = "none"
  BY DEF IInv, SentOnce
<1>2. ~Mined(c) /\ ~Mined(c)' /\ Tolls'[c] = Tolls[c]
  BY <1>1 DEF Mined, Tolls, tronVars
<1>3. Paid'
  <2>1. \A t \in Tokens : Took(c, t)' = Took(c, t) /\ Took(c, t) \in Nat
    BY <1>2, TookNat DEF Took
  <2>2. \A t \in Tokens : wallet[t] \in Nat
    BY DEF IInv, TypeOK
  <2> QED
    BY <2>1, <2>2, PaidStep
<1>4. Tolled(c)'
  <2>1. depositCost[c] = 0 /\ (Tolls[c] # 0 => chain.net = "tron")
    BY <1>1 DEF RInv, CallR, Tolled
  <2>2. chain' = chain /\ depositCost' = depositCost
    BY DEF StepOf, tronVars
  <2> QED
    BY <1>2, <2>1, <2>2 DEF Tolled
<1>5. CallR(c)'
  BY <1>4 DEF CallR
<1> QED
  BY <1>3, <1>5, StepR

\* A step of a call that goes on is one.
LEMMA GoingOn ==
  ASSUME IInv, NEW c \in Calls, NEW l, NEW p, GoesOn(c, l, p),
         UNCHANGED allowance, \A d \in Calls \ {c} : tx'[d] = tx[d]
  PROVE  StepOf(c)
<1>1. /\ \A d \in Calls \ {c} : pc'[d] = pc[d] /\ plan'[d] = plan[d]
      /\ pc'[c] = l /\ plan'[c] = p
  BY GoesOnFacts
<1>2. l # "idle" /\ p.spender = plan[c].spender /\ p.need = plan[c].need /\ chain' = chain
  BY DEF GoesOn
<1>3. approvalCost' = approvalCost /\ depositCost' = depositCost
  BY DEF GoesOn, tronVars
<1>4. Tolls[c] <= Tolls'[c]
  <2>1. Tolls'[c] = Tolls[c] /\ Tolls[c] \in Nat
    BY <1>3, TollsNat DEF Tolls
  <2> QED
    BY <2>1
<1> QED
  BY <1>1, <1>2, <1>3, <1>4 DEF StepOf

\* The same for a step that changes nothing but where the call is and its
\* local variables.
LEMMA QuietR ==
  ASSUME IInv, IInv', RInv, NEW c \in Calls, NEW l, NEW p, GoesOn(c, l, p),
         UNCHANGED <<allowance, pending, tx>>,
         OnItsWay(c)', Enough(c)', Affordable(c)'
  PROVE  RInv'
<1>1. StepOf(c)
  BY GoingOn
<1>2. pc[c] \in BeforeSend /\ wallet' = wallet /\ UNCHANGED tronVars
  BY DEF GoesOn
<1>3. \A k \in 1 .. MaxSends : tx'[c][k] \in {"none", "pending"}
  BY GoesOnFacts
<1>4. Broadcasts'
  BY <1>1, BroadcastsKeep DEF Broadcasts
<1> QED
  BY <1>1, <1>2, <1>3, <1>4, OwnStep

\* A call that is over without a transaction.
LEMMA EndedR ==
  ASSUME IInv, IInv', RInv, NEW c \in Calls, NEW p, GoesOn(c, "failed", p),
         UNCHANGED <<allowance, pending, tx>>
  PROVE  RInv'
<1>1. pc'[c] = "failed" /\ ~Out(c)'
  BY GoesOnFacts DEF Out
<1>2. OnItsWay(c) /\ chain' = chain /\ pc[c] # "idle"
  BY DEF RInv, CallR, GoesOn
<1>3. OnItsWay(c)'
  BY <1>1, <1>2 DEF OnItsWay
<1>4. Enough(c)' /\ Affordable(c)'
  BY <1>1 DEF Enough, Affordable, Passed
<1> QED
  BY <1>3, <1>4, QuietR

\* The wallet never has more than it started with.
LEMMA WalletBound ==
  ASSUME IInv, RInv, NEW t \in Tokens
  PROVE  wallet[t] \in Nat /\ wallet[t] <= Funds[t] /\ Funds[t] \in Nat
BY ProoflessAssumption DEF IInv, TypeOK, RInv, Paid

\* What a call that goes on will be charged.
LEMMA CallCharge ==
  ASSUME IInv, NEW c \in Calls, pc[c] \in BeforeSend \ {"idle"}, NEW t \in Tokens
  PROVE  /\ Charge(plan[c], t) \in Nat
         /\ chain.net # "solana" => Charge(plan[c], t) = plan[c].need[t]
<1>1. /\ WellFormed(plan[c].req) /\ plan[c].fee = plan[c].req.fee
      /\ plan[c].need = BuildWrapperApprovalInputs(plan[c].req)
  BY DEF IInv, Planned, WellFormed, BeforeSend
<1>2. plan[c] \in Plan
  BY Types DEF IInv
<1> QED
  BY <1>1, <1>2, Charged

LEMMA CallFacts ==
  ASSUME RInv, NEW c \in Calls
  PROVE  OnItsWay(c) /\ Enough(c) /\ Affordable(c)
BY DEF RInv, CallR

-----------------------------------------------------------------------------
LEMMA EnterR ==
  ASSUME IInv, IInv', RInv, NEW c \in Calls, NEW r \in Request, NEW valid \in BOOLEAN,
         NEW s \in Spenders, NEW label \in {"relay", "approve", "send", "returned"},
         chain.net \in {"evm", "tron", "solana"}, label = "send" => chain.net = "solana",
         Enter(c, r, valid, s, label)
  PROVE  RInv'
<1> DEFINE q == [NoPlan EXCEPT !.req = r, !.fee = r.fee, !.spender = s, !.before = allowance[s]]
           p == IF valid THEN [q EXCEPT !.need = BuildWrapperApprovalInputs(r)]
                         ELSE [q EXCEPT !.err = "invalid"]
           l == IF valid THEN label ELSE "failed"
<1>1. /\ pc[c] = "idle" /\ pc' = [pc EXCEPT ![c] = l] /\ plan' = [plan EXCEPT ![c] = p]
      /\ UNCHANGED <<chain, wallet, allowance, pending, tx, utxos, fees, tronVars>>
  BY DEF Enter, Goto
<1>2. p.handled = {}
  BY DEF NoPlan
<1>3. l \in {"relay", "approve", "send", "returned", "failed"} /\ (l = "send" => chain.net = "solana")
  OBVIOUS
<1> HIDE DEF q, p, l
<1>4. /\ \A d \in Calls \ {c} : pc'[d] = pc[d] /\ plan'[d] = plan[d]
      /\ pc'[c] = l /\ plan'[c] = p
  BY <1>1 DEF IInv, TypeOK
<1>5. StepOf(c)
  <2>1. approvalCost' = approvalCost /\ depositCost' = depositCost
    BY <1>1 DEF tronVars
  <2>2. Tolls'[c] = Tolls[c] /\ Tolls[c] \in Nat
    BY <2>1, TollsNat DEF Tolls
  <2>3. Tolls[c] <= Tolls'[c]
    BY <2>2
  <2> QED
    BY <1>1, <1>3, <1>4, <2>1, <2>3 DEF StepOf
<1>6. \A k \in 1 .. MaxSends : tx'[c][k] = "none"
  BY <1>1 DEF IInv, SentOnce, BeforeSend
<1>7. ~Out(c)'
  BY <1>6 DEF Out
<1>8. OnItsWay(c)'
  BY <1>1, <1>2, <1>3, <1>4 DEF OnItsWay
<1>9. Enough(c)'
  BY <1>1, <1>2, <1>3, <1>4, <1>7 DEF Enough, Passed
<1>10. Affordable(c)'
  BY <1>1, <1>3, <1>4, <1>7 DEF Affordable
<1>11. Broadcasts'
  BY <1>1, <1>5, BroadcastsKeep DEF Broadcasts
<1>12. pc[c] \in BeforeSend /\ wallet' = wallet /\ UNCHANGED tronVars
  BY <1>1 DEF BeforeSend
<1> QED
  BY <1>5, <1>6, <1>8, <1>9, <1>10, <1>11, <1>12, OwnStep

LEMMA BeginR ==
  ASSUME IInv, IInv', RInv, NEW c \in Calls, NEW asked \in Requests, Begin(c, asked)
  PROVE  RInv'
<1> DEFINE r == GetProoflessStealthAddressStructures(asked)
<1>1. asked \in Request /\ r \in Request
  BY Structures, ProoflessAssumption DEF Request
<1> HIDE DEF r
<1>2. "hinkal" \in Spenders /\ "wrapper" \in Spenders
  BY DEF Spenders
<1>3. CASE HinkalProoflessDeposit(c, asked)
  BY <1>1, <1>2, <1>3, EnterR DEF HinkalProoflessDeposit, ValidPlain, r
<1>4. CASE HinkalTronProoflessDeposit(c, asked)
  BY <1>1, <1>2, <1>4, EnterR DEF HinkalTronProoflessDeposit, ValidPlain, r
<1>5. CASE HinkalProoflessDepositWithPublicFee(c, asked)
  BY <1>1, <1>2, <1>5, EnterR DEF HinkalProoflessDepositWithPublicFee, ValidWithFee,
     AssertWrapperArgLengths, Request
<1>6. CASE HinkalTronProoflessDepositWithPublicFee(c, asked)
  BY <1>1, <1>2, <1>6, EnterR DEF HinkalTronProoflessDepositWithPublicFee, ValidWithFee,
     AssertWrapperArgLengths
<1>7. CASE HinkalSolanaProoflessDeposit(c, asked)
  BY <1>1, <1>2, <1>7, EnterR DEF HinkalSolanaProoflessDeposit, OneMint,
     ValidateSolanaDepositArgs, r
<1>8. CASE HinkalSolanaProoflessDepositWithPublicFee(c, asked)
  BY <1>1, <1>2, <1>8, EnterR DEF HinkalSolanaProoflessDepositWithPublicFee, OneMint,
     ValidateSolanaDepositArgs
<1>9. CASE HinkalSolanaDeposit(c, asked)
  BY <1>1, <1>2, <1>9, EnterR DEF HinkalSolanaDeposit, OneMint,
     ValidateSolanaDepositArgs, r
<1>10. CASE HinkalSolanaDepositForOther(c, asked)
  BY <1>1, <1>2, <1>10, EnterR DEF HinkalSolanaDepositForOther, OneMint,
     ValidateSolanaDepositArgs
<1> QED
  BY <1>3, <1>4, <1>5, <1>6, <1>7, <1>8, <1>9, <1>10 DEF Begin

\* A call that fails.
LEMMA FailR ==
  ASSUME IInv, IInv', RInv, NEW c \in Calls, pc[c] \in BeforeSend \ {"idle"}, NEW e \in Errors,
         Fail(c, e), UNCHANGED <<chain, wallet, allowance, pending, tx, utxos, fees, tronVars>>
  PROVE  RInv'
<1> DEFINE p == [plan[c] EXCEPT !.err = e]
<1>1. /\ p \in Plan /\ p.req = plan[c].req /\ p.fee = plan[c].fee /\ p.need = plan[c].need
      /\ p.before = plan[c].before /\ p.spender = plan[c].spender /\ p.handled = plan[c].handled
  BY Types, FailedPlan DEF IInv
<1>2. pc' = [pc EXCEPT ![c] = "failed"] /\ plan' = [plan EXCEPT ![c] = p]
  BY DEF Fail, Goto
<1> HIDE DEF p
<1>3. GoesOn(c, "failed", p)
  BY <1>1, <1>2 DEF GoesOn, Labels
<1> QED
  BY <1>1, <1>3, EndedR

LEMMA GotoIs ==
  ASSUME IInv, NEW c \in Calls, NEW l \in Labels \ {"idle", "returned"},
         pc[c] \in BeforeSend \ {"idle"}, Goto(c, l, plan[c]),
         UNCHANGED <<chain, wallet, utxos, fees, tronVars>>
  PROVE  /\ GoesOn(c, l, plan[c]) /\ pc'[c] = l /\ plan'[c] = plan[c]
         /\ \A k \in 1 .. MaxSends : tx[c][k] = "none"
<1>1. GoesOn(c, l, plan[c])
  BY Types DEF GoesOn, Goto, IInv
<1> QED
  BY <1>1, GoesOnFacts

LEMMA PickRelayR ==
  ASSUME IInv, IInv', RInv, NEW c \in Calls, NEW found \in BOOLEAN, PickRelay(c, found)
  PROVE  RInv'
<1>1. pc[c] = "relay" /\ pc[c] \in BeforeSend \ {"idle"}
  BY DEF PickRelay, BeforeSend
<1>2. UNCHANGED <<chain, wallet, allowance, pending, tx, utxos, fees, tronVars>>
  BY DEF PickRelay
<1>3. \/ Fail(c, "relay")
      \/ chain.net = "solana" /\ Goto(c, "send", plan[c])
      \/ chain.net # "solana" /\ Goto(c, "approve", plan[c])
  BY DEF PickRelay
<1>4. CASE Fail(c, "relay")
  BY <1>1, <1>2, <1>4, FailR DEF Errors
<1>5. ASSUME NEW l \in {"send", "approve"}, Goto(c, l, plan[c]), l = "send" => chain.net = "solana"
      PROVE  RInv'
  <2>1. /\ GoesOn(c, l, plan[c]) /\ pc'[c] = l /\ plan'[c] = plan[c]
        /\ \A k \in 1 .. MaxSends : tx[c][k] = "none"
    BY <1>1, <1>2, <1>5, GotoIs DEF Labels
  <2>2. ~Out(c)'
    BY <1>2, <2>1 DEF Out
  <2>3. /\ plan[c].handled = {} /\ chain.net \in {"evm", "tron", "solana"}
    BY <1>1, CallFacts DEF OnItsWay
  <2>4. OnItsWay(c)'
    BY <1>2, <2>1, <2>3 DEF OnItsWay
  <2>5. Enough(c)'
    BY <1>2, <1>5, <2>1, <2>2, <2>3 DEF Enough, Passed
  <2>6. Affordable(c)'
    BY <1>2, <1>5, <2>1, <2>2 DEF Affordable
  <2> QED
    BY <1>2, <2>1, <2>4, <2>5, <2>6, QuietR
<1> QED
  BY <1>3, <1>4, <1>5

\* An allowance is enough after a step if it was before and stays.
LEMMA EnoughKept ==
  ASSUME IInv, RInv, NEW c \in Calls, StepOf(c), pc[c] # "idle", NEW t \in Pulled, Passed(c, t),
         allowance'[plan[c].spender][t] = allowance[plan[c].spender][t]
  PROVE  (plan[c].need[t] <= allowance[plan[c].spender][t] \/ Competes(c, t))'
<1>1. plan[c].need[t] <= allowance[plan[c].spender][t] \/ Competes(c, t)
  BY CallFacts DEF Enough
<1>2. plan'[c].need = plan[c].need /\ plan'[c].spender = plan[c].spender
  BY DEF StepOf
<1> QED
  BY <1>1, <1>2, CompetesKept

LEMMA NextApprovalR ==
  ASSUME IInv, IInv', RInv, NEW c \in Calls, NextApproval(c)
  PROVE  RInv'
<1>1. pc[c] = "approve" /\ pc[c] \in BeforeSend \ {"idle"} /\ chain.net = "evm"
  BY DEF NextApproval, BeforeSend
<1>2. UNCHANGED <<chain, wallet, allowance, pending, tx, utxos, fees, tronVars>>
  BY DEF NextApproval
<1>3. CASE Short(c) = {}
  <2>1. Goto(c, "send", plan[c])
    BY <1>3 DEF NextApproval
  <2>2. /\ GoesOn(c, "send", plan[c]) /\ pc'[c] = "send" /\ plan'[c] = plan[c]
        /\ \A k \in 1 .. MaxSends : tx[c][k] = "none"
    BY <1>1, <1>2, <2>1, GotoIs DEF Labels
  <2>3. StepOf(c)
    BY <1>2, <2>2, GoingOn
  <2>4. OnItsWay(c)'
    BY <1>1, <1>2, <2>2 DEF OnItsWay
  <2>5. ~Out(c)'
    BY <1>2, <2>2 DEF Out
  <2>6. Affordable(c)'
    BY <1>1, <1>2, <2>2, <2>5 DEF Affordable
  <2>7. Enough(c)'
    <3> SUFFICES ASSUME NEW t \in Pulled
                 PROVE  (plan[c].need[t] <= allowance[plan[c].spender][t] \/ Competes(c, t))'
      BY DEF Enough
    <3>1. CASE t \in plan[c].handled
      <4>1. Passed(c, t)
        BY <1>1, <3>1 DEF Passed
      <4> QED
        BY <1>1, <1>2, <2>3, <4>1, EnoughKept
    <3>2. CASE t \notin plan[c].handled
      <4>1. ~(allowance[plan[c].spender][t] < plan[c].need[t])
        BY <1>3, <3>2 DEF Short
      <4>2. allowance[plan[c].spender][t] \in Nat /\ plan[c].need[t] \in Nat
        <5>1. t \in Tokens /\ plan[c].spender \in Spenders /\ plan[c].need \in [Tokens -> Nat]
          BY Types DEF IInv, Pulled
        <5> QED
          BY <5>1 DEF IInv, TypeOK
      <4>3. plan[c].need[t] <= allowance[plan[c].spender][t]
        BY <4>1, <4>2
      <4> QED
        BY <1>2, <2>2, <4>3
    <3> QED
      BY <3>1, <3>2
  <2> QED
    BY <1>2, <2>2, <2>4, <2>6, <2>7, QuietR
<1>4. CASE Short(c) # {}
  <2>1. PICK t \in Short(c), l \in {"reset", "approving"} :
          Goto(c, l, [plan[c] EXCEPT !.tok = t, !.handled = @ \union {t}])
    BY <1>4 DEF NextApproval
  <2> DEFINE p == [plan[c] EXCEPT !.tok = t, !.handled = @ \union {t}]
  <2>2. t \in Tokens /\ t \in Pulled /\ allowance[plan[c].spender][t] < plan[c].need[t]
    BY DEF Short, Pulled
  <2>3. /\ p \in Plan /\ p.req = plan[c].req /\ p.fee = plan[c].fee /\ p.need = plan[c].need
        /\ p.before = plan[c].before /\ p.spender = plan[c].spender /\ p.sends = plan[c].sends
        /\ p.handled = plan[c].handled \union {t} /\ p.tok = t
    <3>1. plan[c] \in Plan
      BY Types DEF IInv
    <3> QED
      BY <2>2, <3>1 DEF Plan
  <2>4. pc' = [pc EXCEPT ![c] = l] /\ plan' = [plan EXCEPT ![c] = p]
    BY <2>1 DEF Goto
  <2> HIDE DEF p
  <2>5. GoesOn(c, l, p)
    BY <1>1, <1>2, <2>3, <2>4 DEF GoesOn, Labels
  <2>6. /\ pc'[c] = l /\ plan'[c] = p /\ \A k \in 1 .. MaxSends : tx[c][k] = "none"
    BY <2>3, <2>5, GoesOnFacts
  <2>7. StepOf(c)
    BY <1>2, <2>5, <2>6, GoingOn
  <2>8. plan[c].need[t] > 0
    <3>1. allowance[plan[c].spender][t] \in Nat /\ plan[c].need[t] \in Nat
      BY <2>2, Types DEF IInv, TypeOK
    <3> QED
      BY <2>2, <3>1
  <2>9. OnItsWay(c)'
    BY <1>1, <1>2, <2>2, <2>3, <2>6, <2>8 DEF OnItsWay
  <2>10. ~Out(c)'
    BY <1>2, <2>6 DEF Out
  <2>11. Affordable(c)'
    BY <1>1, <1>2, <2>6, <2>10 DEF Affordable
  <2>12. Enough(c)'
    <3> SUFFICES ASSUME NEW u \in Pulled, Passed(c, u)'
                 PROVE  (plan[c].need[u] <= allowance[plan[c].spender][u] \/ Competes(c, u))'
      BY DEF Enough
    <3>1. u \in plan[c].handled
      BY <2>3, <2>6, <2>10 DEF Passed
    <3>2. Passed(c, u)
      BY <1>1, <3>1 DEF Passed
    <3> QED
      BY <1>1, <1>2, <2>7, <3>2, EnoughKept
  <2> QED
    BY <1>2, <2>5, <2>6, <2>9, <2>11, <2>12, QuietR
<1> QED
  BY <1>3, <1>4

\* An approval of an EVM wallet.
LEMMA ApproveR ==
  ASSUME IInv, IInv', RInv, NEW c \in Calls, NEW l \in {"approving", "approve"},
         pc[c] \in {"reset", "approving"}, NEW amount,
         l = "approve" => amount = plan[c].need[plan[c].tok], Approve(c, amount, l)
  PROVE  RInv'
<1> DEFINE s == plan[c].spender
           t == plan[c].tok
<1>1. /\ allowance' = [allowance EXCEPT ![s][t] = amount]
      /\ Goto(c, l, plan[c]) /\ UNCHANGED <<chain, wallet, pending, tx, utxos, fees, tronVars>>
  BY DEF Approve
<1>2. /\ chain.net = "evm" /\ t \in Pulled /\ plan[c].need[t] > 0
  BY CallFacts DEF OnItsWay, BeforeSend
<1>3. /\ GoesOn(c, l, plan[c]) /\ pc'[c] = l /\ plan'[c] = plan[c]
      /\ \A k \in 1 .. MaxSends : tx[c][k] = "none"
  BY <1>1, GotoIs DEF Labels, BeforeSend
<1>4. s \in Spenders /\ t \in Tokens /\ plan[c].need[t] \in Nat
  BY Types DEF IInv
<1>5. /\ allowance'[s][t] = amount
      /\ \A r \in Spenders, u \in Tokens : r # s \/ u # t => allowance'[r][u] = allowance[r][u]
  BY <1>1, <1>4 DEF IInv, TypeOK
<1>6. StepOf(c)
  <2>1. \A d \in Calls \ {c} : pc'[d] = pc[d] /\ plan'[d] = plan[d]
    BY <1>3, GoesOnFacts
  <2>2. \A r \in Spenders, u \in Pulled : allowance'[r][u] # allowance[r][u] => r = s /\ u = t
    BY <1>5 DEF Pulled
  <2>3. approvalCost' = approvalCost /\ depositCost' = depositCost
    BY <1>1 DEF tronVars
  <2>4. Tolls'[c] = Tolls[c] /\ Tolls[c] \in Nat
    BY <2>3, TollsNat DEF Tolls
  <2>5. Tolls[c] <= Tolls'[c]
    BY <2>4
  <2> QED
    BY <1>1, <1>2, <1>3, <2>1, <2>2, <2>3, <2>5 DEF StepOf
<1>7. OnItsWay(c)'
  BY <1>1, <1>2, <1>3 DEF OnItsWay
<1>8. ~Out(c)'
  BY <1>1, <1>3 DEF Out
<1>9. Affordable(c)'
  BY <1>3, <1>8 DEF Affordable
<1>10. Enough(c)'
  <2> SUFFICES ASSUME NEW u \in Pulled, Passed(c, u)'
               PROVE  (plan[c].need[u] <= allowance[plan[c].spender][u] \/ Competes(c, u))'
    BY DEF Enough
  <2>1. CASE u = t
    <3>1. l = "approve"
      BY <1>3, <1>8, <2>1 DEF Passed
    <3>2. plan'[c].need[u] <= allowance'[plan'[c].spender][u]
      BY <1>3, <1>4, <1>5, <2>1, <3>1
    <3> QED
      BY <3>2
  <2>2. CASE u # t
    <3>1. u \in plan[c].handled
      BY <1>3, <1>8 DEF Passed
    <3>2. Passed(c, u)
      BY <2>2, <3>1 DEF Passed
    <3>3. allowance'[s][u] = allowance[s][u] /\ pc[c] # "idle"
      BY <1>4, <1>5, <2>2 DEF Pulled
    <3> QED
      BY <1>6, <3>2, <3>3, EnoughKept
  <2> QED
    BY <2>1, <2>2
<1>11. Broadcasts'
  BY <1>1, <1>6, BroadcastsKeep DEF Broadcasts
<1>12. /\ pc[c] \in BeforeSend /\ wallet' = wallet /\ UNCHANGED tronVars
       /\ \A k \in 1 .. MaxSends : tx'[c][k] \in {"none", "pending"}
  BY <1>1, <1>3 DEF BeforeSend
<1> QED
  BY <1>6, <1>7, <1>9, <1>10, <1>11, <1>12, OwnStep

LEMMA BroadcastR ==
  ASSUME IInv, IInv', RInv, NEW c \in Calls, BroadcastApproval(c)
  PROVE  RInv'
<1>1. /\ pc[c] = "approve" /\ pc[c] \in BeforeSend \ {"idle"} /\ chain.net = "tron"
      /\ UNCHANGED <<chain, wallet, allowance, tx, utxos, fees, tronVars>>
  BY DEF BroadcastApproval, BeforeSend
<1> DEFINE A(t) == [call |-> c, spender |-> plan[c].spender, tok |-> t, amt |-> plan[c].need[t]]
           P(t) == [plan[c] EXCEPT !.handled = @ \union {t}]
<1>2. PICK t \in Short(c) : pending' = pending \union {A(t)} /\ Goto(c, "approve", P(t))
  BY DEF BroadcastApproval
<1> DEFINE p == P(t)
           a == A(t)
<1>3. t \in Tokens /\ t \in Pulled /\ allowance[plan[c].spender][t] < plan[c].need[t]
  BY DEF Short, Pulled
<1>4. /\ p \in Plan /\ p.req = plan[c].req /\ p.fee = plan[c].fee /\ p.need = plan[c].need
      /\ p.before = plan[c].before /\ p.spender = plan[c].spender
      /\ p.handled = plan[c].handled \union {t}
  <2>1. plan[c] \in Plan
    BY Types DEF IInv
  <2> QED
    BY <1>3, <2>1 DEF Plan
<1>5. /\ a.call = c /\ a.spender = plan[c].spender /\ a.tok = t /\ a.amt = plan[c].need[t]
      /\ pc' = [pc EXCEPT ![c] = "approve"] /\ plan' = [plan EXCEPT ![c] = p]
      /\ pending' = pending \union {a}
  BY <1>2 DEF Goto
<1> HIDE DEF p, a
<1>6. GoesOn(c, "approve", p)
  BY <1>1, <1>4, <1>5 DEF GoesOn, Labels
<1>7. /\ pc'[c] = "approve" /\ plan'[c] = p /\ \A k \in 1 .. MaxSends : tx[c][k] = "none"
  BY <1>6, GoesOnFacts
<1>8. UNCHANGED tronVars
  BY <1>1
<1>9. StepOf(c)
  BY <1>1, <1>6, GoingOn
<1>10. plan[c].need[t] > 0
  <2>1. allowance[plan[c].spender][t] \in Nat /\ plan[c].need[t] \in Nat
    BY <1>3, Types DEF IInv, TypeOK
  <2> QED
    BY <1>3, <2>1
<1>11. Broadcasts'
  <2>1. a.tok \in Pulled /\ a.spender = plan'[a.call].spender /\ a.amt = plan'[a.call].need[a.tok] /\ a.amt > 0
    BY <1>3, <1>4, <1>5, <1>7, <1>10
  <2> QED
    BY <1>5, <1>9, <2>1, BroadcastsKeep DEF Broadcasts
<1>12. OnItsWay(c)'
  BY <1>1, <1>4, <1>7 DEF OnItsWay
<1>13. Enough(c)' /\ Affordable(c)'
  <2>1. ~Out(c)'
    BY <1>1, <1>7 DEF Out
  <2> QED
    BY <1>1, <1>7, <2>1 DEF Enough, Passed, Affordable
<1>14. pc[c] \in BeforeSend /\ wallet' = wallet /\ \A k \in 1 .. MaxSends : tx'[c][k] \in {"none", "pending"}
  BY <1>1, <1>7
<1> QED
  BY <1>8, <1>9, <1>11, <1>12, <1>13, <1>14, OwnStep

LEMMA WaitR ==
  ASSUME IInv, IInv', RInv, NEW c \in Calls, WaitForTronErc20Approvals(c)
  PROVE  RInv'
<1>1. /\ pc[c] = "approve" /\ pc[c] \in BeforeSend \ {"idle"} /\ chain.net = "tron"
      /\ UNCHANGED <<chain, wallet, allowance, pending, tx, utxos, fees, tronVars>>
      /\ Goto(c, "simulate", plan[c])
  BY DEF WaitForTronErc20Approvals, BeforeSend
<1>2. /\ GoesOn(c, "simulate", plan[c]) /\ pc'[c] = "simulate" /\ plan'[c] = plan[c]
      /\ \A k \in 1 .. MaxSends : tx[c][k] = "none"
  BY <1>1, GotoIs DEF Labels
<1>3. OnItsWay(c)'
  BY <1>1, <1>2 DEF OnItsWay
<1>4. ~Out(c)'
  BY <1>1, <1>2 DEF Out
<1>5. Enough(c)' /\ Affordable(c)'
  BY <1>1, <1>2, <1>4 DEF Enough, Passed, Affordable
<1> QED
  BY <1>1, <1>2, <1>3, <1>5, QuietR

\* A simulation that passes shows the funds and the allowances.
LEMMA SimulateR ==
  ASSUME IInv, IInv', RInv, NEW c \in Calls, SimulateTronTransaction(c)
  PROVE  RInv'
<1>1. pc[c] = "simulate" /\ pc[c] \in BeforeSend \ {"idle"}
  BY DEF SimulateTronTransaction, BeforeSend
<1>2. UNCHANGED <<chain, wallet, allowance, pending, tx, utxos, fees, tronVars>>
  BY DEF SimulateTronTransaction
<1>3. CASE Fail(c, "simulation")
  BY <1>1, <1>2, <1>3, FailR DEF Errors
<1>4. CASE Accepts(plan[c], plan[c].need[Native]) /\ Goto(c, "balance", plan[c])
  <2>1. /\ GoesOn(c, "balance", plan[c]) /\ pc'[c] = "balance" /\ plan'[c] = plan[c]
        /\ \A k \in 1 .. MaxSends : tx[c][k] = "none"
    BY <1>1, <1>2, <1>4, GotoIs DEF Labels
  <2>2. chain.net = "tron"
    BY <1>1, CallFacts DEF OnItsWay
  <2>3. OnItsWay(c)'
    BY <1>2, <2>1, <2>2 DEF OnItsWay
  <2>4. \A t \in Tokens : Charge(plan[c], t)' = Charge(plan[c], t)
    BY <1>2, <2>1, ChargeSame
  <2>5. Affordable(c)'
    <3>1. \A t \in Tokens : Charge(plan[c], t) <= Funds[t]
      <4> SUFFICES ASSUME NEW t \in Tokens PROVE Charge(plan[c], t) <= Funds[t]
        OBVIOUS
      <4>1. Charge(plan[c], t) <= wallet[t]
        BY <1>4 DEF Accepts
      <4>2. Charge(plan[c], t) \in Nat
        BY <1>1, CallCharge
      <4>3. wallet[t] \in Nat /\ wallet[t] <= Funds[t] /\ Funds[t] \in Nat
        BY WalletBound
      <4> QED
        BY <4>1, <4>2, <4>3
    <3>2. ~Out(c)'
      BY <1>2, <2>1 DEF Out
    <3> QED
      BY <2>1, <2>4, <3>1, <3>2 DEF Affordable
  <2>6. Enough(c)'
    <3>1. \A t \in Pulled : plan[c].need[t] <= allowance[plan[c].spender][t]
      <4> SUFFICES ASSUME NEW t \in Pulled PROVE plan[c].need[t] <= allowance[plan[c].spender][t]
        OBVIOUS
      <4>1. Charge(plan[c], t) <= allowance[plan[c].spender][t]
        BY <1>4, <2>2 DEF Accepts
      <4>2. Charge(plan[c], t) = plan[c].need[t]
        BY <1>1, <2>2, CallCharge DEF Pulled
      <4> QED
        BY <4>1, <4>2
    <3> QED
      BY <1>2, <2>1, <3>1 DEF Enough
  <2> QED
    BY <1>2, <2>1, <2>3, <2>5, <2>6, QuietR
<1> QED
  BY <1>3, <1>4 DEF SimulateTronTransaction

\* The check of a Tron wallet's balance: what the fee sets aside is left.
LEMMA CheckBalanceR ==
  ASSUME IInv, IInv', RInv, NEW c \in Calls, NEW use \in Costs, NEW known \in BOOLEAN,
         CheckTronBalance(c, use, known)
  PROVE  RInv'
<1>1. pc[c] = "balance" /\ pc[c] \in BeforeSend \ {"idle"}
  BY DEF CheckTronBalance, BeforeSend
<1>2. UNCHANGED <<chain, wallet, allowance, pending, tx, utxos, fees, tronVars>>
  BY DEF CheckTronBalance
<1> DEFINE fee == IF known THEN EstimateTronFeeSunWithPadding(use) ELSE FeeLimit
           p == [plan[c] EXCEPT !.covered = energy + fee]
<1>3. \/ Fail(c, "balance")
      \/ Goto(c, "send", p) /\ wallet[Native] >= plan[c].need[Native] + fee
  BY DEF CheckTronBalance
<1>4. CASE Fail(c, "balance")
  BY <1>1, <1>2, <1>4, FailR DEF Errors
<1>5. CASE Goto(c, "send", p) /\ wallet[Native] >= plan[c].need[Native] + fee
  <2>0. fee \in Nat /\ energy \in Nat /\ Native \in Tokens
    BY FeeNat, ProoflessAssumption DEF IInv, TypeOK
  <2>1. /\ p \in Plan /\ p.req = plan[c].req /\ p.fee = plan[c].fee /\ p.need = plan[c].need
        /\ p.before = plan[c].before /\ p.spender = plan[c].spender
        /\ p.handled = plan[c].handled /\ p.covered = energy + fee
    <3>1. plan[c] \in Plan /\ energy + fee \in Nat
      BY <2>0, Types DEF IInv
    <3> HIDE DEF fee
    <3> QED
      BY <3>1 DEF Plan
  <2>2. pc' = [pc EXCEPT ![c] = "send"] /\ plan' = [plan EXCEPT ![c] = p]
    BY <1>5 DEF Goto
  <2> HIDE DEF p, fee
  <2>3. GoesOn(c, "send", p)
    BY <1>1, <1>2, <2>1, <2>2 DEF GoesOn, Labels
  <2>4. /\ pc'[c] = "send" /\ plan'[c] = p /\ \A k \in 1 .. MaxSends : tx[c][k] = "none"
    BY <2>3, GoesOnFacts
  <2>5. chain.net = "tron"
    BY <1>1, CallFacts DEF OnItsWay
  <2>6. StepOf(c)
    BY <1>2, <2>3, GoingOn
  <2>7. OnItsWay(c)'
    BY <1>2, <2>4, <2>5 DEF OnItsWay
  <2>8. Enough(c)'
    <3> SUFFICES ASSUME NEW t \in Pulled
                 PROVE  (plan[c].need[t] <= allowance[plan[c].spender][t] \/ Competes(c, t))'
      BY DEF Enough
    <3>1. Passed(c, t) /\ pc[c] # "idle"
      BY <1>1, <2>5 DEF Passed
    <3> QED
      BY <1>2, <2>6, <3>1, EnoughKept
  <2>9. \A t \in Tokens : Charge(plan[c], t)' <= Funds[t]
    <3>1. \A t \in Tokens : Charge(plan[c], t) <= Funds[t]
      BY <1>1, <2>5, CallFacts DEF Affordable
    <3>2. \A t \in Tokens : Charge(plan[c], t)' = Charge(plan[c], t)
      BY <1>2, <2>1, <2>4, ChargeSame
    <3> QED
      BY <3>1, <3>2
  <2>10. p.need[Native] + Excess(p.covered, energy) <= wallet[Native]
    <3>1. Excess(p.covered, energy) = fee
      BY <2>0, <2>1 DEF Excess
    <3>2. plan[c].need[Native] \in Nat /\ wallet[Native] \in Nat
      BY <2>0, Types DEF IInv, TypeOK
    <3> QED
      BY <1>5, <2>0, <2>1, <3>1, <3>2
  <2>11. energy' = energy /\ wallet' = wallet
    BY <1>2 DEF tronVars
  <2>12. Affordable(c)'
    BY <2>4, <2>9, <2>10, <2>11 DEF Affordable
  <2> QED
    BY <1>2, <2>3, <2>7, <2>8, <2>12, QuietR
<1> QED
  BY <1>3, <1>4, <1>5

LEMMA RequestFailsR ==
  ASSUME IInv, IInv', RInv, NEW c \in Calls, RequestFails(c)
  PROVE  RInv'
BY FailR DEF RequestFails, BeforeSend, Errors

\* A call that sends its transaction, with funds and allowances that are enough.
LEMMA SentR ==
  ASSUME IInv, IInv', RInv, NEW c \in Calls, pc[c] = "send", NEW l \in {"done", "failed"}, NEW p,
         GoesOn(c, l, p), NEW n \in 1 .. MaxSends,
         tx' = [tx EXCEPT ![c][n] = "pending"], UNCHANGED <<allowance, pending>>,
         chain.net = "tron" => p.covered = plan[c].covered,
         chain.net = "solana" => \A t \in Tokens : Charge(plan[c], t) <= Funds[t]
  PROVE  RInv'
<1>1. /\ pc'[c] = l /\ plan'[c] = p /\ \A k \in 1 .. MaxSends : tx[c][k] = "none"
  BY GoesOnFacts
<1>2. /\ chain' = chain /\ wallet' = wallet /\ p.req = plan[c].req /\ p.fee = plan[c].fee
      /\ p.need = plan[c].need /\ p.spender = plan[c].spender
  BY DEF GoesOn
<1>3. /\ \A d \in Calls \ {c} : tx'[d] = tx[d]
      /\ \A k \in 1 .. MaxSends : tx'[c][k] \in {"none", "pending"}
  BY <1>1 DEF IInv, TypeOK
<1>4. StepOf(c)
  BY <1>3, GoingOn
<1>5. OnItsWay(c) /\ Enough(c) /\ Affordable(c) /\ chain.net \in {"evm", "tron", "solana"}
  BY CallFacts DEF OnItsWay
<1>6. OnItsWay(c)'
  BY <1>1, <1>2, <1>5 DEF OnItsWay, BeforeSend
<1>7. Enough(c)'
  <2> SUFFICES ASSUME NEW t \in Pulled, Passed(c, t)'
               PROVE  (plan[c].need[t] <= allowance[plan[c].spender][t] \/ Competes(c, t))'
    BY DEF Enough
  <2>1. chain.net # "solana"
    BY <1>1, <1>2 DEF Passed
  <2>2. Passed(c, t) /\ pc[c] # "idle"
    BY <2>1 DEF Passed
  <2> QED
    BY <1>4, <2>2, EnoughKept
<1>8. \A t \in Tokens : Charge(plan[c], t)' = Charge(plan[c], t)
  BY <1>1, <1>2, ChargeSame
<1>9. Affordable(c)'
  <2>1. CASE chain.net = "evm"
    BY <1>1, <1>2, <2>1 DEF Affordable
  <2>2. CASE chain.net = "tron"
    <3>1. /\ \A t \in Tokens : Charge(plan[c], t) <= Funds[t]
          /\ Alone(c) => plan[c].need[Native] + Excess(plan[c].covered, energy) <= wallet[Native]
      BY <1>5, <2>2 DEF Affordable
    <3>2. Alone(c)' => Alone(c)
      BY GoesOnFacts
    <3>3. energy' = energy /\ p.covered = plan[c].covered
      BY <2>2 DEF GoesOn, tronVars
    <3> QED
      BY <1>1, <1>2, <1>8, <3>1, <3>2, <3>3 DEF Affordable
  <2>3. CASE chain.net = "solana"
    BY <1>1, <1>2, <1>8, <2>3 DEF Affordable
  <2> QED
    BY <1>5, <2>1, <2>2, <2>3
<1>10. Broadcasts'
  BY <1>4, BroadcastsKeep DEF Broadcasts
<1>11. pc[c] \in BeforeSend /\ UNCHANGED tronVars
  BY DEF BeforeSend, GoesOn
<1> QED
  BY <1>2, <1>3, <1>4, <1>6, <1>7, <1>9, <1>10, <1>11, OwnStep

LEMMA SendTransactionR ==
  ASSUME IInv, IInv', RInv, NEW c \in Calls, SendTransaction(c)
  PROVE  RInv'
<1>1. /\ pc[c] = "send" /\ pc[c] \in BeforeSend \ {"idle"} /\ chain.net # "solana"
      /\ tx' = [tx EXCEPT ![c][1] = "pending"]
      /\ UNCHANGED <<chain, wallet, allowance, pending, utxos, fees, tronVars>>
  BY DEF SendTransaction, BeforeSend
<1>2. 1 \in 1 .. MaxSends
  BY ProoflessAssumption
<1>3. CASE Goto(c, "done", plan[c])
  <2>1. GoesOn(c, "done", plan[c])
    BY <1>1, <1>3, Types DEF GoesOn, Goto, Labels, IInv
  <2> QED
    BY <1>1, <1>2, <2>1, SentR
<1>4. CASE Fail(c, "send")
  <2> DEFINE p == [plan[c] EXCEPT !.err = "send"]
  <2>1. /\ p \in Plan /\ p.req = plan[c].req /\ p.fee = plan[c].fee /\ p.need = plan[c].need
        /\ p.before = plan[c].before /\ p.spender = plan[c].spender /\ p.handled = plan[c].handled
        /\ p.covered = plan[c].covered
    BY Types, FailedPlan DEF IInv, Errors
  <2>2. pc' = [pc EXCEPT ![c] = "failed"] /\ plan' = [plan EXCEPT ![c] = p]
    BY <1>4 DEF Fail, Goto
  <2> HIDE DEF p
  <2>3. GoesOn(c, "failed", p)
    BY <1>1, <2>1, <2>2 DEF GoesOn, Labels
  <2> QED
    BY <1>1, <1>2, <2>1, <2>3, SentR
<1> QED
  BY <1>3, <1>4 DEF SendTransaction

LEMMA SignAndSendR ==
  ASSUME IInv, IInv', RInv, NEW c \in Calls, SignAndSendSolanaInstructions(c)
  PROVE  RInv'
<1> DEFINE p == [plan[c] EXCEPT !.sends = @ + 1]
           F(e) == [p EXCEPT !.err = e]
<1>1. /\ pc[c] = "send" /\ pc[c] \in BeforeSend \ {"idle"} /\ chain.net = "solana"
      /\ UNCHANGED <<chain, wallet, allowance, pending, utxos, fees, tronVars>>
  BY DEF SignAndSendSolanaInstructions, BeforeSend
<1>2. /\ p \in Plan /\ p.req = plan[c].req /\ p.fee = plan[c].fee /\ p.need = plan[c].need
      /\ p.before = plan[c].before /\ p.spender = plan[c].spender /\ p.handled = plan[c].handled
      /\ p.sends \in 1 .. MaxSends
  <2>1. plan[c] \in Plan /\ plan[c].sends \in 0 .. MaxSends /\ plan[c].sends < MaxSends
    BY <1>1, Types DEF IInv, SentOnce
  <2>2. plan[c].sends + 1 \in 0 .. MaxSends /\ plan[c].sends + 1 \in 1 .. MaxSends
    BY <2>1, ProoflessAssumption
  <2> QED
    BY <2>1, <2>2 DEF Plan
<1>3. \A e \in Errors :
        /\ F(e) \in Plan /\ F(e).req = plan[c].req /\ F(e).fee = plan[c].fee
        /\ F(e).need = plan[c].need /\ F(e).before = plan[c].before
        /\ F(e).spender = plan[c].spender /\ F(e).handled = plan[c].handled
  <2> HIDE DEF p
  <2> QED
    BY <1>2, FailedPlan
<1>4. \A e \in Errors :
        pc' = [pc EXCEPT ![c] = "failed"] /\ plan' = [plan EXCEPT ![c] = F(e)]
          => GoesOn(c, "failed", F(e))
  <2> HIDE DEF p, F
  <2> QED
    BY <1>1, <1>3 DEF GoesOn, Labels
<1>5. \A l \in {"done", "send"} :
        pc' = [pc EXCEPT ![c] = l] /\ plan' = [plan EXCEPT ![c] = p] => GoesOn(c, l, p)
  <2> HIDE DEF p, F
  <2> QED
    BY <1>1, <1>2 DEF GoesOn, Labels
<1>6. CASE /\ tx' = [tx EXCEPT ![c][p.sends] = "pending"] /\ Accepts(p, 0)
           /\ \/ Goto(c, "done", p)
              \/ Goto(c, "failed", F("answer"))
  <2>0. "answer" \in Errors
    BY DEF Errors
  <2>1. GoesOn(c, "done", p) \/ GoesOn(c, "failed", F("answer"))
    <3> HIDE DEF p, F
    <3> QED
      BY <1>4, <1>5, <1>6, <2>0 DEF Goto
  <2> HIDE DEF p, F
  <2>2. \A t \in Tokens : Charge(plan[c], t) <= Funds[t]
    <3> SUFFICES ASSUME NEW t \in Tokens PROVE Charge(plan[c], t) <= Funds[t]
      OBVIOUS
    <3>1. Charge(p, t) <= wallet[t]
      BY <1>6 DEF Accepts
    <3>2. Charge(p, t) = Charge(plan[c], t)
      BY <1>2 DEF Charge
    <3>3. wallet[t] \in Nat /\ wallet[t] <= Funds[t] /\ Funds[t] \in Nat
      BY WalletBound
    <3>4. Charge(plan[c], t) \in Nat
      BY <1>1, CallCharge
    <3> QED
      BY <3>1, <3>2, <3>3, <3>4
  <2> QED
    BY <1>1, <1>2, <1>6, <2>1, <2>2, SentR
<1>7. CASE UNCHANGED tx /\ Goto(c, "send", p)
  <2> HIDE DEF p, F
  <2>1. GoesOn(c, "send", p)
    BY <1>5, <1>7 DEF Goto
  <2>2. pc'[c] = "send" /\ plan'[c] = p /\ \A k \in 1 .. MaxSends : tx[c][k] = "none"
    BY <2>1, GoesOnFacts
  <2>3. ~Out(c)'
    BY <1>7, <2>2 DEF Out
  <2>4. OnItsWay(c)'
    <3>1. chain.net \in {"evm", "tron", "solana"}
      BY <1>1
    <3> QED
      BY <1>1, <1>2, <2>2, <3>1 DEF OnItsWay
  <2>5. Enough(c)' /\ Affordable(c)'
    BY <1>1, <2>2, <2>3 DEF Enough, Passed, Affordable
  <2> QED
    BY <1>1, <1>7, <2>1, <2>4, <2>5, QuietR
<1>8. CASE UNCHANGED tx /\ \E e \in {"blockhash", "preflight"} : Goto(c, "failed", F(e))
  <2> HIDE DEF p, F
  <2>1. PICK e \in {"blockhash", "preflight"} : Goto(c, "failed", F(e))
    BY <1>8
  <2>2. e \in Errors
    BY DEF Errors
  <2>3. GoesOn(c, "failed", F(e))
    BY <1>3, <1>4, <2>1, <2>2 DEF Goto
  <2> QED
    BY <1>1, <1>8, <2>3, EndedR
<1> DEFINE Error(e) == IF TriesLeft(p) /\ ShouldRetrySolanaSendError(e)
                       THEN Goto(c, "send", p)
                       ELSE Goto(c, "failed", F(e))
<1>9. \/ /\ tx' = [tx EXCEPT ![c][p.sends] = "pending"] /\ Accepts(p, 0)
         /\ Goto(c, "done", p) \/ Error("answer")
      \/ \E e \in {"blockhash", "preflight"} : Error(e) /\ UNCHANGED tx
  BY DEF SignAndSendSolanaInstructions
<1> HIDE DEF p, F
<1>10. Error("answer") => Goto(c, "failed", F("answer"))
  BY DEF ShouldRetrySolanaSendError
<1>11. \A e : Error(e) => Goto(c, "send", p) \/ Goto(c, "failed", F(e))
  OBVIOUS
<1> QED
  BY <1>6, <1>7, <1>8, <1>9, <1>10, <1>11

-----------------------------------------------------------------------------
\* A Tron approval is mined.
LEMMA MineApprovalR ==
  ASSUME IInv, IInv', RInv, NEW a \in pending, NEW use \in Costs, MineApproval(a, use)
  PROVE  RInv'
<1> DEFINE c == a.call
<1>1. /\ pending' = pending \ {a} /\ UNCHANGED <<chain, pc, plan, tx, utxos, fees, depositCost>>
      /\ c \in Calls /\ a.spender \in Spenders /\ a.tok \in Tokens /\ a.amt \in Nat
      /\ approvalCost' = [approvalCost EXCEPT ![c] = @ + use]
      /\ wallet' = [wallet EXCEPT ![Native] = @ - Burnt(use, @)]
  BY DEF MineApproval, IInv, TypeOK
<1>2. /\ a.tok \in Pulled /\ a.spender = plan[c].spender
      /\ a.amt = plan[c].need[a.tok] /\ a.amt > 0 /\ pc[c] # "idle"
  BY DEF RInv, Broadcasts, IInv, Awaited
<1>3. \A s \in Spenders, t \in Tokens :
        \/ allowance'[s][t] = allowance[s][t]
        \/ s = a.spender /\ t = a.tok /\ allowance'[s][t] = a.amt
  <2>1. CASE UNCHANGED allowance
    BY <2>1
  <2>2. CASE allowance' = [allowance EXCEPT ![a.spender][a.tok] = a.amt]
    BY <1>1, <2>2 DEF IInv, TypeOK
  <2> QED
    BY <2>1, <2>2 DEF MineApproval
<1> HIDE DEF c
<1>4. /\ use \in Nat /\ Native \in Tokens /\ Tolls[c] \in Nat /\ Tolls'[c] = Tolls[c] + use
      /\ \A d \in Calls \ {c} : approvalCost'[d] = approvalCost[d]
  <2>1. use \in Nat /\ Native \in Tokens
    BY ProoflessAssumption
  <2>2. /\ approvalCost[c] \in Nat /\ depositCost[c] \in Nat
        /\ approvalCost'[c] = approvalCost[c] + use /\ depositCost'[c] = depositCost[c]
        /\ \A d \in Calls \ {c} : approvalCost'[d] = approvalCost[d]
    BY <1>1 DEF IInv, TypeOK
  <2> QED
    BY <1>1, <2>1, <2>2 DEF Tolls
<1>5. StepOf(c)
  <2>1. Tolls[c] <= Tolls'[c]
    BY <1>4
  <2>2. \A s \in Spenders, t \in Pulled : allowance'[s][t] # allowance[s][t] =>
          s = plan[c].spender /\ plan[c].need[t] > 0
    BY <1>2, <1>3 DEF Pulled
  <2> QED
    BY <1>1, <1>2, <1>4, <2>1, <2>2 DEF StepOf
<1>6. Out(c)' <=> Out(c)
  BY <1>1 DEF Out
<1>7. OnItsWay(c)' /\ Tolled(c)'
  <2>1. chain.net = "tron"
    BY DEF IInv, Awaited
  <2> QED
    BY <1>1, <2>1 DEF RInv, CallR, OnItsWay, Tolled
<1>8. Affordable(c)'
  <2>1. \A t : Charge(plan[c], t)' = Charge(plan[c], t)
    BY <1>1, ChargeSame
  <2>2. Affordable(c)
    BY <1>1, CallFacts
  <2>3. ~(Alone(c)' /\ (pc[c] = "send" \/ Out(c)))
    <3>1. Alone(c)' <=> Alone(c)
      BY <1>1 DEF Alone
    <3>2. Alone(c) => /\ pc[c] \in {"approve", "simulate", "failed"}
                      /\ \A k \in 1 .. MaxSends : tx[c][k] = "none"
      BY <1>1 DEF IInv, Awaited
    <3> QED
      BY <3>1, <3>2 DEF Out
  <2> QED
    BY <1>1, <1>6, <2>1, <2>2, <2>3 DEF Affordable
<1>9. Enough(c)'
  <2> SUFFICES ASSUME NEW t \in Pulled, Passed(c, t)'
               PROVE  (plan[c].need[t] <= allowance[plan[c].spender][t] \/ Competes(c, t))'
    BY DEF Enough
  <2>1. Passed(c, t)
    BY <1>1, <1>6 DEF Passed
  <2>2. plan[c].spender \in Spenders /\ t \in Tokens
    BY <1>1, Types DEF IInv, Pulled
  <2>3. CASE allowance'[plan[c].spender][t] = allowance[plan[c].spender][t]
    BY <1>1, <1>2, <1>5, <2>1, <2>3, EnoughKept
  <2>4. CASE t = a.tok /\ allowance'[plan[c].spender][t] = a.amt
    <3>1. plan'[c].need[t] <= allowance'[plan'[c].spender][t]
      BY <1>1, <1>2, <2>4
    <3> QED
      BY <3>1
  <2> QED
    BY <1>3, <2>2, <2>3, <2>4
<1>10. CallR(c)'
  <2>1. ASSUME NEW k \in 1 .. MaxSends, tx'[c][k] = "reverted" PROVE Excused(c)'
    <3>1. Excused(c)
      BY <1>1, <2>1 DEF RInv, CallR
    <3> QED
      BY <1>1, <1>2, <1>5, <3>1, ExcuseKept DEF RInv
  <2> QED
    BY <1>7, <1>8, <1>9, <2>1 DEF CallR
<1>11. Broadcasts'
  BY <1>1, <1>5, BroadcastsKeep DEF Broadcasts
<1>12. Paid'
  <2> SUFFICES ASSUME NEW t \in Tokens
               PROVE  /\ wallet'[t] \in Nat /\ Took(c, t)' \in Nat /\ wallet'[t] <= wallet[t]
                      /\ wallet[t] + Took(c, t) <= wallet'[t] + Took(c, t)'
    BY <1>1, <1>5, PaidStep
  <2>1. wallet[t] \in Nat /\ wallet'[t] \in Nat /\ Took(c, t) \in Nat
    BY <1>1, TookNat DEF IInv, TypeOK
  <2>2. Took(c, t)' = Took(c, t) + IF t = Native THEN use ELSE 0
    <3>1. Charge(plan[c], t)' = Charge(plan[c], t) /\ (Mined(c)' <=> Mined(c))
      BY <1>1, ChargeSame DEF Mined
    <3>2. (IF Mined(c) THEN Charge(plan[c], t) ELSE 0) \in Nat
      BY <1>1, OutFacts DEF Mined
    <3> QED
      BY <1>4, <3>1, <3>2 DEF Took
  <2>3. CASE t = Native
    <3>1. wallet'[t] = wallet[t] - Burnt(use, wallet[t])
      BY <1>1, <2>3 DEF IInv, TypeOK
    <3>2. Burnt(use, wallet[t]) \in Nat /\ Burnt(use, wallet[t]) <= use
      <4>1. /\ Burnt(use, wallet[t]) \in Nat /\ Burnt(use, wallet[t]) <= Excess(use, energy)
            /\ Excess(use, energy) <= use /\ Excess(use, energy) \in Nat
        BY <1>4, <2>1, BurntFacts DEF IInv
      <4> QED
        BY <1>4, <4>1
    <3> QED
      BY <1>4, <2>1, <2>2, <2>3, <3>1, <3>2
  <2>4. CASE t # Native
    <3>1. wallet'[t] = wallet[t]
      BY <1>1, <2>4 DEF IInv, TypeOK
    <3> QED
      BY <2>1, <2>2, <2>4, <3>1
  <2> QED
    BY <2>3, <2>4
<1> QED
  BY <1>1, <1>5, <1>10, <1>11, <1>12, StepR

\* A deposit is charged no more than was approved for it.
LEMMA ChargeBelow ==
  ASSUME NEW p \in Plan, WellFormed(p.req), p.fee = p.req.fee, NEW t \in Tokens
  PROVE  Charge(p, t) <= BuildWrapperApprovalInputs(p.req)[t]
<1> DEFINE S == {i \in DOMAIN p.req.toks : p.req.toks[i] = t}
           f == EncodedAmounts(p.req)
           g == p.req.amts
           fee == IF p.req.feeTok = t THEN p.req.fee ELSE 0
<1>1. p.req \in Request /\ p.req.toks \in Seq(Tokens) /\ g \in Seq(Nat) /\ p.req.fee \in Nat
  BY RequestTypes DEF Plan
<1>2. DOMAIN p.req.toks = 1 .. Len(g) /\ Len(g) \in Nat /\ DOMAIN g = 1 .. Len(g)
  BY <1>1 DEF WellFormed
<1>3. IsFiniteSet(S)
  <2>1. S \subseteq 1 .. Len(g) /\ IsFiniteSet(1 .. Len(g))
    BY <1>2, FS_Interval
  <2> QED
    BY <2>1, FS_Subset
<1>4. \A i \in S : f[i] \in Nat /\ g[i] \in Nat /\ f[i] <= g[i]
  <2>1. f \in Seq(Nat) /\ Len(f) = Len(g) /\ \A i \in DOMAIN g : f[i] <= g[i]
    BY <1>1, Encoded
  <2> HIDE DEF f
  <2> QED
    BY <1>1, <1>2, <2>1
<1>5. /\ Charge(p, t) = SumFunctionOnSet(f, S) + fee
      /\ BuildWrapperApprovalInputs(p.req)[t] = SumFunctionOnSet(g, S) + fee
  BY DEF Charge, BuildWrapperApprovalInputs, AggregateAmountsForApproval
<1>6. fee \in Nat
  BY <1>1
<1> HIDE DEF S, f, g, fee
<1>7. SumFunctionOnSet(f, S) <= SumFunctionOnSet(g, S)
  BY <1>3, <1>4, SumMono
<1>8. SumFunctionOnSet(f, S) \in Nat /\ SumFunctionOnSet(g, S) \in Nat
  BY <1>3, <1>4, SumNat
<1> QED
  BY <1>5, <1>6, <1>7, <1>8

LEMMA TookUses ==
  ASSUME IInv, NEW c \in Calls, pc[c] # "idle", NEW t \in Tokens
  PROVE  /\ Took(c, t) \in Nat /\ UsesIn(plan, Tolls, c, t) \in Nat
         /\ Took(c, t) <= UsesIn(plan, Tolls, c, t)
<1>1. plan[c] \in Plan /\ plan[c].need[t] \in Nat /\ Tolls[c] \in Nat
  BY Types, TollsNat DEF IInv
<1>2. CASE Mined(c)
  <2>1. Charge(plan[c], t) \in Nat /\ Charge(plan[c], t) <= plan[c].need[t]
    BY <1>1, <1>2, OutFacts, ChargeBelow DEF Mined
  <2> QED
    BY <1>1, <1>2, <2>1 DEF Took, UsesIn
<1>3. CASE ~Mined(c)
  BY <1>1, <1>3 DEF Took, UsesIn
<1> QED
  BY <1>2, <1>3

\* What was taken is not more than what the calls use.
LEMMA SpentBelow ==
  ASSUME IInv, RInv, NEW c \in Calls, pc[c] # "idle", NEW t \in Tokens
  PROVE  /\ Spent(t) <= Took(c, t) + OthersUse(pc, plan, Tolls, c, t)
         /\ OthersUse(pc, plan, Tolls, c, t) \in Nat
         /\ OthersIn(pc, c) = {} => OthersUse(pc, plan, Tolls, c, t) = 0
<1> DEFINE O == OthersIn(pc, c)
           f == [d \in Begun |-> Took(d, t)]
           g == [d \in O |-> UsesIn(plan, Tolls, d, t)]
<1>1. O = Begun \ {c} /\ c \in Begun
  BY DEF OthersIn, Begun
<1>2. IsFiniteSet(O) /\ IsFiniteSet(Begun)
  BY OthersFinite DEF RInv
<1>3. \A d \in O : g[d] \in Nat /\ f[d] \in Nat /\ f[d] <= g[d]
  BY <1>1, TookUses DEF Begun
<1>4. \A d \in Begun : f[d] \in Int
  <2>1. \A d \in Begun : Took(d, t) \in Nat
    BY TookNat DEF Begun
  <2> QED
    BY <2>1
<1>5. f[c] = Took(c, t) /\ Took(c, t) \in Nat
  BY <1>1, TookNat
<1>6. Spent(t) = SumFunctionOnSet(f, Begun)
  BY DEF Spent
<1>7. OthersUse(pc, plan, Tolls, c, t) = SumFunctionOnSet(g, O)
  BY DEF OthersUse
<1> HIDE DEF f, g, O
<1>8. SumFunctionOnSet(f, Begun) = f[c] + SumFunctionOnSet(f, Begun \ {c})
  <2>1. IsFiniteSet(Begun \ {c})
    BY <1>1, <1>2
  <2> QED
    BY <1>1, <1>2, <1>4, <2>1, SumRemove
<1>9. SumFunctionOnSet(f, O) <= SumFunctionOnSet(g, O)
  BY <1>2, <1>3, SumMono
<1>10. SumFunctionOnSet(g, O) \in Nat /\ SumFunctionOnSet(f, O) \in Nat
  BY <1>2, <1>3, SumNat
<1>11. O = {} => SumFunctionOnSet(g, O) = 0
  BY SumEmpty
<1> QED
  BY <1>1, <1>5, <1>6, <1>7, <1>8, <1>9, <1>10, <1>11 DEF O

\* What is left of a token for a deposit without an excuse.
LEMMA Left ==
  ASSUME IInv, IInv', RInv, NEW c \in Calls, NEW k \in 1 .. MaxSends, tx[c][k] = "pending",
         NEW use \in Nat, UNCHANGED <<chain, pc, plan, approvalCost>>,
         depositCost' = [depositCost EXCEPT ![c] = use], ~Excused(c)', NEW t \in Tokens
  PROVE  /\ Charge(plan[c], t) <= wallet[t]
         /\ t = Native /\ chain.net = "tron" =>
              Charge(plan[c], t) + Excess(use, energy) <= wallet[t]
<1>1. /\ pc[c] # "idle" /\ plan[c] \in Plan /\ plan[c].need[t] \in Nat
      /\ Charge(plan[c], t) \in Nat /\ Charge(plan[c], t) <= plan[c].need[t]
  BY OutFacts, ChargeBelow, Types DEF IInv
<1>2. \A l \in 1 .. MaxSends : tx[c][l] \in {"none", "pending"}
  BY DEF IInv, SentOnce
<1>3. depositCost[c] = 0 /\ ~Mined(c) /\ Out(c)
  BY <1>2 DEF RInv, CallR, Tolled, Mined, Out
<1>4. /\ Tolls[c] \in Nat /\ Tolls'[c] = Tolls[c] + use
      /\ \A d \in Calls \ {c} : Tolls'[d] = Tolls[d]
  BY <1>3 DEF IInv, TypeOK, Tolls
<1>5. Took(c, t) = IF t = Native THEN Tolls[c] ELSE 0
  BY <1>3, <1>4 DEF Took
<1>6. /\ wallet[t] \in Nat /\ Funds[t] \in Nat /\ Spent(t) \in Nat
      /\ Funds[t] <= wallet[t] + Spent(t)
  BY SpentNat, WalletBound DEF RInv, Paid
<1>7. /\ Spent(t) <= Took(c, t) + OthersUse(pc, plan, Tolls, c, t)
      /\ OthersUse(pc, plan, Tolls, c, t) \in Nat
      /\ OthersIn(pc, c) = {} => OthersUse(pc, plan, Tolls, c, t) = 0
  BY <1>1, SpentBelow
<1>8. energy \in Nat /\ Excess(use, energy) \in Nat /\ Excess(use, energy) <= use
  BY BurntFacts DEF IInv, TypeOK
<1>9. CASE OthersIn(pc, c) # {}
  <2>1. ~SharesIn(pc, plan, Tolls', c)
    BY SharesAreNext DEF Excused
  <2>2. OthersUse(pc, plan, Tolls', c, t) = OthersUse(pc, plan, Tolls, c, t)
    <3>1. [d \in OthersIn(pc, c) |-> UsesIn(plan, Tolls', d, t)] =
          [d \in OthersIn(pc, c) |-> UsesIn(plan, Tolls, d, t)]
      BY <1>4 DEF UsesIn, OthersIn
    <3> QED
      BY <3>1 DEF OthersUse
  <2>3. ~(UsesIn(plan, Tolls', c, t) + OthersUse(pc, plan, Tolls, c, t) > Funds[t])
    BY <1>9, <2>1, <2>2 DEF SharesIn
  <2>4. UsesIn(plan, Tolls', c, t) = plan[c].need[t] + IF t = Native THEN Tolls[c] + use ELSE 0
    BY <1>4 DEF UsesIn
  <2>5. CASE t = Native
    <3>1. plan[c].need[t] + use <= wallet[t]
      BY <1>1, <1>4, <1>5, <1>6, <1>7, <2>3, <2>4, <2>5
    <3> QED
      BY <1>1, <1>6, <1>8, <3>1
  <2>6. CASE t # Native
    BY <1>1, <1>5, <1>6, <1>7, <2>3, <2>4, <2>6
  <2> QED
    BY <2>5, <2>6
<1>10. CASE OthersIn(pc, c) = {}
  <2>1. Alone(c) /\ chain.net \in {"evm", "tron", "solana"} /\ Affordable(c)
    BY <1>1, <1>10, CallFacts DEF Alone, OthersIn, OnItsWay
  <2>2. CASE chain.net = "tron" /\ t = Native
    <3>1. plan[c].need[t] + Excess(plan[c].covered, energy) <= wallet[t]
      BY <1>3, <2>1, <2>2 DEF Affordable
    <3>2. ~(depositCost'[c] > plan'[c].covered) /\ depositCost'[c] = use
      BY DEF Excused, Underestimated, IInv, TypeOK
    <3>3. plan[c].covered \in Nat
      BY Types DEF IInv
    <3>4. Excess(use, energy) <= Excess(plan[c].covered, energy) /\ Excess(plan[c].covered, energy) \in Nat
      BY <1>8, <3>2, <3>3 DEF Excess
    <3> QED
      BY <1>1, <1>6, <1>8, <3>1, <3>4
  <2>3. CASE ~(chain.net = "tron" /\ t = Native)
    <3>1. Charge(plan[c], t) <= Funds[t]
      <4>1. CASE chain.net = "evm"
        <5>1. ~(Charge(plan[c], t)' > Funds[t])
          BY <4>1 DEF Excused
        <5>2. Charge(plan[c], t)' = Charge(plan[c], t)
          BY ChargeSame
        <5> QED
          BY <1>1, <1>6, <5>1, <5>2
      <4>2. CASE chain.net # "evm"
        BY <1>3, <2>1, <4>2 DEF Affordable
      <4> QED
        BY <4>1, <4>2
    <3>2. Took(c, t) = 0
      BY <1>4, <1>5, <2>3 DEF RInv, CallR, Tolled
    <3> QED
      BY <1>1, <1>6, <1>7, <1>10, <2>3, <3>1, <3>2
  <2> QED
    BY <2>2, <2>3
<1> QED
  BY <1>9, <1>10

\* A deposit that has no excuse is accepted.
LEMMA Acceptable ==
  ASSUME IInv, IInv', RInv, NEW c \in Calls, NEW k \in 1 .. MaxSends, tx[c][k] = "pending",
         NEW use \in Nat, chain.net # "tron" => use = 0,
         UNCHANGED <<chain, pc, plan, approvalCost>>,
         depositCost' = [depositCost EXCEPT ![c] = use], ~Excused(c)'
  PROVE  Succeeds(plan[c], use)
<1>1. /\ FeeLimit \in Nat /\ Native \in Tokens /\ Word \in Nat \ {0} /\ energy \in Nat
      /\ plan[c].need \in [Tokens -> Nat] /\ plan[c].spender \in Spenders
  BY Types, ProoflessAssumption DEF IInv, TypeOK
<1>2. ~SharesIn(pc, plan, Tolls', c)
  BY SharesAreNext DEF Excused
<1>3. Out(c) /\ pc[c] # "idle"
  BY OutFacts DEF Out
<1>4. Enough(c) /\ Affordable(c) /\ chain.net \in {"evm", "tron", "solana"}
  BY <1>3, CallFacts DEF OnItsWay
<1>5. \A t \in Tokens : /\ Charge(plan[c], t) \in Nat /\ Funds[t] \in Nat
                        /\ chain.net # "solana" => Charge(plan[c], t) = plan[c].need[t]
  BY OutFacts, ProoflessAssumption
<1>6. use <= FeeLimit
  <2>1. depositCost'[c] = use /\ ~(depositCost'[c] > FeeLimit)
    BY DEF Excused, Underestimated, IInv, TypeOK
  <2> QED
    BY <1>1, <2>1
<1>7. \A t \in Tokens : Charge(plan[c], t) <= wallet[t]
  BY Left
<1>8. Charge(plan[c], Native) + Excess(use, energy) <= wallet[Native]
  <2>1. CASE chain.net = "tron"
    BY <1>1, <2>1, Left
  <2>2. CASE chain.net # "tron"
    <3>1. Excess(use, energy) = 0
      BY <1>1, <2>2 DEF Excess
    <3>2. Charge(plan[c], Native) \in Nat /\ Charge(plan[c], Native) <= wallet[Native]
      BY <1>1, <1>5, <1>7
    <3> QED
      BY <3>1, <3>2
  <2> QED
    BY <2>1, <2>2
<1>9. ASSUME chain.net # "solana"
      PROVE  \A t \in Pulled : Charge(plan[c], t) <= allowance[plan[c].spender][t]
  <2> SUFFICES ASSUME NEW t \in Pulled PROVE Charge(plan[c], t) <= allowance[plan[c].spender][t]
    OBVIOUS
  <2>1. Passed(c, t)
    BY <1>3, <1>9 DEF Passed
  <2>2. plan[c].need[t] <= allowance[plan[c].spender][t] \/ CompetesIn(pc, plan, c, t)
    BY <1>4, <2>1, SharesAre DEF Enough
  <2>3. ~CompetesIn(pc, plan, c, t)
    BY <1>2 DEF SharesIn, CompetesIn
  <2> QED
    BY <1>5, <1>9, <2>2, <2>3 DEF Pulled
<1>10. ASSUME chain.net # "solana" PROVE SentValue(plan[c]) = Charge(plan[c], Native)
  <2>1. Charge(plan[c], Native) = plan[c].need[Native] /\ plan[c].need[Native] \in Nat
    BY <1>1, <1>5, <1>10
  <2>2. CASE chain.net = "tron"
    <3>1. plan[c].need[Native] <= Funds[Native]
      BY <1>1, <1>3, <1>4, <2>1, <2>2 DEF Affordable
    <3>2. Funds[Native] \in 0 .. Word - 1
      BY <1>1, ProoflessAssumption
    <3>3. plan[c].need[Native] < Word
      BY <1>1, <2>1, <3>1, <3>2
    <3>4. plan[c].need[Native] % Word = plan[c].need[Native]
      BY <1>1, <2>1, <3>3, Modulo
    <3>5. SentValue(plan[c]) = plan[c].need[Native] % Word
      BY <2>2 DEF SentValue
    <3> QED
      BY <2>1, <3>4, <3>5
  <2>3. CASE chain.net # "tron"
    BY <2>1, <2>3 DEF SentValue
  <2> QED
    BY <2>2, <2>3
<1> QED
  BY <1>6, <1>7, <1>8, <1>9, <1>10 DEF Succeeds, Accepts

\* What a deposit takes, and what it leaves of the allowances.
LEMMA DepositTakes ==
  ASSUME IInv, NEW c \in Calls, NEW k \in 1 .. MaxSends, NEW use \in Nat, MineDeposit(c, k, use)
  PROVE  /\ \A t \in Tokens :
              /\ wallet'[t] <= wallet[t]
              /\ wallet[t] <= wallet'[t] + (IF Succeeds(plan[c], use) THEN Charge(plan[c], t) ELSE 0)
                              + (IF t = Native THEN use ELSE 0)
         /\ \A s \in Spenders, t \in Pulled : allowance'[s][t] # allowance[s][t] =>
              s = plan[c].spender /\ plan[c].need[t] > 0
<1> DEFINE p == plan[c]
           s == p.spender
           burnt == Burnt(use, Excess(wallet[Native], SentValue(p)))
           row == [t \in Tokens |-> IF t = Native THEN allowance[s][t] ELSE allowance[s][t] - Charge(p, t)]
<1>1. /\ s \in Spenders /\ p.need \in [Tokens -> Nat] /\ Native \in Tokens
      /\ allowance \in [Spenders -> [Tokens -> Nat]] /\ wallet \in [Tokens -> Nat]
  BY Types, ProoflessAssumption DEF IInv, TypeOK
<1>2. \A t \in Tokens : Charge(p, t) \in Nat /\ (chain.net # "solana" => Charge(p, t) = p.need[t])
  BY OutFacts DEF MineDeposit
<1>3. burnt \in Nat /\ burnt <= use /\ burnt <= wallet[Native]
  <2>1. /\ Excess(wallet[Native], SentValue(p)) \in Nat
        /\ Excess(wallet[Native], SentValue(p)) <= wallet[Native] /\ wallet[Native] \in Nat
    BY <1>1, SpareNat
  <2>2. /\ burnt \in Nat /\ burnt <= Excess(wallet[Native], SentValue(p))
        /\ burnt <= Excess(use, energy) /\ Excess(use, energy) <= use /\ Excess(use, energy) \in Nat
    BY <2>1, BurntFacts DEF IInv
  <2> HIDE DEF burnt, p
  <2> QED
    BY <2>1, <2>2
<1>4. CASE Succeeds(p, use)
  <2>1. /\ wallet' = [t \in Tokens |-> wallet[t] - Charge(p, t) - (IF t = Native THEN burnt ELSE 0)]
        /\ \/ allowance' = allowance
           \/ chain.net # "solana" /\ allowance' = [allowance EXCEPT ![s] = row]
    BY <1>1, <1>4 DEF MineDeposit
  <2>2. ASSUME NEW t \in Tokens
        PROVE  /\ wallet'[t] <= wallet[t]
               /\ wallet[t] <= wallet'[t] + Charge(p, t) + (IF t = Native THEN use ELSE 0)
    <3>1. wallet'[t] = wallet[t] - Charge(p, t) - (IF t = Native THEN burnt ELSE 0)
      BY <2>1
    <3>2. wallet[t] \in Nat /\ Charge(p, t) \in Nat
      BY <1>1, <1>2
    <3> HIDE DEF p, burnt
    <3> QED
      BY <1>3, <3>1, <3>2
  <2>3. ASSUME NEW r \in Spenders, NEW t \in Pulled, allowance'[r][t] # allowance[r][t]
        PROVE  r = s /\ p.need[t] > 0
    <3>1. chain.net # "solana" /\ allowance' = [allowance EXCEPT ![s] = row]
      BY <2>1, <2>3
    <3>2. t \in Tokens /\ t # Native
      BY DEF Pulled
    <3>3. row[t] = allowance[s][t] - p.need[t]
      BY <1>2, <3>1, <3>2
    <3> HIDE DEF row
    <3>4. r = s
      BY <1>1, <2>3, <3>1
    <3>5. allowance'[r][t] = allowance[s][t] - p.need[t] /\ allowance[s][t] \in Nat /\ p.need[t] \in Nat
      BY <1>1, <3>1, <3>2, <3>3, <3>4
    <3> QED
      BY <2>3, <3>4, <3>5
  <2> QED
    BY <1>4, <2>2, <2>3
<1>5. CASE ~Succeeds(p, use)
  <2>1. wallet' = [wallet EXCEPT ![Native] = @ - burnt] /\ allowance' = allowance
    BY <1>5 DEF MineDeposit
  <2>2. ASSUME NEW t \in Tokens
        PROVE  wallet'[t] <= wallet[t] /\ wallet[t] <= wallet'[t] + 0 + (IF t = Native THEN use ELSE 0)
    <3>1. wallet'[t] = wallet[t] - (IF t = Native THEN burnt ELSE 0) /\ wallet[t] \in Nat
      <4>1. wallet[t] \in Nat
        BY <1>1
      <4> HIDE DEF burnt
      <4> QED
        BY <1>1, <2>1, <4>1
    <3> HIDE DEF burnt
    <3> QED
      BY <1>3, <3>1
  <2> QED
    BY <1>5, <2>1, <2>2
<1> QED
  BY <1>4, <1>5

\* A deposit is mined.
LEMMA MineDepositR ==
  ASSUME IInv, IInv', RInv, NEW c \in Calls, NEW k \in 1 .. MaxSends, NEW use \in Nat,
         MineDeposit(c, k, use)
  PROVE  RInv'
<1> DEFINE v == IF Succeeds(plan[c], use) THEN "mined" ELSE "reverted"
<1>1. /\ tx[c][k] = "pending" /\ (chain.net # "tron" => use = 0)
      /\ tx' = [tx EXCEPT ![c][k] = v] /\ depositCost' = [depositCost EXCEPT ![c] = use]
      /\ UNCHANGED <<chain, pc, plan, pending, approvalCost>>
  BY DEF MineDeposit
<1>2. v \in {"mined", "reverted"}
  OBVIOUS
<1>3. \A d \in Calls, l \in 1 .. MaxSends : tx'[d][l] = IF d = c /\ l = k THEN v ELSE tx[d][l]
  <2> HIDE DEF v
  <2> QED
    BY <1>1 DEF IInv, TypeOK
<1>4. /\ pc[c] \notin BeforeSend /\ pc[c] # "idle"
      /\ \A l \in 1 .. MaxSends : tx[c][l] # "none" => l = k
  <2>1. \A l \in 1 .. MaxSends : tx[c][l] # "none" => l = k
    BY <1>1 DEF IInv, SentOnce
  <2> QED
    BY <1>1, <2>1, OutFacts
<1>5. \A l \in 1 .. MaxSends : tx[c][l] \in {"none", "pending"}
  BY <1>1, <1>4
<1>6. /\ ~Mined(c) /\ (Mined(c)' <=> v = "mined") /\ ~Out(c)'
      /\ \A l \in 1 .. MaxSends : tx'[c][l] = "reverted" => v = "reverted"
  <2> HIDE DEF v
  <2> QED
    BY <1>2, <1>3, <1>4, <1>5 DEF Mined, Out
<1>7. depositCost[c] = 0 /\ (Tolls[c] # 0 => chain.net = "tron")
  BY <1>5 DEF RInv, CallR, Tolled
<1>8. /\ Tolls[c] \in Nat /\ Tolls'[c] = Tolls[c] + use
      /\ \A d \in Calls \ {c} : depositCost'[d] = depositCost[d]
  BY <1>1, <1>7 DEF IInv, TypeOK, Tolls
<1>9. StepOf(c)
  <2>1. \A d \in Calls \ {c} : tx'[d] = tx[d]
    <3> HIDE DEF v
    <3> QED
      BY <1>1 DEF IInv, TypeOK
  <2>2. Tolls[c] <= Tolls'[c]
    BY <1>8
  <2>3. \A s \in Spenders, t \in Pulled : allowance'[s][t] # allowance[s][t] =>
          s = plan[c].spender /\ plan[c].need[t] > 0
    BY DepositTakes
  <2> HIDE DEF v
  <2> QED
    BY <1>1, <1>4, <1>8, <2>1, <2>2, <2>3 DEF StepOf
<1>10. Paid'
  <2> SUFFICES ASSUME NEW t \in Tokens
               PROVE  /\ wallet'[t] \in Nat /\ Took(c, t)' \in Nat /\ wallet'[t] <= wallet[t]
                      /\ wallet[t] + Took(c, t) <= wallet'[t] + Took(c, t)'
    BY <1>9, PaidStep
  <2>1. wallet[t] \in Nat /\ wallet'[t] \in Nat
    BY DEF IInv, TypeOK
  <2>2. Charge(plan[c], t) \in Nat /\ Charge(plan[c], t)' = Charge(plan[c], t)
    BY <1>1, OutFacts, ChargeSame
  <2>3. Took(c, t) = IF t = Native THEN Tolls[c] ELSE 0
    BY <1>6, <1>8 DEF Took
  <2>4. Took(c, t)' = (IF v = "mined" THEN Charge(plan[c], t) ELSE 0)
                      + (IF t = Native THEN Tolls[c] + use ELSE 0)
    <3> HIDE DEF v
    <3> QED
      BY <1>6, <1>8, <2>2 DEF Took
  <2>5. /\ wallet'[t] <= wallet[t]
        /\ wallet[t] <= wallet'[t] + (IF v = "mined" THEN Charge(plan[c], t) ELSE 0)
                        + (IF t = Native THEN use ELSE 0)
    BY DepositTakes
  <2> HIDE DEF v
  <2> QED
    BY <1>8, <2>1, <2>2, <2>3, <2>4, <2>5
<1>11. OnItsWay(c)'
  BY <1>1 DEF RInv, CallR, OnItsWay
<1>12. Tolled(c)'
  <2>1. tx'[c][k] \notin {"none", "pending"}
    <3> HIDE DEF v
    <3> QED
      BY <1>2, <1>3
  <2>2. Tolls'[c] # 0 => chain'.net = "tron"
    BY <1>1, <1>7, <1>8
  <2> QED
    BY <2>1, <2>2 DEF Tolled
<1>13. Enough(c)' /\ Affordable(c)'
  BY <1>1, <1>4, <1>6 DEF Enough, Passed, Affordable, BeforeSend
<1>14. v = "reverted" => Excused(c)'
  <2>1. ASSUME ~Excused(c)' PROVE Succeeds(plan[c], use)
    BY <1>1, <2>1, Acceptable
  <2> QED
    BY <2>1
<1>15. CallR(c)'
  <2> HIDE DEF v
  <2> QED
    BY <1>6, <1>11, <1>12, <1>13, <1>14 DEF CallR
<1>16. Broadcasts'
  BY <1>1, <1>9, BroadcastsKeep DEF Broadcasts
<1> QED
  BY <1>9, <1>10, <1>15, <1>16, StepR

\* Energy that comes back takes nothing from anybody.
LEMMA StillR ==
  ASSUME IInv, IInv', RInv, energy <= energy',
         UNCHANGED <<chain, wallet, allowance, pc, plan, pending, tx, approvalCost, depositCost>>
  PROVE  RInv'
<1>1. Tolls' = Tolls /\ Begun' = Begun
  BY DEF Tolls, Begun
<1>2. \A d \in Calls : \A t : Charge(plan[d], t)' = Charge(plan[d], t)
  BY ChargeSame
<1>3. \A d \in Calls : (Out(d)' <=> Out(d)) /\ (Mined(d)' <=> Mined(d)) /\ (Alone(d)' <=> Alone(d))
  BY DEF Out, Mined, Alone
<1>4. Paid'
  <2>1. ASSUME NEW t \in Tokens PROVE Spent(t)' = Spent(t)
    <3>1. \A d \in Begun : Took(d, t)' = Took(d, t)
      BY <1>1, <1>2, <1>3 DEF Took, Begun
    <3>2. [d \in Begun |-> Took(d, t)]' = [d \in Begun |-> Took(d, t)]
      BY <1>1, <3>1
    <3> QED
      BY <1>1, <3>2 DEF Spent
  <2> QED
    BY <2>1 DEF RInv, Paid
<1>5. ASSUME NEW d \in Calls PROVE CallR(d)'
  <2>1. CallR(d)
    BY DEF RInv
  <2>2. OnItsWay(d)' /\ Tolled(d)'
    BY <1>1, <2>1 DEF CallR, OnItsWay, Tolled
  <2>3. Enough(d)'
    <3>1. \A t : (Passed(d, t)' <=> Passed(d, t)) /\ (Competes(d, t)' <=> Competes(d, t))
      BY <1>3 DEF Passed, Competes
    <3> QED
      BY <2>1, <3>1 DEF CallR, Enough
  <2>4. Affordable(d)'
    <3>1. ASSUME plan[d].need[Native] + Excess(plan[d].covered, energy) <= wallet[Native]
          PROVE  plan[d].need[Native] + Excess(plan[d].covered, energy') <= wallet[Native]
      <4>1. /\ plan[d].need[Native] \in Nat /\ plan[d].covered \in Nat /\ wallet[Native] \in Nat
            /\ energy \in Nat /\ energy' \in Nat
        BY Types, ProoflessAssumption DEF IInv, TypeOK
      <4> QED
        BY <3>1, <4>1 DEF Excess
    <3> QED
      BY <1>2, <1>3, <2>1, <3>1 DEF CallR, Affordable
  <2>5. Excused(d)' <=> Excused(d)
    <3>1. Shares(d)' <=> Shares(d)
      <4>1. Shares(d)' <=> SharesIn(pc', plan', Tolls', d)
        BY SharesAreNext
      <4>2. Shares(d) <=> SharesIn(pc, plan, Tolls, d)
        BY SharesAre
      <4> QED
        BY <1>1, <4>1, <4>2
    <3>2. Underestimated(d)' <=> Underestimated(d)
      BY DEF Underestimated
    <3> QED
      BY <1>2, <3>1, <3>2 DEF Excused
  <2> QED
    BY <2>1, <2>2, <2>3, <2>4, <2>5 DEF CallR
<1>6. Broadcasts' /\ IsFiniteSet(Begun')
  BY <1>1 DEF RInv, Broadcasts
<1> QED
  BY <1>4, <1>5, <1>6 DEF RInv

LEMMA InitR == Init => RInv
<1> SUFFICES ASSUME Init PROVE RInv
  OBVIOUS
<1>1. \A c \in Calls : /\ pc[c] = "idle" /\ depositCost[c] = 0 /\ Tolls[c] = 0
                       /\ \A k \in 1 .. MaxSends : tx[c][k] = "none"
  BY DEF Init, Tolls
<1>2. Begun = {}
  BY <1>1 DEF Begun
<1>3. IsFiniteSet(Begun)
  BY <1>2, FS_EmptySet
<1>4. Paid
  <2> SUFFICES ASSUME NEW t \in Tokens PROVE wallet[t] <= Funds[t] /\ Funds[t] <= wallet[t] + Spent(t)
    BY DEF Paid
  <2>1. Spent(t) = 0
    BY <1>2, SumEmpty DEF Spent
  <2>2. wallet[t] = Funds[t] /\ Funds[t] \in Nat
    BY ProoflessAssumption DEF Init
  <2> QED
    BY <2>1, <2>2
<1>5. Broadcasts
  BY DEF Init, Broadcasts
<1>6. ASSUME NEW c \in Calls PROVE CallR(c)
  <2>1. ~Out(c)
    BY <1>1 DEF Out
  <2> QED
    BY <1>1, <2>1 DEF CallR, OnItsWay, Tolled, Enough, Passed, Affordable
<1> QED
  BY <1>3, <1>4, <1>5, <1>6 DEF RInv

LEMMA NextR == IInv /\ IInv' /\ RInv /\ [Next]_prooflessVars => RInv'
<1> SUFFICES ASSUME IInv, IInv', RInv, [Next]_prooflessVars PROVE RInv'
  OBVIOUS
<1>1. ASSUME NEW c \in Calls, CallStep(c) PROVE RInv'
  <2>1. CASE \E r \in Requests : Begin(c, r)
    BY <2>1, BeginR
  <2>2. CASE \E found \in BOOLEAN : PickRelay(c, found)
    BY <2>2, PickRelayR
  <2>3. CASE NextApproval(c)
    BY <2>3, NextApprovalR
  <2>4. CASE ResetApproval(c)
    BY <2>4, ApproveR DEF ResetApproval
  <2>5. CASE ApproveTokenToHinkal(c)
    BY <2>5, ApproveR DEF ApproveTokenToHinkal
  <2>6. CASE BroadcastApproval(c)
    BY <2>6, BroadcastR
  <2>7. CASE WaitForTronErc20Approvals(c)
    BY <2>7, WaitR
  <2>8. CASE SimulateTronTransaction(c)
    BY <2>8, SimulateR
  <2>9. CASE \E use \in Costs, known \in BOOLEAN : CheckTronBalance(c, use, known)
    BY <2>9, CheckBalanceR
  <2>10. CASE SendTransaction(c)
    BY <2>10, SendTransactionR
  <2>11. CASE SignAndSendSolanaInstructions(c)
    BY <2>11, SignAndSendR
  <2>12. CASE RequestFails(c)
    BY <2>12, RequestFailsR
  <2> QED
    BY <1>1, <2>1, <2>2, <2>3, <2>4, <2>5, <2>6, <2>7, <2>8, <2>9, <2>10, <2>11, <2>12
    DEF CallStep
<1>2. ASSUME NEW a \in pending, NEW use \in Costs, MineApproval(a, use) PROVE RInv'
  BY <1>2, MineApprovalR
<1>3. ASSUME NEW c \in Calls, NEW k \in 1 .. MaxSends, NEW use \in Costs \union {0},
             MineDeposit(c, k, use)
      PROVE  RInv'
  <2>1. use \in Nat
    BY ProoflessAssumption
  <2> QED
    BY <1>3, <2>1, MineDepositR
<1>4. CASE Regenerate
  <2>1. energy <= energy'
    BY <1>4 DEF Regenerate, IInv, TypeOK
  <2> QED
    BY <1>4, <2>1, StillR DEF Regenerate
<1>5. CASE UNCHANGED prooflessVars
  <2>1. UNCHANGED <<chain, wallet, allowance, pc, plan, pending, tx, energy, approvalCost, depositCost>>
    BY <1>5 DEF prooflessVars, tronVars
  <2>2. energy <= energy'
    BY <2>1 DEF IInv, TypeOK
  <2> QED
    BY <2>1, <2>2, StillR
<1> QED
  BY <1>1, <1>2, <1>3, <1>4, <1>5 DEF Next

\* A deposit is reverted only if the estimate of its Tron call was too low or
\* ran into the fee limit, if an EVM wallet never had the funds, or over an
\* allowance, or funds for amounts and energy, that the calls of the wallet
\* share.
THEOREM RevertedOnlyIfSharedAlways == Spec => []RevertedOnlyIfShared
<1>1. RInv => RevertedOnlyIfShared
  BY DEF RInv, CallR, Excused, RevertedOnlyIfShared
<1> QED
  BY <1>1, InitR, NextR, Invariance, PTL DEF Spec
=============================================================================
