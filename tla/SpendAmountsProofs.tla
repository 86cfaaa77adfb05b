------------------------- MODULE SpendAmountsProofs -------------------------
(***************************************************************************)
(* Facts about the operators of SpendAmounts, for any UTXOs: finite sums,  *)
(* the order of the inputs (largest first, older first), padding and the   *)
(* limit of six, what a row of inputs amounts to, and that no other UTXOs  *)
(* are worth more.                                                         *)
(***************************************************************************)
EXTENDS SpendAmounts, FiniteSetTheorems, NaturalsInduction, WellFoundedInduction,
        SequenceTheorems, TLAPS

-----------------------------------------------------------------------------
(***************************************************************************)
(* Finite sets and sums.                                                   *)
(***************************************************************************)
\* A nonempty set of natural numbers has a least element.
LEMMA LeastNumber ==
  ASSUME NEW T \in SUBSET Nat, T # {}
  PROVE  \E n \in T : \A m \in T : n <= m
<1>1. PICK n \in T : \A m \in T : <<m, n>> \notin OpToRel(<, Nat)
  BY NatLessThanWellFounded, WFMin
<1>2. \A m \in T : ~(m < n)
  BY <1>1 DEF OpToRel
<1> QED
  BY <1>2

\* Induction over the subsets of a finite set: G is the set of those for which
\* something holds.
LEMMA SubsetInduction ==
  ASSUME NEW S, IsFiniteSet(S), NEW G, {} \in G,
         \A T \in SUBSET S : T # {} /\ (\A x \in T : T \ {x} \in G) => T \in G
  PROVE  \A T \in SUBSET S : T \in G
<1> DEFINE Bad == {T \in SUBSET S : T \notin G}
           Sizes == {Cardinality(T) : T \in Bad}
<1>1. SUFFICES ASSUME Bad # {} PROVE FALSE
  OBVIOUS
<1>2. \A T \in SUBSET S : IsFiniteSet(T) /\ Cardinality(T) \in Nat
  BY FS_Subset, FS_CardinalityType
<1>3. Sizes \in SUBSET Nat /\ Sizes # {}
  BY <1>1, <1>2
<1>4. PICK n \in Sizes : \A m \in Sizes : n <= m
  BY <1>3, LeastNumber
<1>5. PICK T \in Bad : n = Cardinality(T)
  BY <1>4
<1>6. T # {} /\ T \in SUBSET S
  BY <1>5
<1>7. ASSUME NEW x \in T PROVE T \ {x} \in G
  <2>1. Cardinality(T \ {x}) = n - 1 /\ n \in Nat
    BY <1>2, <1>5, <1>6, FS_RemoveElement
  <2>2. T \ {x} \notin Bad
    BY <1>4, <2>1
  <2> QED
    BY <1>6, <2>2
<1>8. T \in G
  BY <1>6, <1>7
<1> QED
  BY <1>5, <1>8

\* The index that SumFunctionOnSet takes next.
Chosen(s) == CHOOSE x \in s : TRUE

Summed(f, g, s) == IF s = {} THEN 0 ELSE f[Chosen(s)] + g[s \ {Chosen(s)}]

Small(S, n) == {s \in SUBSET S : Cardinality(s) <= n}

\* g sums f over the subsets of S with at most n elements.
Sums(f, g, S, n) ==
  DOMAIN g = Small(S, n) /\ \A s \in Small(S, n) : g[s] = Summed(f, g, s)

\* A finite set without one of its elements.
LEMMA Smaller ==
  ASSUME NEW S, IsFiniteSet(S), NEW n \in Nat, NEW s \in Small(S, n + 1), s # {}
  PROVE  Chosen(s) \in s /\ s \ {Chosen(s)} \in Small(S, n)
<1>1. Chosen(s) \in s
  BY DEF Chosen
<1>2. IsFiniteSet(s)
  BY FS_Subset DEF Small
<1>3. Cardinality(s \ {Chosen(s)}) = Cardinality(s) - 1 /\ Cardinality(s) \in Nat
  BY <1>1, <1>2, FS_RemoveElement, FS_CardinalityType
<1> QED
  BY <1>1, <1>3 DEF Small

\* There is such a g for the empty set, and for sets of one more element.
LEMMA SumsStart ==
  ASSUME NEW S, IsFiniteSet(S), NEW f
  PROVE  \E g : Sums(f, g, S, 0)
<1> DEFINE g == [s \in Small(S, 0) |-> 0]
<1>1. ASSUME NEW s \in Small(S, 0) PROVE s = {}
  <2>1. IsFiniteSet(s) /\ Cardinality(s) <= 0
    BY FS_Subset DEF Small
  <2>2. Cardinality(s) \in Nat /\ (Cardinality(s) = 0 <=> s = {})
    BY <2>1, FS_CardinalityType, FS_EmptySet
  <2> QED
    BY <2>1, <2>2
<1>2. Sums(f, g, S, 0)
  BY <1>1 DEF Sums, Summed
<1> QED
  BY <1>2

\* The partial sums along the set, by induction on its size.
LEMMA SumsStep ==
  ASSUME NEW S, IsFiniteSet(S), NEW f, NEW n \in Nat, NEW g, Sums(f, g, S, n)
  PROVE  \E h : Sums(f, h, S, n + 1)
<1> DEFINE h == [s \in Small(S, n + 1) |-> Summed(f, g, s)]
<1>2. ASSUME NEW s \in Small(S, n) PROVE s \in Small(S, n + 1) /\ h[s] = g[s]
  <2>1. Cardinality(s) \in Nat
    BY FS_Subset, FS_CardinalityType DEF Small
  <2>2. s \in Small(S, n + 1)
    BY <2>1 DEF Small
  <2> QED
    BY <2>2 DEF Sums
<1>3. ASSUME NEW s \in Small(S, n + 1) PROVE Summed(f, h, s) = Summed(f, g, s)
  <2>1. CASE s = {}
    BY <2>1 DEF Summed
  <2>2. CASE s # {}
    <3>1. h[s \ {Chosen(s)}] = g[s \ {Chosen(s)}]
      BY <2>2, Smaller, <1>2
    <3> HIDE DEF h
    <3> QED
      BY <2>2, <3>1 DEF Summed
  <2> QED
    BY <2>1, <2>2
<1>4. Sums(f, h, S, n + 1)
  <2>1. DOMAIN h = Small(S, n + 1)
    OBVIOUS
  <2>2. \A s \in Small(S, n + 1) : h[s] = Summed(f, g, s)
    OBVIOUS
  <2> HIDE DEF h
  <2> QED
    BY <1>3, <2>1, <2>2 DEF Sums
<1> QED
  BY <1>4

LEMMA SumsExist ==
  ASSUME NEW S, IsFiniteSet(S), NEW f, NEW n \in Nat
  PROVE  \E g : Sums(f, g, S, n)
<1> DEFINE Bad == {m \in Nat : ~ \E g : Sums(f, g, S, m)}
<1>1. SUFFICES ASSUME Bad # {} PROVE FALSE
  OBVIOUS
<1>2. PICK m \in Bad : \A l \in Bad : m <= l
  BY <1>1, LeastNumber
<1>3. m # 0
  BY <1>2, SumsStart
<1>4. m - 1 \in Nat /\ m - 1 \notin Bad /\ (m - 1) + 1 = m
  BY <1>2, <1>3
<1>5. PICK g : Sums(f, g, S, m - 1)
  BY <1>4
<1>6. \E h : Sums(f, h, S, (m - 1) + 1)
  BY <1>4, <1>5, SumsStep
<1> QED
  BY <1>2, <1>4, <1>6

\* The function behind SumFunctionOnSet(f, S): it has the values its
\* definition says.
Iter(f, S) == CHOOSE g : g = [s \in SUBSET S |-> Summed(f, g, s)]

LEMMA SumIter ==
  ASSUME NEW S, IsFiniteSet(S), NEW f
  PROVE  /\ SumFunctionOnSet(f, S) = Iter(f, S)[S]
         /\ \A s \in SUBSET S : Iter(f, S)[s] = Summed(f, Iter(f, S), s)
<1> DEFINE Fixed(g) == g = [s \in SUBSET S |-> Summed(f, g, s)]
<1>1. SumFunctionOnSet(f, S) = Iter(f, S)[S]
  BY DEF SumFunctionOnSet, FoldFunctionOnSet, MapThenFoldSet, Summed, Chosen, Iter
<1>2. PICK g : Sums(f, g, S, Cardinality(S))
  BY SumsExist, FS_CardinalityType
<1>3. Small(S, Cardinality(S)) = SUBSET S
  BY FS_Subset DEF Small
<1>4. DOMAIN g = SUBSET S /\ \A s \in SUBSET S : g[s] = Summed(f, g, s)
  BY <1>2, <1>3 DEF Sums
<1>d. DEFINE h == [s \in SUBSET S |-> g[s]]
<1>5. Fixed(h)
  <2>1. ASSUME NEW s \in SUBSET S PROVE Summed(f, h, s) = Summed(f, g, s)
    <3>1. s # {} => h[s \ {Chosen(s)}] = g[s \ {Chosen(s)}]
      OBVIOUS
    <3> HIDE DEF h
    <3> QED
      BY <3>1 DEF Summed
  <2>2. \A s \in SUBSET S : g[s] = Summed(f, h, s)
    BY <1>4, <2>1
  <2> QED
    BY <2>2
<1>6. Fixed(Iter(f, S))
  <2> HIDE DEF h
  <2> QED
    BY <1>5 DEF Iter
<1>7. \A s \in SUBSET S : Iter(f, S)[s] = Summed(f, Iter(f, S), s)
  BY <1>6
<1> QED
  BY <1>1, <1>7

\* The sums of a set and of a subset of it agree on what is below both.
LEMMA IterAgree ==
  ASSUME NEW S, IsFiniteSet(S), NEW T \in SUBSET S, NEW f, NEW e, \A x \in T : f[x] = e[x]
  PROVE  Iter(f, S)[T] = Iter(e, T)[T]
<1> DEFINE G == {s \in SUBSET T : Iter(f, S)[s] = Iter(e, T)[s]}
<1>1. IsFiniteSet(T)
  BY FS_Subset
<1>2. \A s \in SUBSET T : /\ Iter(f, S)[s] = Summed(f, Iter(f, S), s)
                          /\ Iter(e, T)[s] = Summed(e, Iter(e, T), s)
  BY <1>1, SumIter
<1>3. {} \in G
  BY <1>2 DEF Summed
<1>4. ASSUME NEW s \in SUBSET T, s # {}, \A x \in s : s \ {x} \in G PROVE s \in G
  <2>1. Chosen(s) \in s
    BY <1>4 DEF Chosen
  <2>2. Iter(f, S)[s \ {Chosen(s)}] = Iter(e, T)[s \ {Chosen(s)}]
    BY <1>4, <2>1
  <2>3. f[Chosen(s)] = e[Chosen(s)]
    BY <2>1
  <2> QED
    BY <1>2, <1>4, <2>2, <2>3 DEF Summed
<1>5. \A s \in SUBSET T : s \in G
  <2> HIDE DEF G
  <2> QED
    BY <1>1, <1>3, <1>4, SubsetInduction
<1> QED
  BY <1>5

\* The empty sum.
LEMMA SumEmpty ==
  ASSUME NEW f
  PROVE  SumFunctionOnSet(f, {}) = 0
<1>1. IsFiniteSet({})
  BY FS_EmptySet
<1> QED
  BY <1>1, SumIter DEF Summed

\* The sum depends on the values at S only.
LEMMA SumEq ==
  ASSUME NEW S, IsFiniteSet(S), NEW f, NEW e, \A x \in S : f[x] = e[x]
  PROVE  SumFunctionOnSet(f, S) = SumFunctionOnSet(e, S)
BY IterAgree, SumIter

LEMMA SumChosen ==
  ASSUME NEW S, IsFiniteSet(S), S # {}, NEW f
  PROVE  SumFunctionOnSet(f, S) = f[Chosen(S)] + SumFunctionOnSet(f, S \ {Chosen(S)})
<1> DEFINE T == S \ {Chosen(S)}
<1>1. T \in SUBSET S /\ IsFiniteSet(T)
  BY FS_Subset
<1>2. Iter(f, S)[T] = Iter(f, T)[T]
  BY <1>1, IterAgree
<1>3. SumFunctionOnSet(f, T) = Iter(f, T)[T]
  BY <1>1, SumIter
<1>4. Iter(f, S)[S] = f[Chosen(S)] + Iter(f, S)[T]
  BY SumIter DEF Summed
<1> QED
  BY <1>2, <1>3, <1>4, SumIter

\* A sum of integers is one, and one of natural numbers is not negative.
LEMMA SumInt ==
  ASSUME NEW S, IsFiniteSet(S), NEW f, \A x \in S : f[x] \in Int
  PROVE  SumFunctionOnSet(f, S) \in Int
<1> DEFINE G == {s \in SUBSET S : SumFunctionOnSet(f, s) \in Int}
<1>1. {} \in G
  BY SumEmpty
<1>2. ASSUME NEW s \in SUBSET S, s # {}, \A x \in s : s \ {x} \in G PROVE s \in G
  <2>1. Chosen(s) \in s /\ IsFiniteSet(s)
    BY <1>2, FS_Subset DEF Chosen
  <2>2. SumFunctionOnSet(f, s) = f[Chosen(s)] + SumFunctionOnSet(f, s \ {Chosen(s)})
    BY <1>2, <2>1, SumChosen
  <2> QED
    BY <1>2, <2>1, <2>2
<1>3. \A s \in SUBSET S : s \in G
  <2> HIDE DEF G
  <2> QED
    BY <1>1, <1>2, SubsetInduction
<1> QED
  BY <1>3

\* Any element can be taken out first.
LEMMA SumRemove ==
  ASSUME NEW S, IsFiniteSet(S), NEW f, \A x \in S : f[x] \in Int, NEW x \in S
  PROVE  SumFunctionOnSet(f, S) = f[x] + SumFunctionOnSet(f, S \ {x})
<1> DEFINE G == {s \in SUBSET S : \A y \in s :
                   SumFunctionOnSet(f, s) = f[y] + SumFunctionOnSet(f, s \ {y})}
<1>1. {} \in G
  OBVIOUS
<1>2. ASSUME NEW s \in SUBSET S, s # {}, \A z \in s : s \ {z} \in G PROVE s \in G
  <2>1. Chosen(s) \in s /\ IsFiniteSet(s)
    BY <1>2, FS_Subset DEF Chosen
  <2>2. SumFunctionOnSet(f, s) = f[Chosen(s)] + SumFunctionOnSet(f, s \ {Chosen(s)})
    BY <1>2, <2>1, SumChosen
  <2>3. ASSUME NEW y \in s PROVE SumFunctionOnSet(f, s) = f[y] + SumFunctionOnSet(f, s \ {y})
    <3> DEFINE z == Chosen(s)
               rest == s \ {y, z}
    <3>1. CASE y = z
      BY <2>2, <3>1
    <3>2. CASE y # z
      <4>1. (s \ {z}) \ {y} = rest /\ (s \ {y}) \ {z} = rest
        OBVIOUS
      <4>2. SumFunctionOnSet(f, s \ {z}) = f[y] + SumFunctionOnSet(f, rest)
        BY <1>2, <2>1, <3>2, <4>1
      <4>3. SumFunctionOnSet(f, s \ {y}) = f[z] + SumFunctionOnSet(f, rest)
        BY <1>2, <2>1, <3>2, <4>1
      <4>4. IsFiniteSet(rest) /\ rest \subseteq S
        BY <2>1, FS_Subset
      <4>5. SumFunctionOnSet(f, rest) \in Int
        BY <4>4, SumInt
      <4>6. f[y] \in Int /\ f[z] \in Int
        BY <2>1
      <4> HIDE DEF z, rest
      <4> QED
        BY <2>2, <4>2, <4>3, <4>5, <4>6 DEF z
    <3> QED
      BY <3>1, <3>2
  <2> QED
    BY <2>3
<1>3. \A s \in SUBSET S : s \in G
  <2> HIDE DEF G
  <2> QED
    BY <1>1, <1>2, SubsetInduction
<1> QED
  BY <1>3

LEMMA SumSingle ==
  ASSUME NEW f, NEW x, f[x] \in Int
  PROVE  SumFunctionOnSet(f, {x}) = f[x]
<1>1. IsFiniteSet({x}) /\ {x} \ {x} = {}
  BY FS_Singleton
<1>2. SumFunctionOnSet(f, {x}) = f[x] + SumFunctionOnSet(f, {})
  BY <1>1, SumRemove
<1> QED
  BY <1>2, SumEmpty

\* Sums over disjoint sets add up.
LEMMA SumUnion ==
  ASSUME NEW S, IsFiniteSet(S), NEW T, IsFiniteSet(T), S \cap T = {},
         NEW f, \A x \in S \cup T : f[x] \in Int
  PROVE  SumFunctionOnSet(f, S \cup T) = SumFunctionOnSet(f, S) + SumFunctionOnSet(f, T)
<1> DEFINE Good(s) == SumFunctionOnSet(f, s \cup T) = SumFunctionOnSet(f, s) + SumFunctionOnSet(f, T)
           G == {s \in SUBSET S : Good(s)}
<1>0. SumFunctionOnSet(f, T) \in Int
  BY SumInt
<1>1. {} \in G
  <2>1. {} \cup T = T
    OBVIOUS
  <2> QED
    BY <1>0, <2>1, SumEmpty
<1>2. ASSUME NEW s \in SUBSET S, s # {}, \A z \in s : s \ {z} \in G PROVE s \in G
  <2>1. PICK z \in s : TRUE
    BY <1>2
  <2>2. IsFiniteSet(s) /\ IsFiniteSet(s \cup T) /\ IsFiniteSet(s \ {z})
    BY FS_Subset, FS_Union
  <2>3. (s \cup T) \ {z} = (s \ {z}) \cup T
    BY <2>1
  <2>4. SumFunctionOnSet(f, s \cup T) = f[z] + SumFunctionOnSet(f, (s \ {z}) \cup T)
    BY <2>1, <2>2, <2>3, SumRemove
  <2>5. SumFunctionOnSet(f, s) = f[z] + SumFunctionOnSet(f, s \ {z})
    BY <2>1, <2>2, SumRemove
  <2>6. SumFunctionOnSet(f, (s \ {z}) \cup T)
          = SumFunctionOnSet(f, s \ {z}) + SumFunctionOnSet(f, T)
    BY <1>2, <2>1
  <2>7. SumFunctionOnSet(f, s \ {z}) \in Int /\ f[z] \in Int
    BY <2>1, <2>2, SumInt
  <2> QED
    BY <1>0, <2>4, <2>5, <2>6, <2>7
<1>3. \A s \in SUBSET S : s \in G
  <2> HIDE DEF G
  <2> QED
    BY <1>1, <1>2, SubsetInduction
<1> QED
  BY <1>3

\* So a subset can be taken out.
LEMMA SumWithout ==
  ASSUME NEW S, IsFiniteSet(S), NEW T \in SUBSET S, NEW f, \A x \in S : f[x] \in Int
  PROVE  SumFunctionOnSet(f, S \ T) = SumFunctionOnSet(f, S) - SumFunctionOnSet(f, T)
<1>1. IsFiniteSet(T) /\ IsFiniteSet(S \ T)
  BY FS_Subset
<1>2. (S \ T) \cup T = S /\ (S \ T) \cap T = {}
  OBVIOUS
<1>3. SumFunctionOnSet(f, S) = SumFunctionOnSet(f, S \ T) + SumFunctionOnSet(f, T)
  BY <1>1, <1>2, SumUnion
<1>4. SumFunctionOnSet(f, S \ T) \in Int /\ SumFunctionOnSet(f, T) \in Int
  BY <1>1, SumInt
<1> QED
  BY <1>3, <1>4

\* Zeros add nothing.
LEMMA SumZero ==
  ASSUME NEW S, IsFiniteSet(S), NEW f, \A x \in S : f[x] = 0
  PROVE  SumFunctionOnSet(f, S) = 0
<1> DEFINE G == {s \in SUBSET S : SumFunctionOnSet(f, s) = 0}
<1>1. {} \in G
  BY SumEmpty
<1>2. ASSUME NEW s \in SUBSET S, s # {}, \A z \in s : s \ {z} \in G PROVE s \in G
  <2>1. Chosen(s) \in s /\ IsFiniteSet(s)
    BY <1>2, FS_Subset DEF Chosen
  <2>2. SumFunctionOnSet(f, s) = f[Chosen(s)] + SumFunctionOnSet(f, s \ {Chosen(s)})
    BY <1>2, <2>1, SumChosen
  <2> QED
    BY <1>2, <2>1, <2>2
<1>3. \A s \in SUBSET S : s \in G
  <2> HIDE DEF G
  <2> QED
    BY <1>1, <1>2, SubsetInduction
<1> QED
  BY <1>3

\* A sum of natural numbers.
LEMMA SumNat ==
  ASSUME NEW S, IsFiniteSet(S), NEW f, \A x \in S : f[x] \in Nat
  PROVE  SumFunctionOnSet(f, S) \in Nat
<1> DEFINE G == {s \in SUBSET S : SumFunctionOnSet(f, s) \in Nat}
<1>1. {} \in G
  BY SumEmpty
<1>2. ASSUME NEW s \in SUBSET S, s # {}, \A x \in s : s \ {x} \in G PROVE s \in G
  <2>1. Chosen(s) \in s /\ IsFiniteSet(s)
    BY <1>2, FS_Subset DEF Chosen
  <2>2. SumFunctionOnSet(f, s) = f[Chosen(s)] + SumFunctionOnSet(f, s \ {Chosen(s)})
    BY <1>2, <2>1, SumChosen
  <2> QED
    BY <1>2, <2>1, <2>2
<1>3. \A s \in SUBSET S : s \in G
  <2> HIDE DEF G
  <2> QED
    BY <1>1, <1>2, SubsetInduction
<1> QED
  BY <1>3

\* The image of a finite set.
LEMMA FiniteImage ==
  ASSUME NEW S, IsFiniteSet(S), NEW h
  PROVE  IsFiniteSet({h[x] : x \in S})
<1> DEFINE T == {h[x] : x \in S}
           k == [x \in S |-> h[x]]
<1>1. k \in Surjection(S, T)
  BY DEF Surjection
<1> QED
  BY <1>1, FS_Surjection

\* Another way to count the same things: h renames the indices.
LEMMA SumMap ==
  ASSUME NEW S, IsFiniteSet(S), NEW h, \A x, y \in S : h[x] = h[y] => x = y,
         NEW f, NEW g, \A x \in S : f[x] \in Int /\ g[h[x]] = f[x]
  PROVE  SumFunctionOnSet(g, {h[x] : x \in S}) = SumFunctionOnSet(f, S)
<1> DEFINE Img(s) == {h[x] : x \in s}
           G == {s \in SUBSET S : SumFunctionOnSet(g, Img(s)) = SumFunctionOnSet(f, s)}
<1>1. {} \in G
  <2>1. Img({}) = {}
    OBVIOUS
  <2> QED
    BY <2>1, SumEmpty
<1>2. ASSUME NEW s \in SUBSET S, s # {}, \A z \in s : s \ {z} \in G PROVE s \in G
  <2>1. PICK z \in s : TRUE
    BY <1>2
  <2>2. IsFiniteSet(s)
    BY FS_Subset
  <2>3. IsFiniteSet(Img(s))
    BY <2>2, FiniteImage
  <2>4. Img(s) \ {h[z]} = Img(s \ {z})
    BY <2>1
  <2>5. \A x \in Img(s) : g[x] \in Int
    OBVIOUS
  <2>6. h[z] \in Img(s) /\ g[h[z]] = f[z]
    BY <2>1
  <2>7. SumFunctionOnSet(f, s) = f[z] + SumFunctionOnSet(f, s \ {z})
    BY <2>1, <2>2, SumRemove
  <2>8. SumFunctionOnSet(g, Img(s \ {z})) = SumFunctionOnSet(f, s \ {z})
    BY <1>2, <2>1
  <2> HIDE DEF Img
  <2>9. SumFunctionOnSet(g, Img(s)) = g[h[z]] + SumFunctionOnSet(g, Img(s) \ {h[z]})
    BY <2>3, <2>5, <2>6, SumRemove
  <2> QED
    BY <2>4, <2>6, <2>7, <2>8, <2>9
<1>3. \A s \in SUBSET S : s \in G
  <2> HIDE DEF G
  <2> QED
    BY <1>1, <1>2, SubsetInduction
<1> QED
  BY <1>3

-----------------------------------------------------------------------------
(***************************************************************************)
(* The order of the inputs.                                                *)
(***************************************************************************)
Id == Nat \X (Nat \X Nat)

\* UTXOs to choose from.
Stock(U) ==
  /\ IsFiniteSet(U)
  /\ \A u \in U : u.id \in Id /\ u.amt \in Nat \ {0} /\ u = [id |-> u.id, amt |-> u.amt]
  /\ \A u, v \in U : u.id = v.id => u = v

\* Older is a strict total order of the ids.
LEMMA OlderOrder ==
  /\ \A a \in Id : ~Older(a, a)
  /\ \A a, b \in Id : Older(a, b) \/ Older(b, a) \/ a = b
  /\ \A a, b, c \in Id : Older(a, b) /\ Older(b, c) => Older(a, c)
<1>1. \A a \in Id : /\ a[1] \in Nat /\ a[2][1] \in Nat /\ a[2][2] \in Nat
                    /\ a = <<a[1], <<a[2][1], a[2][2]>>>>
  BY DEF Id
<1>2. \A a, b \in Id : Older(a, b) \/ Older(b, a) \/ a = b
  BY <1>1 DEF Older
<1>3. \A a \in Id : ~Older(a, a)
  BY <1>1 DEF Older
<1>4. \A a, b, c \in Id : Older(a, b) /\ Older(b, c) => Older(a, c)
  BY <1>1 DEF Older
<1> QED
  BY <1>2, <1>3, <1>4

\* Before is a strict total order of the UTXOs.
LEMMA BeforeOrder ==
  ASSUME NEW U, Stock(U)
  PROVE  /\ \A u \in U : ~Before(u, u)
         /\ \A u, v \in U : Before(u, v) \/ Before(v, u) \/ u = v
         /\ \A u, v, w \in U : Before(u, v) /\ Before(v, w) => Before(u, w)
<1>1. \A u \in U : u.id \in Id /\ u.amt \in Nat
  BY DEF Stock
<1>2. \A u \in U : ~Before(u, u)
  BY <1>1, OlderOrder DEF Before
<1>3. \A u, v \in U : Before(u, v) \/ Before(v, u) \/ u = v
  <2>1. SUFFICES ASSUME NEW u \in U, NEW v \in U
                 PROVE  Before(u, v) \/ Before(v, u) \/ u = v
    OBVIOUS
  <2>2. Older(u.id, v.id) \/ Older(v.id, u.id) \/ u = v
    BY <1>1, OlderOrder DEF Stock
  <2> QED
    BY <1>1, <2>2 DEF Before
<1>4. \A u, v, w \in U : Before(u, v) /\ Before(v, w) => Before(u, w)
  <2>1. SUFFICES ASSUME NEW u \in U, NEW v \in U, NEW w \in U, Before(u, v), Before(v, w)
                 PROVE  Before(u, w)
    OBVIOUS
  <2>2. Older(u.id, v.id) /\ Older(v.id, w.id) => Older(u.id, w.id)
    BY <1>1, OlderOrder
  <2> QED
    BY <1>1, <2>1, <2>2 DEF Before
<1> QED
  BY <1>2, <1>3, <1>4

Ahead(U, u) == {v \in U : Before(v, u)}
Rank(U, u) == Cardinality(Ahead(U, u))

\* The ranks of the UTXOs are 1 .. Cardinality(U).
LEMMA RankRange ==
  ASSUME NEW U, Stock(U), NEW u \in U
  PROVE  Rank(U, u) \in 0 .. Cardinality(U) - 1 /\ Cardinality(U) \in Nat
<1>1. IsFiniteSet(U) /\ Ahead(U, u) \in SUBSET U
  BY DEF Ahead, Stock
<1>2. u \notin Ahead(U, u)
  BY BeforeOrder DEF Ahead
<1>3. Cardinality(Ahead(U, u)) \in Nat /\ Cardinality(U) \in Nat
  BY <1>1, FS_Subset, FS_CardinalityType
<1>4. Cardinality(Ahead(U, u)) <= Cardinality(U) /\ Cardinality(Ahead(U, u)) # Cardinality(U)
  BY <1>1, <1>2, FS_Subset
<1> QED
  BY <1>3, <1>4 DEF Rank

\* Who comes before has the smaller rank.
LEMMA RankGrows ==
  ASSUME NEW U, Stock(U), NEW u \in U, NEW v \in U, Before(u, v)
  PROVE  Rank(U, u) < Rank(U, v)
<1>1. IsFiniteSet(Ahead(U, v)) /\ Ahead(U, u) \in SUBSET Ahead(U, v)
  <2>1. IsFiniteSet(U)
    BY DEF Stock
  <2>2. Ahead(U, v) \in SUBSET U
    BY DEF Ahead
  <2>3. Ahead(U, u) \in SUBSET Ahead(U, v)
    BY BeforeOrder DEF Ahead
  <2> QED
    BY <2>1, <2>2, <2>3, FS_Subset
<1>2. u \in Ahead(U, v) /\ u \notin Ahead(U, u)
  BY BeforeOrder DEF Ahead
<1>3. Cardinality(Ahead(U, u)) <= Cardinality(Ahead(U, v))
      /\ Cardinality(Ahead(U, u)) # Cardinality(Ahead(U, v))
  BY <1>1, <1>2, FS_Subset
<1>4. Rank(U, u) \in Nat /\ Rank(U, v) \in Nat
  BY RankRange
<1> QED
  BY <1>3, <1>4 DEF Rank

\* Every rank is taken once.
LEMMA RankOnto ==
  ASSUME NEW U, Stock(U), NEW k \in 0 .. Cardinality(U) - 1
  PROVE  \E u \in U : Rank(U, u) = k
<1> DEFINE n == Cardinality(U)
           R == 0 .. n - 1
           f == [u \in U |-> Rank(U, u)]
<1>1. IsFiniteSet(U) /\ n \in Nat
  BY FS_CardinalityType DEF Stock
<1>2. IsFiniteSet(R) /\ Cardinality(R) = n
  BY <1>1, FS_Interval
<1>3. f \in [U -> R]
  BY RankRange
<1>4. ASSUME NEW u \in U, NEW v \in U, f[u] = f[v] PROVE u = v
  <2>1. Rank(U, u) = Rank(U, v) /\ Rank(U, u) \in Nat
    BY <1>4, RankRange
  <2>2. ~Before(u, v) /\ ~Before(v, u)
    BY <2>1, RankGrows
  <2> QED
    BY <2>2, BeforeOrder
<1>5. f \in Injection(U, R)
  BY <1>3, <1>4 DEF Injection, IsInjective
<1>6. f \in Surjection(U, R)
  BY <1>1, <1>2, <1>5, FS_Injection
<1> QED
  BY <1>6 DEF Surjection

\* What sortAndPadUtxos sorts: all UTXOs, each once, the larger ones first.
LEMMA Sorted ==
  ASSUME NEW U, Stock(U), NEW row, row = SortUtxos(U)
  PROVE  /\ row \in Seq(U) /\ Len(row) = Cardinality(U) /\ Cardinality(U) \in Nat
         /\ \A i \in 1 .. Len(row) : row[i] \in U /\ Rank(U, row[i]) = i - 1
         /\ \A u \in U : \E i \in 1 .. Len(row) : row[i] = u
         /\ \A i, j \in 1 .. Len(row) : row[i] = row[j] => i = j
         /\ \A i, j \in 1 .. Len(row) : i < j => row[i].amt >= row[j].amt
<1> DEFINE n == Cardinality(U)
           Pick(i) == CHOOSE u \in U : Cardinality({v \in U : Before(v, u)}) = i - 1
<1>1. n \in Nat
  BY FS_CardinalityType DEF Stock
<1>2. ASSUME NEW i \in 1 .. n
      PROVE  Pick(i) \in U /\ Cardinality({v \in U : Before(v, Pick(i))}) = i - 1
  <2>1. i - 1 \in 0 .. n - 1
    BY <1>1
  <2>2. \E u \in U : Cardinality({v \in U : Before(v, u)}) = i - 1
    BY <2>1, RankOnto DEF Rank, Ahead
  <2> QED
    BY <2>2
<1>3. row = [i \in 1 .. n |-> Pick(i)]
  BY DEF SortUtxos
<1> HIDE DEF Pick
<1>4. \A i \in 1 .. n : row[i] \in U /\ Cardinality({v \in U : Before(v, row[i])}) = i - 1
  BY <1>2, <1>3
<1> HIDE DEF n
<1>5. row \in Seq(U) /\ Len(row) = n
  <2>1. row \in [1 .. n -> U]
    BY <1>3, <1>4
  <2>2. row \in Seq(U)
    BY <1>1, <2>1, SeqDef
  <2>3. DOMAIN row = 1 .. n /\ DOMAIN row = 1 .. Len(row) /\ Len(row) \in Nat
    BY <2>1, <2>2
  <2> QED
    BY <1>1, <2>2, <2>3
<1>6. \A i \in 1 .. Len(row) : row[i] \in U /\ Rank(U, row[i]) = i - 1
  BY <1>4, <1>5 DEF Rank, Ahead
<1>7. ASSUME NEW i \in 1 .. Len(row), NEW u \in U, Rank(U, u) = i - 1 PROVE row[i] = u
  <2>1. Rank(U, row[i]) = Rank(U, u) /\ row[i] \in U
    BY <1>6, <1>7
  <2>2. Rank(U, u) \in Nat
    BY RankRange
  <2>3. ~Before(row[i], u) /\ ~Before(u, row[i])
    BY <2>1, <2>2, RankGrows
  <2> QED
    BY <2>1, <2>3, BeforeOrder
<1>8. ASSUME NEW u \in U PROVE \E i \in 1 .. Len(row) : row[i] = u
  <2>1. Rank(U, u) + 1 \in 1 .. Len(row) /\ Rank(U, u) = (Rank(U, u) + 1) - 1
    BY <1>5, RankRange DEF n
  <2> QED
    BY <1>7, <2>1
<1>9. ASSUME NEW i \in 1 .. Len(row), NEW j \in 1 .. Len(row), i < j
      PROVE  row[i].amt >= row[j].amt
  <2>1. row[i] \in U /\ row[j] \in U /\ Rank(U, row[i]) < Rank(U, row[j])
    BY <1>6, <1>9
  <2>2. Rank(U, row[i]) \in Nat /\ Rank(U, row[j]) \in Nat
    BY <2>1, RankRange
  <2>3. ~Before(row[j], row[i])
    BY <2>1, <2>2, RankGrows
  <2>4. row[i].amt \in Nat /\ row[j].amt \in Nat
    BY <2>1 DEF Stock
  <2> QED
    BY <2>3, <2>4 DEF Before
<1>10. \A i, j \in 1 .. Len(row) : row[i] = row[j] => i = j
  BY <1>6
<1> QED
  BY <1>1, <1>5, <1>6, <1>8, <1>9, <1>10 DEF n

-----------------------------------------------------------------------------
(***************************************************************************)
(* Padding and the limit of six.                                           *)
(***************************************************************************)
\* A row of the UTXOs of U in their order, then padding.
Filled(row, U) ==
  /\ row \in Seq(U \cup {Pad})
  /\ \A j \in 1 .. Len(row) : row[j] = IF j <= Cardinality(U) THEN SortUtxos(U)[j] ELSE Pad

\* SortUtxos, PadUtxos, a cut and PadTo keep a row filled.
LEMMA FilledSort ==
  ASSUME NEW U, Stock(U)
  PROVE  Filled(SortUtxos(U), U) /\ Len(SortUtxos(U)) = Cardinality(U) /\ Cardinality(U) \in Nat
<1>1. SortUtxos(U) \in Seq(U) /\ Len(SortUtxos(U)) = Cardinality(U) /\ Cardinality(U) \in Nat
  BY Sorted
<1>2. SortUtxos(U) \in Seq(U \cup {Pad})
  BY <1>1, SeqMonotonic
<1> QED
  BY <1>1, <1>2 DEF Filled

LEMMA FilledPad ==
  ASSUME NEW U, Stock(U), NEW row, Filled(row, U), Len(row) >= Cardinality(U), NEW n \in Nat
  PROVE  Filled(PadTo(row, n), U) /\ Len(PadTo(row, n)) = IF Len(row) < n THEN n ELSE Len(row)
<1> DEFINE m == n - Len(row)
           pads == [i \in 1 .. m |-> Pad]
           S == U \cup {Pad}
<1>0. row \in Seq(S) /\ Len(row) \in Nat /\ Cardinality(U) \in Nat
  BY FilledSort DEF Filled
<1>1. CASE Len(row) < n
  <2>1. m \in Nat
    BY <1>0, <1>1
  <2>2. pads \in [1 .. m -> S]
    OBVIOUS
  <2>3. pads \in Seq(S)
    BY <2>1, <2>2, SeqDef
  <2>4. Len(pads) = m
    <3>1. DOMAIN pads = 1 .. m
      OBVIOUS
    <3> HIDE DEF pads, m
    <3>2. DOMAIN pads = 1 .. Len(pads) /\ Len(pads) \in Nat
      BY <2>3
    <3> QED
      BY <2>1, <3>1, <3>2
  <2>5. \A i \in 1 .. m : pads[i] = Pad
    OBVIOUS
  <2> HIDE DEF pads
  <2>6. /\ row \o pads \in Seq(S) /\ Len(row \o pads) = Len(row) + m
        /\ \A i \in 1 .. Len(row) + m :
             (row \o pads)[i] = IF i <= Len(row) THEN row[i] ELSE pads[i - Len(row)]
    BY <1>0, <2>3, <2>4, ConcatProperties
  <2>7. Len(row) + m = n
    BY <1>0
  <2>8. \A i \in 1 .. n : (row \o pads)[i] = IF i <= Cardinality(U) THEN SortUtxos(U)[i] ELSE Pad
    <3>1. SUFFICES ASSUME NEW i \in 1 .. n
                   PROVE  (row \o pads)[i] = IF i <= Cardinality(U) THEN SortUtxos(U)[i] ELSE Pad
      OBVIOUS
    <3>2. CASE i <= Len(row)
      BY <1>0, <2>6, <2>7, <3>2 DEF Filled
    <3>3. CASE i > Len(row)
      <4>1. i - Len(row) \in 1 .. m
        BY <1>0, <3>3
      <4>2. (row \o pads)[i] = Pad
        BY <1>0, <2>5, <2>6, <2>7, <3>3, <4>1
      <4> QED
        BY <1>0, <3>3, <4>2
    <3>4. i <= Len(row) \/ i > Len(row)
      BY <1>0
    <3> QED
      BY <3>2, <3>3, <3>4
  <2>9. PadTo(row, n) = row \o pads
    BY DEF PadTo, pads
  <2> QED
    BY <1>1, <2>6, <2>7, <2>8, <2>9 DEF Filled
<1>2. CASE ~(Len(row) < n)
  <2>1. 1 .. m = {}
    BY <1>0, <1>2
  <2>2. pads = << >>
    <3>1. pads \in [1 .. 0 -> S]
      BY <2>1
    <3>2. pads \in Seq(S)
      BY <3>1, SeqDef
    <3>3. DOMAIN pads = {}
      BY <2>1
    <3> HIDE DEF pads
    <3>4. Len(pads) = 0
      BY <3>2, <3>3
    <3> QED
      BY <3>2, <3>4, EmptySeq
  <2>3. PadTo(row, n) = row \o << >>
    BY <2>2 DEF PadTo
  <2>4. PadTo(row, n) = row
    BY <1>0, <2>3, ConcatEmptySeq
  <2> QED
    BY <1>2, <2>4
<1> QED
  BY <1>1, <1>2

LEMMA FilledCut ==
  ASSUME NEW U, Stock(U), NEW row, Filled(row, U), NEW n \in 1 .. Len(row)
  PROVE  Filled(SubSeq(row, 1, n), U) /\ Len(SubSeq(row, 1, n)) = n
<1>0. row \in Seq(U \cup {Pad}) /\ Len(row) \in Nat
  BY DEF Filled
<1>1. /\ SubSeq(row, 1, n) \in Seq(U \cup {Pad}) /\ Len(SubSeq(row, 1, n)) = n
      /\ \A i \in 1 .. n : SubSeq(row, 1, n)[i] = row[i]
  BY <1>0
<1> QED
  BY <1>0, <1>1 DEF Filled

LEMMA Limits == MinInput \in Nat /\ MaxInput \in Nat /\ 1 < MinInput /\ MinInput < MaxInput
BY DEF MinInput, MaxInput

LEMMA FilledPadUp ==
  ASSUME NEW U, Stock(U), NEW row, Filled(row, U), Len(row) >= Cardinality(U), NEW n \in Nat,
         Len(row) <= n
  PROVE  Filled(PadTo(row, n), U) /\ Len(PadTo(row, n)) = n
<1>1. Filled(PadTo(row, n), U) /\ Len(PadTo(row, n)) = IF Len(row) < n THEN n ELSE Len(row)
  BY FilledPad
<1>2. Len(row) \in Nat
  BY DEF Filled
<1>3. Len(PadTo(row, n)) = IF Len(row) < n THEN n ELSE Len(row)
  BY <1>1
<1>4. Len(PadTo(row, n)) = n
  BY <1>2, <1>3
<1> QED
  BY <1>1, <1>4

\* sortAndPadUtxos: two inputs, or six and more.
LEMMA FilledSortAndPad ==
  ASSUME NEW U, Stock(U)
  PROVE  /\ Filled(SortAndPadUtxos(U), U)
         /\ Len(SortAndPadUtxos(U)) \in Nat
         /\ Cardinality(U) \in Nat
         /\ Len(SortAndPadUtxos(U)) >= Cardinality(U)
         /\ Len(SortAndPadUtxos(U)) = MinInput \/ Len(SortAndPadUtxos(U)) >= MaxInput
<1> DEFINE row == SortUtxos(U)
           c == Cardinality(U)
           sp == SortAndPadUtxos(U)
<1>1. Filled(row, U) /\ Len(row) = c /\ c \in Nat
  BY FilledSort
<1>2. sp = CASE Len(row) < MinInput -> PadTo(row, MinInput)
             [] Len(row) > MinInput /\ Len(row) < MaxInput -> PadTo(row, MaxInput)
             [] OTHER -> row
  BY DEF SortAndPadUtxos, PadUtxos
<1>3. ASSUME NEW n \in Nat, Len(row) <= n
      PROVE  Filled(PadTo(row, n), U) /\ Len(PadTo(row, n)) = n
  <2>1. Len(row) >= Cardinality(U)
    BY <1>1
  <2> QED
    BY <1>1, <1>3, <2>1, FilledPadUp
<1>4. Len(row) = c /\ c \in Nat
  BY <1>1
<1> HIDE DEF row, c, sp
<1>5. CASE Len(row) < MinInput
  <2>1. sp = PadTo(row, MinInput)
    BY <1>2, <1>4, <1>5, Limits
  <2>4. MinInput \in Nat /\ Len(row) <= MinInput
    BY <1>4, <1>5, Limits
  <2>2. Filled(sp, U) /\ Len(sp) = MinInput
    BY <1>3, <2>1, <2>4
  <2>3. Len(sp) \in Nat /\ Len(sp) >= c /\ Len(sp) = MinInput
    BY <1>4, <1>5, <2>2, Limits
  <2> QED
    BY <1>4, <2>2, <2>3 DEF c, sp
<1>6. CASE Len(row) > MinInput /\ Len(row) < MaxInput
  <2>1. sp = PadTo(row, MaxInput)
    BY <1>2, <1>4, <1>6, Limits
  <2>4. MaxInput \in Nat /\ Len(row) <= MaxInput
    BY <1>4, <1>6, Limits
  <2>2. Filled(sp, U) /\ Len(sp) = MaxInput
    BY <1>3, <2>1, <2>4
  <2>3. Len(sp) \in Nat /\ Len(sp) >= c /\ Len(sp) >= MaxInput
    BY <1>4, <1>6, <2>2, Limits
  <2> QED
    BY <1>4, <2>2, <2>3 DEF c, sp
<1>7. CASE Len(row) = MinInput \/ Len(row) >= MaxInput
  <2>1. sp = row
    BY <1>2, <1>4, <1>7, Limits
  <2>2. Filled(sp, U)
    BY <1>1, <2>1
  <2>3. Len(sp) \in Nat /\ Len(sp) >= c /\ (Len(sp) = MinInput \/ Len(sp) >= MaxInput)
    BY <1>4, <1>7, <2>1, Limits
  <2> QED
    BY <1>4, <2>2, <2>3 DEF c, sp
<1>8. \/ Len(row) < MinInput
      \/ Len(row) > MinInput /\ Len(row) < MaxInput
      \/ Len(row) = MinInput \/ Len(row) >= MaxInput
  BY <1>4, Limits
<1> QED
  BY <1>5, <1>6, <1>7, <1>8

\* What the flows put in: two inputs of every token, or six of every token.
LEMMA FilledPadding ==
  ASSUME NEW n \in Nat, NEW S, \A i \in 1 .. n : Stock(S[i]),
         NEW rows, DOMAIN rows = 1 .. n, \A i \in 1 .. n : rows[i] = SortAndPadUtxos(S[i]),
         NEW ins, ins = AddPaddingToUtxos(rows)
  PROVE  /\ DOMAIN ins = 1 .. n
         /\ \A i \in 1 .. n : Filled(ins[i], S[i])
         /\ \/ \A i \in 1 .. n : Len(ins[i]) = MinInput /\ Cardinality(S[i]) <= MinInput
            \/ \A i \in 1 .. n : Len(ins[i]) = MaxInput
<1>1. ASSUME NEW i \in 1 .. n
      PROVE  /\ Filled(rows[i], S[i]) /\ Len(rows[i]) \in Nat /\ Cardinality(S[i]) \in Nat
             /\ Len(rows[i]) >= Cardinality(S[i])
             /\ Len(rows[i]) = MinInput \/ Len(rows[i]) >= MaxInput
  BY FilledSortAndPad
<1>3. CASE AllMinimal(rows)
  <2>1. ins = rows
    BY <1>3 DEF AddPaddingToUtxos
  <2>2. \A i \in 1 .. n : Len(rows[i]) = MinInput
    BY <1>3 DEF AllMinimal
  <2>3. \A i \in 1 .. n : Cardinality(S[i]) <= MinInput
    BY <1>1, <2>2
  <2> QED
    BY <1>1, <2>1, <2>2, <2>3
<1>4. CASE ~AllMinimal(rows)
  <2>1. /\ DOMAIN ins = 1 .. n
        /\ \A i \in 1 .. n : ins[i] = IF Len(rows[i]) > MaxInput THEN SubSeq(rows[i], 1, MaxInput)
                                                                 ELSE PadTo(rows[i], MaxInput)
    BY <1>4 DEF AddPaddingToUtxos
  <2>2. ASSUME NEW i \in 1 .. n PROVE Filled(ins[i], S[i]) /\ Len(ins[i]) = MaxInput
    <3> DEFINE row == rows[i]
               U == S[i]
    <3>1. Stock(U) /\ Filled(row, U) /\ Len(row) >= Cardinality(U)
      BY <1>1
    <3>2. Len(row) \in Nat
      BY <1>1
    <3>3. ins[i] = IF Len(row) > MaxInput THEN SubSeq(row, 1, MaxInput) ELSE PadTo(row, MaxInput)
      BY <2>1
    <3> HIDE DEF row, U
    <3>4. CASE Len(row) > MaxInput
      <4>1. MaxInput \in 1 .. Len(row)
        BY <3>2, <3>4, Limits
      <4>2. Filled(SubSeq(row, 1, MaxInput), U) /\ Len(SubSeq(row, 1, MaxInput)) = MaxInput
        BY <3>1, <4>1, FilledCut
      <4> QED
        BY <3>3, <3>4, <4>2 DEF U
    <3>5. CASE ~(Len(row) > MaxInput)
      <4>1. Len(row) <= MaxInput
        BY <3>2, <3>5, Limits
      <4>2. Filled(PadTo(row, MaxInput), U) /\ Len(PadTo(row, MaxInput)) = MaxInput
        BY <3>1, <4>1, Limits, FilledPadUp
      <4> QED
        BY <3>3, <3>5, <4>2 DEF U
    <3> QED
      BY <3>4, <3>5
  <2> QED
    BY <2>1, <2>2
<1> QED
  BY <1>3, <1>4

-----------------------------------------------------------------------------
(***************************************************************************)
(* What a row of inputs amounts to.                                        *)
(***************************************************************************)
\* The places of a row that are not padding, and their ids.
Taken(row)  == {k \in DOMAIN row : row[k].amt # 0}
RowIds(row) == {row[j].id : j \in Taken(row)}

\* The places of a filled row hold the first UTXOs in their order.
LEMMA RowPlaces ==
  ASSUME NEW U, Stock(U), NEW row, Filled(row, U)
  PROVE  /\ DOMAIN row = 1 .. Len(row) /\ Len(row) \in Nat /\ Cardinality(U) \in Nat
         /\ IsFiniteSet(DOMAIN row) /\ IsFiniteSet(Taken(row)) /\ Taken(row) \in SUBSET DOMAIN row
         /\ \A j \in DOMAIN row : row[j].amt \in Nat
         /\ \A j \in DOMAIN row : j \in Taken(row) <=> j <= Cardinality(U)
         /\ \A j \in Taken(row) : row[j] \in U /\ row[j] = SortUtxos(U)[j]
         /\ \A j, k \in Taken(row) : row[j].id = row[k].id => j = k
         /\ \A j, k \in Taken(row) : j < k => row[j].amt >= row[k].amt
<1> DEFINE sorted == SortUtxos(U)
<1>1. DOMAIN row = 1 .. Len(row) /\ Len(row) \in Nat
  BY DEF Filled
<1>2. /\ Len(sorted) = Cardinality(U) /\ Cardinality(U) \in Nat
      /\ \A i \in 1 .. Len(sorted) : sorted[i] \in U
      /\ \A i, j \in 1 .. Len(sorted) : sorted[i] = sorted[j] => i = j
      /\ \A i, j \in 1 .. Len(sorted) : i < j => sorted[i].amt >= sorted[j].amt
  BY Sorted
<1> HIDE DEF sorted
<1>3. \A j \in 1 .. Len(row) : row[j] = IF j <= Cardinality(U) THEN sorted[j] ELSE Pad
  BY DEF Filled, sorted
<1>4. \A u \in U : u.amt \in Nat /\ u.amt # 0
  BY DEF Stock
<1>5. Pad.amt = 0
  BY DEF Pad
<1>6. ASSUME NEW j \in DOMAIN row
      PROVE  row[j].amt \in Nat /\ (j \in Taken(row) <=> j <= Cardinality(U))
  <2>1. j \in 1 .. Len(row) /\ j \in Nat /\ j >= 1
    BY <1>1
  <2>2. CASE j <= Cardinality(U)
    <3>1. j \in 1 .. Len(sorted) /\ row[j] = sorted[j]
      BY <1>2, <1>3, <2>1, <2>2
    <3>2. row[j].amt \in Nat /\ row[j].amt # 0
      BY <1>2, <1>4, <3>1
    <3> QED
      BY <2>2, <3>2 DEF Taken
  <2>3. CASE ~(j <= Cardinality(U))
    <3>1. row[j].amt = 0
      BY <1>3, <1>5, <2>1, <2>3
    <3> QED
      BY <2>3, <3>1 DEF Taken
  <2> QED
    BY <2>2, <2>3
<1>7. ASSUME NEW j \in Taken(row)
      PROVE  j \in 1 .. Len(sorted) /\ row[j] = sorted[j] /\ row[j] \in U
  <2>1. j \in DOMAIN row /\ j \in 1 .. Len(row) /\ j <= Cardinality(U)
    BY <1>1, <1>6 DEF Taken
  <2>2. j \in 1 .. Len(sorted) /\ row[j] = sorted[j]
    BY <1>2, <1>3, <2>1
  <2> QED
    BY <1>2, <2>2
<1>8. \A j, k \in Taken(row) : row[j].id = row[k].id => j = k
  <2>1. SUFFICES ASSUME NEW j \in Taken(row), NEW k \in Taken(row), row[j].id = row[k].id
                 PROVE  j = k
    OBVIOUS
  <2>2. row[j] = row[k]
    BY <1>7, <2>1 DEF Stock
  <2> QED
    BY <1>2, <1>7, <2>2
<1>9. \A j, k \in Taken(row) : j < k => row[j].amt >= row[k].amt
  BY <1>2, <1>7
<1>10. IsFiniteSet(DOMAIN row)
  BY <1>1, FS_Interval
<1>11. Taken(row) \in SUBSET DOMAIN row
  BY DEF Taken
<1>12. IsFiniteSet(Taken(row))
  BY <1>10, <1>11, FS_Subset
<1> QED
  BY <1>1, <1>2, <1>6, <1>7, <1>8, <1>9, <1>10, <1>11, <1>12 DEF sorted

\* countTotalAmountInUtxos counts the places that are not padding.
LEMMA RowTaken ==
  ASSUME NEW row, IsFiniteSet(DOMAIN row), \A j \in DOMAIN row : row[j].amt \in Int
  PROVE  /\ TotalAmount(row) \in Int
         /\ TotalAmount(row) = SumFunctionOnSet([j \in DOMAIN row |-> row[j].amt], Taken(row))
<1> DEFINE D == DOMAIN row
           T == Taken(row)
           f == [j \in D |-> row[j].amt]
<1>1. T \in SUBSET D /\ IsFiniteSet(T)
  BY FS_Subset DEF Taken
<1>2. IsFiniteSet(D \ T) /\ (D \ T) \in SUBSET D
  BY FS_Subset
<1>3. \A j \in D : f[j] \in Int
  OBVIOUS
<1>4. \A j \in D \ T : f[j] = 0
  BY DEF Taken
<1>5. SumFunctionOnSet(f, D \ T) = 0
  BY <1>2, <1>4, SumZero
<1>6. SumFunctionOnSet(f, D \ T) = SumFunctionOnSet(f, D) - SumFunctionOnSet(f, T)
  BY <1>1, <1>3, SumWithout
<1>7. SumFunctionOnSet(f, D) \in Int
  BY <1>3, SumInt
<1>8. SumFunctionOnSet(f, T) \in Int
  BY <1>1, <1>3, SumInt
<1>9. TotalAmount(row) = SumFunctionOnSet(f, D)
  BY DEF TotalAmount
<1> HIDE DEF f, D, T
<1>10. SumFunctionOnSet(f, D) = SumFunctionOnSet(f, T)
  BY <1>5, <1>6, <1>7, <1>8
<1> QED
  BY <1>7, <1>9, <1>10 DEF f, D, T

\* The total of a row, as a sum over whatever stands for its places (h) with
\* the amounts w.
LEMMA RowTotal ==
  ASSUME NEW U, Stock(U), NEW row, Filled(row, U),
         NEW w, \A u \in U : w[u.id] = u.amt
  PROVE  /\ TotalAmount(row) \in Nat
         /\ TotalAmount(row) = SumFunctionOnSet(w, RowIds(row))
<1> DEFINE T == Taken(row)
           f == [j \in DOMAIN row |-> row[j].amt]
           h == [j \in T |-> row[j].id]
<1>1. /\ IsFiniteSet(DOMAIN row) /\ IsFiniteSet(T) /\ T \in SUBSET DOMAIN row
      /\ \A j \in DOMAIN row : row[j].amt \in Nat
      /\ \A j \in T : row[j] \in U
      /\ \A j, k \in T : row[j].id = row[k].id => j = k
  BY RowPlaces
<1>2. TotalAmount(row) = SumFunctionOnSet(f, T)
  BY <1>1, RowTaken
<1>3. \A j \in T : f[j] \in Nat
  BY <1>1
<1>4. \A j, k \in T : h[j] = h[k] => j = k
  BY <1>1
<1>5. \A j \in T : f[j] \in Int /\ w[h[j]] = f[j]
  BY <1>1
<1>6. RowIds(row) = {h[j] : j \in T}
  BY DEF RowIds
<1>8. IsFiniteSet(T)
  BY <1>1
<1> HIDE DEF f, h, T
<1>7. SumFunctionOnSet(w, {h[j] : j \in T}) = SumFunctionOnSet(f, T)
  BY <1>4, <1>5, <1>8, SumMap
<1>9. SumFunctionOnSet(f, T) \in Nat
  BY <1>3, <1>8, SumNat
<1> QED
  BY <1>2, <1>6, <1>7, <1>9

-----------------------------------------------------------------------------
(***************************************************************************)
(* No other UTXOs, and not more of them, are worth more than a row.        *)
(***************************************************************************)
\* Not more, and not larger, summands.
LEMMA SumDominated ==
  ASSUME NEW A, IsFiniteSet(A), NEW B, IsFiniteSet(B), Cardinality(A) <= Cardinality(B),
         NEW f, \A x \in A \cup B : f[x] \in Nat, \A x \in A : \A y \in B : f[x] <= f[y]
  PROVE  SumFunctionOnSet(f, A) <= SumFunctionOnSet(f, B)
<1> DEFINE Good(X) == \A Y \in SUBSET B : Cardinality(X) <= Cardinality(Y) =>
                        SumFunctionOnSet(f, X) <= SumFunctionOnSet(f, Y)
           G == {X \in SUBSET A : Good(X)}
<1>1. \A Y \in SUBSET B : IsFiniteSet(Y) /\ Cardinality(Y) \in Nat /\ SumFunctionOnSet(f, Y) \in Nat
  BY FS_Subset, FS_CardinalityType, SumNat
<1>2. \A X \in SUBSET A : IsFiniteSet(X) /\ Cardinality(X) \in Nat /\ SumFunctionOnSet(f, X) \in Nat
  BY FS_Subset, FS_CardinalityType, SumNat
<1>3. {} \in G
  <2>1. SumFunctionOnSet(f, {}) = 0
    BY SumEmpty
  <2> QED
    BY <1>1, <2>1
<1>4. ASSUME NEW X \in SUBSET A, X # {}, \A x \in X : X \ {x} \in G
      PROVE  X \in G
  <2>1. SUFFICES ASSUME NEW Y \in SUBSET B, Cardinality(X) <= Cardinality(Y)
                 PROVE  SumFunctionOnSet(f, X) <= SumFunctionOnSet(f, Y)
    OBVIOUS
  <2>2. PICK x \in X : TRUE
    BY <1>4
  <2>3. IsFiniteSet(X) /\ Cardinality(X) \in Nat /\ Cardinality(X \ {x}) = Cardinality(X) - 1
    BY <1>2, FS_RemoveElement
  <2>4. Cardinality(X \ {x}) \in Nat
    BY <1>2
  <2>5. Y # {}
    <3>1. Cardinality({}) = 0
      BY FS_EmptySet
    <3> QED
      BY <2>1, <2>3, <2>4, <3>1
  <2>6. PICK y \in Y : TRUE
    BY <2>5
  <2>7. IsFiniteSet(Y) /\ Cardinality(Y) \in Nat /\ Cardinality(Y \ {y}) = Cardinality(Y) - 1
    BY <1>1, FS_RemoveElement
  <2>8. Cardinality(X \ {x}) <= Cardinality(Y \ {y})
    BY <2>1, <2>3, <2>7
  <2>9. SumFunctionOnSet(f, X \ {x}) <= SumFunctionOnSet(f, Y \ {y})
    <3>1. X \ {x} \in G /\ Y \ {y} \in SUBSET B
      BY <1>4
    <3> QED
      BY <2>8, <3>1
  <2>10. f[x] \in Nat /\ f[y] \in Nat /\ f[x] <= f[y]
    OBVIOUS
  <2>11. SumFunctionOnSet(f, X) = f[x] + SumFunctionOnSet(f, X \ {x})
    <3>1. \A z \in X : f[z] \in Int
      OBVIOUS
    <3> QED
      BY <2>3, <3>1, SumRemove
  <2>12. SumFunctionOnSet(f, Y) = f[y] + SumFunctionOnSet(f, Y \ {y})
    <3>1. \A z \in Y : f[z] \in Int
      OBVIOUS
    <3> QED
      BY <2>7, <3>1, SumRemove
  <2>13. SumFunctionOnSet(f, X \ {x}) \in Nat /\ SumFunctionOnSet(f, Y \ {y}) \in Nat
    BY <1>1, <1>2
  <2> QED
    BY <2>9, <2>10, <2>11, <2>12, <2>13
<1>5. \A X \in SUBSET A : X # {} /\ (\A x \in X : X \ {x} \in G) => X \in G
  BY <1>4
<1> HIDE DEF G
<1>6. \A X \in SUBSET A : X \in G
  BY <1>3, <1>5, SubsetInduction
<1>7. A \in G
  BY <1>6
<1>8. Good(A)
  BY <1>7 DEF G
<1>9. B \in SUBSET B
  OBVIOUS
<1> QED
  BY <1>8, <1>9

\* A part is not worth more than the whole.
LEMMA SumPart ==
  ASSUME NEW S, IsFiniteSet(S), NEW T \in SUBSET S, NEW f, \A x \in S : f[x] \in Nat
  PROVE  SumFunctionOnSet(f, T) <= SumFunctionOnSet(f, S)
<1>1. SumFunctionOnSet(f, S \ T) = SumFunctionOnSet(f, S) - SumFunctionOnSet(f, T)
  BY SumWithout
<1>2. IsFiniteSet(S \ T) /\ IsFiniteSet(T)
  BY FS_Subset
<1>3. SumFunctionOnSet(f, S \ T) \in Nat /\ SumFunctionOnSet(f, S) \in Nat /\ SumFunctionOnSet(f, T) \in Nat
  BY <1>2, SumNat
<1> QED
  BY <1>1, <1>3

\* The cardinality of a part that is taken away.
LEMMA CardWithout ==
  ASSUME NEW S, IsFiniteSet(S), NEW T
  PROVE  /\ IsFiniteSet(S \cap T) /\ IsFiniteSet(S \ T)
         /\ Cardinality(S \cap T) \in Nat /\ Cardinality(S \ T) \in Nat
         /\ Cardinality(S) = Cardinality(S \cap T) + Cardinality(S \ T)
<1>1. IsFiniteSet(S \cap T) /\ IsFiniteSet(S \ T)
  BY FS_Subset
<1>2. Cardinality(S \cap T) \in Nat /\ Cardinality(S \ T) \in Nat
  BY <1>1, FS_CardinalityType
<1>3. (S \cap T) \cup (S \ T) = S /\ (S \cap T) \cap (S \ T) = {}
  OBVIOUS
<1>4. Cardinality((S \cap T) \cup (S \ T))
        = Cardinality(S \cap T) + Cardinality(S \ T) - Cardinality((S \cap T) \cap (S \ T))
  BY <1>1, FS_Union
<1>5. Cardinality({}) = 0
  BY FS_EmptySet
<1> DEFINE a == Cardinality(S \cap T)
           b == Cardinality(S \ T)
<1>6. Cardinality(S) = a + b - 0
  BY <1>3, <1>4, <1>5
<1>7. a \in Nat /\ b \in Nat
  BY <1>2
<1> HIDE DEF a, b
<1>8. Cardinality(S) = a + b
  BY <1>6, <1>7
<1> QED
  BY <1>1, <1>2, <1>8 DEF a, b

\* A row holds the best UTXOs of its length.
LEMMA RowBest ==
  ASSUME NEW U, Stock(U), NEW row, Filled(row, U), NEW S \in SUBSET U,
         Cardinality(U) <= Len(row) \/ Cardinality(S) <= Len(row)
  PROVE  SumFunctionOnSet([u \in S |-> u.amt], S) <= TotalAmount(row)
<1> DEFINE T == Taken(row)
           h == [j \in T |-> row[j]]
           R == {h[j] : j \in T}
           f == [u \in U |-> u.amt]
           g == [j \in DOMAIN row |-> row[j].amt]
<1>1. /\ DOMAIN row = 1 .. Len(row) /\ Len(row) \in Nat /\ Cardinality(U) \in Nat
      /\ IsFiniteSet(DOMAIN row) /\ IsFiniteSet(T) /\ T \in SUBSET DOMAIN row
      /\ \A j \in DOMAIN row : row[j].amt \in Nat
      /\ \A j \in DOMAIN row : j \in T <=> j <= Cardinality(U)
      /\ \A j \in T : row[j] \in U /\ row[j] = SortUtxos(U)[j]
      /\ \A j, k \in T : row[j].id = row[k].id => j = k
  BY RowPlaces
<1>2. IsFiniteSet(U) /\ IsFiniteSet(S) /\ \A u \in U : u.amt \in Nat
  BY FS_Subset DEF Stock
<1>3. SumFunctionOnSet([u \in S |-> u.amt], S) = SumFunctionOnSet(f, S)
  BY <1>2, SumEq
<1>4. TotalAmount(row) = SumFunctionOnSet(g, T)
  <2>1. \A j \in DOMAIN row : row[j].amt \in Int
    BY <1>1
  <2> QED
    BY <1>1, <2>1, RowTaken
<1>5. SumFunctionOnSet(f, R) = SumFunctionOnSet(g, T)
  <2>1. \A j, k \in T : h[j] = h[k] => j = k
    BY <1>1
  <2>2. \A j \in T : g[j] \in Int /\ f[h[j]] = g[j]
    BY <1>1
  <2>3. IsFiniteSet(T)
    BY <1>1
  <2> HIDE DEF f, g, h, T
  <2> QED
    BY <2>1, <2>2, <2>3, SumMap
<1>6. R \in SUBSET U /\ IsFiniteSet(R)
  <2>1. R \in SUBSET U
    BY <1>1
  <2> QED
    BY <1>2, <2>1, FS_Subset
<1>7. \A u \in U : f[u] \in Nat
  BY <1>2
<1>8. SUFFICES SumFunctionOnSet(f, S) <= SumFunctionOnSet(f, R)
  BY <1>3, <1>4, <1>5
<1>9. CASE Cardinality(U) <= Len(row)
  <2>1. ASSUME NEW u \in U PROVE u \in R
    <3>1. PICK i \in 1 .. Cardinality(U) : SortUtxos(U)[i] = u
      BY Sorted
    <3>2. i \in DOMAIN row /\ i <= Cardinality(U)
      BY <1>1, <1>9
    <3>3. i \in T /\ row[i] = u
      BY <1>1, <3>1, <3>2
    <3> QED
      BY <3>3
  <2>2. R = U
    BY <1>6, <2>1
  <2> QED
    BY <1>2, <1>7, <2>2, SumPart
<1>10. CASE Cardinality(S) <= Len(row) /\ Len(row) <= Cardinality(U)
  <2>1. T = 1 .. Len(row)
    <3>1. \A j \in 1 .. Len(row) : j <= Cardinality(U)
      BY <1>1, <1>10
    <3> HIDE DEF T
    <3>2. T \in SUBSET (1 .. Len(row)) /\ \A j \in 1 .. Len(row) : j \in T
      BY <1>1, <3>1
    <3> QED
      BY <3>2
  <2>2. Cardinality(R) = Len(row)
    <3>1. Cardinality(T) = Len(row)
      <4> DEFINE n == Len(row)
      <4>1. n \in Nat /\ T = 1 .. n
        BY <1>1, <2>1
      <4> HIDE DEF n, T
      <4>2. Cardinality(1 .. n) = IF 1 > n THEN 0 ELSE n - 1 + 1
        BY <4>1, FS_Interval
      <4>3. Cardinality(1 .. n) = n
        BY <4>1, <4>2
      <4> QED
        BY <4>1, <4>3 DEF n
    <3>2. h \in Bijection(T, R)
      <4>1. h \in [T -> R]
        OBVIOUS
      <4>2. \A j, k \in T : h[j] = h[k] => j = k
        BY <1>1
      <4>3. \A y \in R : \E j \in T : h[j] = y
        OBVIOUS
      <4> QED
        BY <4>1, <4>2, <4>3 DEF Bijection, Injection, IsInjective, Surjection
    <3>3. IsFiniteSet(T)
      BY <1>1
    <3> HIDE DEF T, R, h
    <3>5. ExistsBijection(T, R)
      BY <3>2 DEF ExistsBijection
    <3>4. Cardinality(R) = Cardinality(T)
      BY <3>3, <3>5, FS_Bijection
    <3> QED
      BY <3>1, <3>4
  <2>3. ASSUME NEW x \in S \ R, NEW y \in R PROVE f[x] <= f[y]
    <3>1. PICK j \in T : y = row[j]
      OBVIOUS
    <3>2. PICK i \in 1 .. Cardinality(U) : SortUtxos(U)[i] = x
      BY Sorted
    <3>3. i > Len(row)
      <4>1. SUFFICES ASSUME i <= Len(row) PROVE FALSE
        BY <1>1
      <4>2. i \in T /\ row[i] = x
        BY <1>1, <2>1, <3>2, <4>1
      <4> QED
        BY <2>3, <4>2
    <3>4. j \in 1 .. Cardinality(U) /\ j < i /\ SortUtxos(U)[j] = y
      BY <1>1, <1>10, <2>1, <3>1, <3>2, <3>3
    <3>5. y.amt >= x.amt
      <4>1. Len(SortUtxos(U)) = Cardinality(U)
            /\ \A a, b \in 1 .. Len(SortUtxos(U)) :
                 a < b => SortUtxos(U)[a].amt >= SortUtxos(U)[b].amt
        BY Sorted
      <4> QED
        BY <3>2, <3>4, <4>1
    <3>6. x.amt \in Nat /\ y.amt \in Nat /\ x \in U /\ y \in U
      BY <1>2, <1>6
    <3> QED
      BY <3>5, <3>6
  <2> DEFINE A == S \ R
             B == R \ S
  <2>4. /\ IsFiniteSet(A) /\ IsFiniteSet(B) /\ Cardinality(A) <= Cardinality(B)
        /\ A \in SUBSET S /\ B \in SUBSET R
    <3>1. /\ IsFiniteSet(A) /\ Cardinality(A) \in Nat /\ Cardinality(S \cap R) \in Nat
          /\ Cardinality(S) = Cardinality(S \cap R) + Cardinality(A)
      BY <1>2, CardWithout
    <3>2. /\ IsFiniteSet(B) /\ Cardinality(B) \in Nat
          /\ Cardinality(R) = Cardinality(R \cap S) + Cardinality(B)
      BY <1>6, CardWithout
    <3>3. S \cap R = R \cap S
      OBVIOUS
    <3>4. Cardinality(S) <= Cardinality(R)
      BY <1>10, <2>2
    <3>5. Cardinality(A) <= Cardinality(B)
      <4> DEFINE a == Cardinality(A)
                 b == Cardinality(B)
                 m == Cardinality(S \cap R)
                 x == Cardinality(S)
                 y == Cardinality(R)
      <4>1. a \in Nat /\ b \in Nat /\ m \in Nat /\ x = m + a /\ x <= y
        BY <3>1, <3>2, <3>4
      <4>2. y = m + b
        BY <3>2, <3>3
      <4> HIDE DEF a, b, m, x, y
      <4>3. a <= b
        BY <4>1, <4>2
      <4> QED
        BY <4>3 DEF a, b
    <3> QED
      BY <3>1, <3>2, <3>5
  <2>5. SumFunctionOnSet(f, A) <= SumFunctionOnSet(f, B)
    <3>1. \A x \in A \cup B : f[x] \in Nat
      BY <1>6, <1>7
    <3>2. \A x \in A : \A y \in B : f[x] <= f[y]
      BY <2>3
    <3> HIDE DEF A, B, f
    <3> QED
      BY <2>4, <3>1, <3>2, SumDominated
  <2>6. SumFunctionOnSet(f, S \ A) = SumFunctionOnSet(f, S) - SumFunctionOnSet(f, A)
    <3>1. A \in SUBSET S /\ \A x \in S : f[x] \in Int
      BY <1>7
    <3> HIDE DEF A, f
    <3> QED
      BY <1>2, <3>1, SumWithout
  <2>7. SumFunctionOnSet(f, R \ B) = SumFunctionOnSet(f, R) - SumFunctionOnSet(f, B)
    <3>1. B \in SUBSET R /\ \A x \in R : f[x] \in Int
      BY <1>6, <1>7
    <3> HIDE DEF B, f, R
    <3> QED
      BY <1>6, <3>1, SumWithout
  <2>8. S \ A = R \ B
    OBVIOUS
  <2>9. /\ SumFunctionOnSet(f, S) \in Int /\ SumFunctionOnSet(f, R) \in Int
        /\ SumFunctionOnSet(f, A) \in Int /\ SumFunctionOnSet(f, B) \in Int
    <3>1. \A X \in SUBSET U : SumFunctionOnSet(f, X) \in Nat
      <4>1. \A X \in SUBSET U : IsFiniteSet(X) /\ \A x \in X : f[x] \in Nat
        BY <1>2, <1>7, FS_Subset
      <4> HIDE DEF f
      <4> QED
        BY <4>1, SumNat
    <3>2. A \in SUBSET U /\ B \in SUBSET U
      BY <1>6
    <3> HIDE DEF A, B, f, R
    <3> QED
      BY <1>6, <3>1, <3>2
  <2> DEFINE a == SumFunctionOnSet(f, A)
             b == SumFunctionOnSet(f, B)
             s == SumFunctionOnSet(f, S)
             r == SumFunctionOnSet(f, R)
  <2>10. s - a = r - b
    BY <2>6, <2>7, <2>8
  <2>11. a \in Int /\ b \in Int /\ s \in Int /\ r \in Int /\ a <= b
    BY <2>5, <2>9
  <2> HIDE DEF a, b, s, r
  <2>12. s <= r
    BY <2>10, <2>11
  <2> QED
    BY <2>12 DEF s, r
<1>11. Cardinality(S) \in Nat
  BY <1>2, FS_CardinalityType
<1> QED
  BY <1>1, <1>9, <1>10, <1>11
=============================================================================
