----------------------- MODULE SolanaEventSyncProofs -----------------------
(***************************************************************************)
(* Proofs about SolanaEventSync for any chain, any page sizes and any      *)
(* number of rollbacks.                                                    *)
(*                                                                         *)
(* The properties speak of what is stored once a scan or a poll ends; what *)
(* the scan has listed and read up to then must be carried along while the *)
(* chain moves on.  Paged follows the pages of a scan, ReadAll what it has *)
(* read until it is stored, Polled the answer the listener holds.  An id   *)
(* has one place (OnePlace): a replaced commitment has no other leaf.      *)
(***************************************************************************)
EXTENDS SolanaEventSync, SequenceTheorems, TLAPS

Txs    == [slot : Nat, id : Nat]
Sigs   == [slot : Nat, idx : Nat, id : Nat]
Events == [idx : Nat, id : Nat]

Jobs == [pc : {"idle", "called", "paging", "process"}, from : Nat, to : Nat,
         limit : Nat \ {0}, start : BOOLEAN, sigs : Seq(Sigs), more : BOOLEAN,
         cut : BOOLEAN, evs : SUBSET Events]
Polls == [pc : {"idle", "got"}, evs : SUBSET Events, to : Nat]

TypeOK ==
  /\ txs \in Seq(Txs) /\ head \in Nat /\ born \in Nat /\ forks \in Nat
  /\ srv \in Nat /\ phase \in {"new", "loaded", "ready"} /\ latest \in Nat
  /\ job \in Jobs /\ poll \in Polls
  /\ listenFrom \in Nat /\ fetchFrom \in Nat

\* Slots and ids grow along the chain; the head is the last slot.
Chained ==
  /\ \A i, j \in DOMAIN txs : i < j => txs[i].slot <= txs[j].slot /\ txs[i].id < txs[j].id
  /\ \A i \in DOMAIN txs : txs[i].slot <= head /\ txs[i].id <= born
  /\ srv <= SafeSlot

\* The listener runs after the first scan of Init only.
Phases ==
  /\ phase # "ready" => listenFrom = 0 /\ job.pc = "idle"
  /\ listenFrom = 0 => poll.pc = "idle"
  /\ job.pc # "idle" /\ job.start => listenFrom = 0
  /\ job.pc # "process" => job.evs = {}
  /\ job.pc = "called" => ~job.cut

\* No slot is left out between the scans and the listener.
Positions ==
  /\ latest <= head
  /\ job.pc # "idle" => job.from <= latest + 1 /\ (listenFrom > 0 => listenFrom <= job.from + 1)
  /\ job.pc \in {"paging", "process"} => job.from <= job.to /\ job.to <= head
  /\ listenFrom > 0 => /\ listenFrom <= latest + 1 /\ listenFrom <= fetchFrom
                       /\ fetchFrom = listenFrom \/ fetchFrom <= srv + 1

\* The listener holds the events of the slots it asked for, which no rollback
\* reaches.
Polled ==
  poll.pc = "got" =>
    /\ fetchFrom <= poll.to /\ poll.to <= srv
    /\ \A x \in poll.evs :
         x.idx \in DOMAIN txs /\ txs[x.idx].slot <= poll.to /\ txs[x.idx].id = x.id
    /\ \A i \in DOMAIN txs : txs[i].slot \in fetchFrom .. poll.to => Event(i) \in poll.evs

Listed(sigs) == {[idx |-> s.idx, id |-> s.id] : s \in {sigs[k] : k \in DOMAIN sigs}}

\* What the scan has not listed is below its last signature, and still asked
\* for, unless the chain has dropped that signature.
Paged ==
  job.pc = "paging" =>
    /\ job.more => job.sigs # <<>>
    /\ job.cut => ~job.more
    /\ ~job.cut =>
         \A i \in DOMAIN txs :
           txs[i].slot \in job.from .. job.to /\ txs[i].id \notin late =>
             \/ Event(i) \in Listed(job.sigs)
             \/ job.more /\ i < Last(job.sigs).idx

\* What the scan has read is what the chain has up to its slot, but for what
\* was left out; it does not contradict what was listened to.
ReadAll ==
  job.pc = "process" =>
    /\ \A e, f \in job.evs : e.idx = f.idx => e = f
    /\ \A i \in DOMAIN txs :
         txs[i].slot <= job.to /\ txs[i].id \notin skipped \union late =>
           /\ txs[i].slot >= job.from => Event(i) \in job.evs
           /\ \A x \in job.evs : x.idx = i => x.id = txs[i].id
    /\ listenFrom > 0 =>
         \A i \in DOMAIN txs, x \in job.evs :
           txs[i].slot \in listenFrom .. fetchFrom - 1 /\ x.idx = i => x.id = txs[i].id

\* Events as they are on the chain, read or stored.
Seen ==
  {Event(i) : i \in DOMAIN txs} \union job.evs
    \union {[idx |-> i, id |-> tree[i]] : i \in DOMAIN tree}

OnePlace ==
  /\ \A e \in Seen : e \in Events /\ e.id <= born
  /\ \A e, f \in Seen : e.id = f.id => e.idx = f.idx

\* The i-th transaction is in both snapshots.
Holds(i) == i \in DOMAIN tree /\ tree[i] = txs[i].id /\ txs[i].id \in nulls

\* ScannedComplete and ListenedExact, place by place.
Scanned ==
  \A i \in DOMAIN txs :
    txs[i].slot <= latest /\ txs[i].id \notin skipped \union late => Holds(i)

Listened ==
  listenFrom > 0 =>
    \A i \in DOMAIN txs : txs[i].slot \in listenFrom .. fetchFrom - 1 => Holds(i)

IInv ==
  /\ TypeOK /\ Chained /\ Phases /\ Positions
  /\ Polled /\ Paged /\ ReadAll /\ OnePlace
  /\ Scanned /\ Listened /\ OutputsOfLeaves

-----------------------------------------------------------------------------
(***************************************************************************)
(* The operators.                                                          *)
(***************************************************************************)
\* What a page holds: the last places up to n, downwards.
LEMMA SignaturesFacts ==
  ASSUME NEW n \in 0 .. Len(txs), NEW limit \in Nat \ {0}, txs \in Seq(Txs)
  PROVE  LET page == Signatures(n, limit)
         IN  /\ page \in Seq(Sigs)
             /\ Len(page) = IF n > limit THEN limit ELSE n
             /\ \A k \in 1 .. Len(page) :
                  page[k] = [slot |-> txs[n - k + 1].slot, idx |-> n - k + 1, id |-> txs[n - k + 1].id]
<1> DEFINE all == [i \in DOMAIN txs |-> [slot |-> txs[i].slot, idx |-> i, id |-> txs[i].id]]
           lo  == IF n > limit THEN n - limit + 1 ELSE 1
           sub == SubSeq(all, lo, n)
<1>1. all \in Seq(Sigs) /\ Len(all) = Len(txs)
  <2>1. DOMAIN txs = 1 .. Len(txs) /\ Len(txs) \in Nat
    OBVIOUS
  <2>2. \A i \in 1 .. Len(txs) : txs[i] \in Txs
    OBVIOUS
  <2>3. \A i \in 1 .. Len(txs) : [slot |-> txs[i].slot, idx |-> i, id |-> txs[i].id] \in Sigs
    BY <2>1, <2>2 DEF Txs, Sigs
  <2>4. all = [i \in 1 .. Len(txs) |-> [slot |-> txs[i].slot, idx |-> i, id |-> txs[i].id]]
    BY <2>1
  <2> QED
    BY <2>1, <2>3, <2>4
<1>2. lo \in 1 .. n + 1 /\ n \in 0 .. Len(all)
  BY <1>1
<1>3. /\ sub \in Seq(Sigs)
      /\ Len(sub) = n - lo + 1
      /\ \A i \in 1 .. n - lo + 1 : sub[i] = all[lo + i - 1]
  <2> HIDE DEF all, lo
  <2>1. lo \in 1 .. Len(all) + 1 /\ n \in lo - 1 .. Len(all)
    BY <1>1, <1>2
  <2> QED
    BY <1>1, <1>2, <2>1, SubSeqProperties
<1>4. Signatures(n, limit) = [i \in 1 .. Len(sub) |-> sub[(Len(sub) - i) + 1]]
  BY DEF Signatures, Reverse
<1>5. Len(sub) = IF n > limit THEN limit ELSE n
  BY <1>3
<1>6. /\ Signatures(n, limit) \in Seq(Sigs)
      /\ Len(Signatures(n, limit)) = Len(sub)
      /\ \A k \in 1 .. Len(sub) : Signatures(n, limit)[k] = sub[(Len(sub) - k) + 1]
  <2> HIDE DEF sub
  <2>1. Len(sub) \in Nat /\ \A k \in 1 .. Len(sub) : sub[(Len(sub) - k) + 1] \in Sigs
    BY <1>3
  <2> QED
    BY <1>4, <2>1
<1>7. ASSUME NEW k \in 1 .. Len(sub)
      PROVE  sub[(Len(sub) - k) + 1]
               = [slot |-> txs[n - k + 1].slot, idx |-> n - k + 1, id |-> txs[n - k + 1].id]
  <2>1. (Len(sub) - k) + 1 \in 1 .. n - lo + 1 /\ lo + ((Len(sub) - k) + 1) - 1 = n - k + 1
    BY <1>3, <1>2, <1>7
  <2>2. n - k + 1 \in DOMAIN txs
    BY <1>2, <1>5, <1>7
  <2>3. sub[(Len(sub) - k) + 1] = all[n - k + 1]
    <3> HIDE DEF sub, all, lo
    <3> QED BY <1>3, <2>1
  <2> QED
    BY <2>2, <2>3
<1> HIDE DEF all, lo, sub
<1> QED
  BY <1>5, <1>6, <1>7

\* A place is on a page or below its last signature, and then the page is
\* full.
LEMMA PageFacts ==
  ASSUME NEW n \in 0 .. Len(txs), NEW limit \in Nat \ {0}, txs \in Seq(Txs)
  PROVE  LET page == Signatures(n, limit)
         IN  /\ page \in Seq(Sigs)
             /\ page = <<>> <=> n = 0
             /\ page # <<>> =>
                  /\ Last(page).idx \in 1 .. n
                  /\ Last(page).slot = txs[Last(page).idx].slot
             /\ \A i \in 1 .. n :
                  \/ Event(i) \in Listed(page)
                  \/ page # <<>> /\ i < Last(page).idx /\ Len(page) >= limit
<1> DEFINE page == Signatures(n, limit)
<1>1. /\ page \in Seq(Sigs)
      /\ Len(page) = IF n > limit THEN limit ELSE n
      /\ \A k \in 1 .. Len(page) :
           page[k] = [slot |-> txs[n - k + 1].slot, idx |-> n - k + 1, id |-> txs[n - k + 1].id]
  BY SignaturesFacts
<1> HIDE DEF page
<1>2. page = <<>> <=> n = 0
  BY <1>1
<1>3. page # <<>> => /\ Last(page).idx = n - Len(page) + 1
                     /\ Last(page).slot = txs[Last(page).idx].slot
  <2> SUFFICES ASSUME page # <<>>
               PROVE  /\ Last(page).idx = n - Len(page) + 1
                      /\ Last(page).slot = txs[Last(page).idx].slot
    OBVIOUS
  <2>1. Len(page) \in 1 .. Len(page)
    BY <1>1
  <2>2. Last(page) = [slot |-> txs[n - Len(page) + 1].slot, idx |-> n - Len(page) + 1,
                      id |-> txs[n - Len(page) + 1].id]
    BY <1>1, <2>1 DEF Last
  <2> QED
    BY <2>2
<1>4. ASSUME NEW i \in 1 .. n, i > n - Len(page)
      PROVE  Event(i) \in Listed(page)
  <2>1. n - i + 1 \in 1 .. Len(page) /\ n - (n - i + 1) + 1 = i
    BY <1>1, <1>4
  <2>2. page[n - i + 1] = [slot |-> txs[i].slot, idx |-> i, id |-> txs[i].id]
    BY <1>1, <2>1
  <2>3. DOMAIN page = 1 .. Len(page)
    BY <1>1
  <2> QED
    BY <2>1, <2>2, <2>3 DEF Event, Listed
<1> QED
  BY <1>1, <1>2, <1>3, <1>4 DEF page

\* Events are listed with either part of the signatures.
LEMMA ListedConcat ==
  ASSUME NEW s \in Seq(Sigs), NEW t \in Seq(Sigs)
  PROVE  /\ s \o t \in Seq(Sigs)
         /\ Listed(s) \subseteq Listed(s \o t)
         /\ Listed(t) \subseteq Listed(s \o t)
         /\ t # <<>> => Last(s \o t) = Last(t)
<1>1. /\ s \o t \in Seq(Sigs) /\ Len(s \o t) = Len(s) + Len(t)
      /\ \A k \in 1 .. Len(s) : (s \o t)[k] = s[k]
      /\ \A k \in 1 .. Len(t) : (s \o t)[Len(s) + k] = t[k]
  OBVIOUS
<1>2. Listed(s) \subseteq Listed(s \o t)
  BY <1>1 DEF Listed
<1>3. Listed(t) \subseteq Listed(s \o t)
  <2>1. ASSUME NEW k \in DOMAIN t PROVE Len(s) + k \in DOMAIN (s \o t) /\ (s \o t)[Len(s) + k] = t[k]
    BY <1>1
  <2> QED
    BY <2>1 DEF Listed
<1>4. t # <<>> => Last(s \o t) = Last(t)
  <2>1. t # <<>> => Len(t) \in 1 .. Len(t)
    OBVIOUS
  <2> QED
    BY <1>1, <2>1 DEF Last
<1> QED
  BY <1>1, <1>2, <1>3, <1>4

\* What AcceptEvents leaves behind: the new events, and the leaves that none
\* of them replaces.
LEMMA Accepted ==
  ASSUME NEW evs, AcceptEvents(evs),
         \A e, f \in evs : e.idx = f.idx => e = f
  PROVE  /\ \A e \in evs : e.idx \in DOMAIN tree' /\ tree'[e.idx] = e.id /\ e.id \in nulls'
         /\ \A i \in DOMAIN tree : i \in DOMAIN tree'
         /\ \A i \in DOMAIN tree' :
              \/ \E e \in evs : e.idx = i /\ tree'[i] = e.id
              \/ i \in DOMAIN tree /\ tree'[i] = tree[i] /\ \A e \in evs : e.idx # i
         /\ nulls \subseteq nulls'
<1>1. DOMAIN tree' = DOMAIN tree \union {e.idx : e \in evs}
  BY DEF AcceptEvents
<1>2. ASSUME NEW e \in evs PROVE e.idx \in DOMAIN tree' /\ tree'[e.idx] = e.id
  <2>1. e.idx \in DOMAIN tree'
    BY <1>1, <1>2
  <2>2. tree'[e.idx] = (CHOOSE f \in evs : f.idx = e.idx).id
    BY <1>2, <1>1, <2>1 DEF AcceptEvents
  <2>3. (CHOOSE f \in evs : f.idx = e.idx) = e
    BY <1>2
  <2> QED
    BY <2>1, <2>2, <2>3
<1>3. ASSUME NEW i \in DOMAIN tree', \A e \in evs : e.idx # i
      PROVE  i \in DOMAIN tree /\ tree'[i] = tree[i]
  BY <1>1, <1>3 DEF AcceptEvents
<1>4. nulls' = nulls \union {e.id : e \in evs}
  BY DEF AcceptEvents
<1> QED
  BY <1>1, <1>2, <1>3, <1>4

\* The outputs stay those of the leaves, provided that no id has two places.
LEMMA OutputsAccepted ==
  ASSUME NEW evs, AcceptEvents(evs), OutputsOfLeaves,
         \A e, f \in evs : e.idx = f.idx => e = f,
         \A i, j \in DOMAIN tree : tree[i] = tree[j] => i = j
  PROVE  OutputsOfLeaves'
<1>1. /\ \A e \in evs : e.idx \in DOMAIN tree' /\ tree'[e.idx] = e.id
      /\ \A i \in DOMAIN tree : i \in DOMAIN tree'
      /\ \A i \in DOMAIN tree' :
           \/ \E e \in evs : e.idx = i /\ tree'[i] = e.id
           \/ i \in DOMAIN tree /\ tree'[i] = tree[i] /\ \A e \in evs : e.idx # i
  BY Accepted
<1>2. outs' = (outs \ Replaced(evs)) \union {e.id : e \in evs}
  BY DEF AcceptEvents, Dropped
<1>3. ASSUME NEW o \in outs' PROVE \E i \in DOMAIN tree' : tree'[i] = o
  <2>1. CASE \E e \in evs : o = e.id
    BY <1>1, <2>1
  <2>2. CASE o \in outs /\ o \notin Replaced(evs)
    <3>1. PICK i \in DOMAIN tree : tree[i] = o
      BY <2>2 DEF OutputsOfLeaves
    <3>2. \A e \in evs : e.idx = i => e.id = o
      BY <2>2, <3>1 DEF Replaced
    <3> QED
      BY <1>1, <3>1, <3>2
  <2> QED
    BY <1>2, <1>3, <2>1, <2>2
<1>4. ASSUME NEW i \in DOMAIN tree' PROVE tree'[i] \in outs'
  <2>1. CASE \E e \in evs : e.idx = i /\ tree'[i] = e.id
    BY <1>2, <2>1
  <2>2. CASE i \in DOMAIN tree /\ tree'[i] = tree[i] /\ \A e \in evs : e.idx # i
    <3>1. tree[i] \in outs
      BY <2>2 DEF OutputsOfLeaves
    <3>2. tree[i] \notin Replaced(evs)
      BY <2>2 DEF Replaced
    <3> QED
      BY <1>2, <2>2, <3>1, <3>2
  <2> QED
    BY <1>1, <1>4, <2>1, <2>2
<1> QED
  BY <1>3, <1>4 DEF OutputsOfLeaves

-----------------------------------------------------------------------------
(***************************************************************************)
(* The chain.                                                              *)
(***************************************************************************)
\* What a new slot or a rollback may do to the chain.
MovesOn ==
  /\ txs' \in Seq(Txs) /\ head' \in Nat /\ born' \in Nat /\ forks' \in Nat
  /\ head' >= head /\ born' >= born /\ late \subseteq late'
  /\ \A i \in DOMAIN txs' :
       \/ i \in DOMAIN txs /\ txs'[i] = txs[i]
       \/ /\ txs'[i].id > born /\ txs'[i].slot > SafeSlot
          /\ txs'[i].slot > head \/ txs'[i].id \in late'
  /\ \A i \in DOMAIN txs : txs[i].slot <= SafeSlot => i \in DOMAIN txs' /\ txs'[i] = txs[i]

LEMMA TxTypes ==
  ASSUME TypeOK
  PROVE  /\ DOMAIN txs = 1 .. Len(txs) /\ Len(txs) \in Nat
         /\ \A i \in DOMAIN txs : txs[i] \in Txs /\ txs[i].slot \in Nat /\ txs[i].id \in Nat
<1>1. txs \in Seq(Txs)
  BY DEF TypeOK
<1>2. DOMAIN txs = 1 .. Len(txs) /\ Len(txs) \in Nat /\ \A i \in DOMAIN txs : txs[i] \in Txs
  BY <1>1
<1>3. \A t \in Txs : t.slot \in Nat /\ t.id \in Nat
  BY DEF Txs
<1> QED
  BY <1>2, <1>3

LEMMA SafeSlotNumber ==
  ASSUME TypeOK PROVE SafeSlot \in Int /\ SafeSlot <= head
BY SolanaAssumption DEF SafeSlot, TypeOK

LEMMA NewSlotMoves ==
  ASSUME TypeOK, Chained, NEW n \in 0 .. 2, NewSlot(n)
  PROVE  MovesOn /\ Chained'
<1> DEFINE new == [k \in 1 .. n |-> [slot |-> head + 1, id |-> born + k]]
<1>1. new \in Seq(Txs) /\ Len(new) = n /\ \A k \in 1 .. n : new[k] = [slot |-> head + 1, id |-> born + k]
  <2>1. \A k \in 1 .. n : [slot |-> head + 1, id |-> born + k] \in Txs
    BY DEF TypeOK, Txs
  <2> QED
    BY <2>1
<1>2. txs' = txs \o new /\ head' = head + 1 /\ born' = born + n /\ forks' = forks /\ late' = late /\ srv' = srv
  BY DEF NewSlot
<1> HIDE DEF new
<1>3. /\ txs' \in Seq(Txs) /\ Len(txs') = Len(txs) + n
      /\ \A i \in 1 .. Len(txs) : txs'[i] = txs[i]
      /\ \A k \in 1 .. n : txs'[Len(txs) + k] = new[k]
  BY <1>1, <1>2 DEF TypeOK
<1>4. ASSUME NEW i \in DOMAIN txs', i \notin DOMAIN txs
      PROVE  /\ txs'[i].slot = head + 1 /\ txs'[i].id = born + (i - Len(txs))
             /\ i - Len(txs) \in 1 .. n
  <2>1. i - Len(txs) \in 1 .. n /\ i = Len(txs) + (i - Len(txs))
    BY <1>3, <1>4 DEF TypeOK
  <2>2. txs'[i] = new[i - Len(txs)]
    BY <1>3, <2>1
  <2> QED
    BY <1>1, <2>1, <2>2
<1>5. SafeSlot \in Int /\ SafeSlot <= head /\ SafeSlot' = SafeSlot + 1
  BY SafeSlotNumber, <1>2, SolanaAssumption DEF SafeSlot, TypeOK
<1>6. DOMAIN txs = 1 .. Len(txs) /\ DOMAIN txs' = 1 .. Len(txs) + n
  BY <1>3 DEF TypeOK
<1>7. MovesOn
  <2>1. /\ head' \in Nat /\ born' \in Nat /\ forks' \in Nat
        /\ head' >= head /\ born' >= born
    BY <1>2 DEF TypeOK
  <2>2. \A i \in DOMAIN txs' :
          \/ i \in DOMAIN txs /\ txs'[i] = txs[i]
          \/ txs'[i].id > born /\ txs'[i].slot > SafeSlot /\ txs'[i].slot > head
    BY <1>3, <1>4, <1>5, <1>6 DEF TypeOK
  <2> QED
    BY <1>2, <1>3, <1>6, <2>1, <2>2 DEF MovesOn
<1>8. \A i \in DOMAIN txs : txs[i].slot \in Nat /\ txs[i].id \in Nat
  BY TxTypes
<1>9. \A i \in DOMAIN txs' : txs'[i].slot <= head' /\ txs'[i].id <= born'
  <2> TAKE i \in DOMAIN txs'
  <2>1. head \in Nat /\ born \in Nat /\ head' = head + 1 /\ born' = born + n
    BY <1>2 DEF TypeOK
  <2>2. CASE i \in DOMAIN txs
    <3>1. txs'[i] = txs[i]
      BY <1>3, <1>6, <2>2
    <3>2. txs[i].slot <= head /\ txs[i].id <= born
      BY <2>2 DEF Chained
    <3>3. txs[i].slot \in Nat /\ txs[i].id \in Nat
      BY <1>8, <2>2
    <3> QED
      BY <2>1, <3>1, <3>2, <3>3
  <2>3. CASE i \notin DOMAIN txs
    <3>1. /\ txs'[i].slot = head + 1 /\ txs'[i].id = born + (i - Len(txs))
          /\ i - Len(txs) \in 1 .. n
      BY <1>4, <2>3
    <3> QED
      BY <2>1, <3>1
  <2> QED
    BY <2>2, <2>3
<1>10. ASSUME NEW i \in DOMAIN txs', NEW j \in DOMAIN txs', i < j
       PROVE  txs'[i].slot <= txs'[j].slot /\ txs'[i].id < txs'[j].id
  <2>1. CASE j \in DOMAIN txs
    <3>1. i \in DOMAIN txs
      BY <1>6, <1>10, <2>1
    <3> QED
      BY <1>3, <1>6, <1>10, <2>1, <3>1 DEF Chained
  <2>2. CASE j \notin DOMAIN txs /\ i \in DOMAIN txs
    <3>1. txs'[j].slot = head + 1 /\ txs'[j].id > born
      BY <1>4, <1>6, <2>2 DEF TypeOK
    <3>2. txs'[i] = txs[i] /\ txs[i].slot <= head /\ txs[i].id <= born
      BY <1>3, <1>6, <2>2 DEF Chained
    <3> QED
      BY <1>4, <1>8, <2>2, <3>1, <3>2 DEF TypeOK
  <2>3. CASE j \notin DOMAIN txs /\ i \notin DOMAIN txs
    BY <1>4, <1>6, <1>10, <2>3 DEF TypeOK
  <2> QED
    BY <2>1, <2>2, <2>3
<1> QED
  BY <1>2, <1>5, <1>7, <1>9, <1>10 DEF Chained, TypeOK

LEMMA ForkMoves ==
  ASSUME TypeOK, Chained, NEW k \in DOMAIN txs, NEW again \in BOOLEAN, Fork(k, again)
  PROVE  MovesOn /\ Chained'
<1> DEFINE one == [slot |-> txs[k].slot, id |-> born + 1]
           new == IF again THEN <<one>> ELSE <<>>
<1>1. /\ k \in 1 .. Len(txs) /\ DOMAIN txs = 1 .. Len(txs) /\ Len(txs) \in Nat
      /\ \A i \in DOMAIN txs : txs[i] \in Txs /\ txs[i].slot \in Nat /\ txs[i].id \in Nat
  BY TxTypes
<1>2. /\ txs' = SubSeq(txs, 1, k - 1) \o new
      /\ head' = head /\ srv' = srv /\ forks' = forks + 1
      /\ born' = IF again THEN born + 1 ELSE born
      /\ late' = IF again THEN late \union {born + 1} ELSE late
      /\ txs[k].slot > SafeSlot
  BY DEF Fork
<1>3. new \in Seq(Txs) /\ Len(new) = (IF again THEN 1 ELSE 0) /\ (again => new[1] = one)
  <2>1. one \in Txs
    BY <1>1 DEF TypeOK, Txs
  <2> HIDE DEF one
  <2> QED
    BY <2>1
<1>4. /\ SubSeq(txs, 1, k - 1) \in Seq(Txs) /\ Len(SubSeq(txs, 1, k - 1)) = k - 1
      /\ \A i \in 1 .. k - 1 : SubSeq(txs, 1, k - 1)[i] = txs[i]
  <2>1. 1 \in 1 .. Len(txs) + 1 /\ k - 1 \in 1 - 1 .. Len(txs)
    BY <1>1
  <2>2. /\ SubSeq(txs, 1, k - 1) \in Seq(Txs)
        /\ Len(SubSeq(txs, 1, k - 1)) = IF 1 <= k - 1 THEN (k - 1) - 1 + 1 ELSE 0
        /\ \A i \in 1 .. (k - 1) - 1 + 1 : SubSeq(txs, 1, k - 1)[i] = txs[1 + i - 1]
    BY <2>1, SubSeqProperties DEF TypeOK
  <2> QED
    BY <1>1, <2>2
<1> HIDE DEF new, one
<1>5. /\ txs' \in Seq(Txs) /\ Len(txs') = k - 1 + Len(new)
      /\ \A i \in 1 .. k - 1 : txs'[i] = txs[i]
      /\ again => txs'[k] = one
  <2> DEFINE old == SubSeq(txs, 1, k - 1)
  <2>1. old \in Seq(Txs) /\ Len(old) = k - 1 /\ \A i \in 1 .. k - 1 : old[i] = txs[i]
    BY <1>4
  <2>2. txs' = old \o new
    BY <1>2
  <2> HIDE DEF old
  <2>3. /\ txs' \in Seq(Txs) /\ Len(txs') = Len(old) + Len(new)
        /\ \A i \in 1 .. Len(old) : txs'[i] = old[i]
        /\ \A i \in 1 .. Len(new) : txs'[Len(old) + i] = new[i]
    BY <1>3, <2>1, <2>2
  <2>4. again => txs'[Len(old) + 1] = new[1]
    BY <1>3, <2>3
  <2> QED
    BY <1>1, <1>3, <2>1, <2>3, <2>4
<1>6. \A i \in DOMAIN txs' : \/ i \in 1 .. k - 1
                             \/ again /\ i = k
  BY <1>1, <1>3, <1>5
<1>7. again => one.slot = txs[k].slot /\ one.id = born + 1
  BY DEF one
<1>8. \A i \in 1 .. k - 1 : i \in DOMAIN txs /\ i \in DOMAIN txs'
  BY <1>1, <1>3, <1>5
<1>9. SafeSlot \in Int /\ SafeSlot' = SafeSlot
  BY SafeSlotNumber, <1>2 DEF SafeSlot
<1>10. MovesOn
  <2>1. /\ head' \in Nat /\ born' \in Nat /\ forks' \in Nat
        /\ head' >= head /\ born' >= born /\ late \subseteq late'
    BY <1>2 DEF TypeOK
  <2>2. ASSUME NEW i \in DOMAIN txs'
        PROVE  \/ i \in DOMAIN txs /\ txs'[i] = txs[i]
               \/ /\ txs'[i].id > born /\ txs'[i].slot > SafeSlot
                  /\ txs'[i].slot > head \/ txs'[i].id \in late'
    <3>1. CASE i \in 1 .. k - 1
      BY <1>5, <1>8, <3>1
    <3>2. CASE again /\ i = k
      <4>1. txs'[i].id = born + 1 /\ txs'[i].slot = txs[k].slot
        BY <1>5, <1>7, <3>2
      <4>2. late' = late \union {born + 1} /\ txs[k].slot > SafeSlot
        BY <1>2, <3>2
      <4>3. born \in Nat
        BY DEF TypeOK
      <4> QED
        BY <4>1, <4>2, <4>3
    <3> QED
      BY <1>6, <2>2, <3>1, <3>2
  <2>3. ASSUME NEW i \in DOMAIN txs, txs[i].slot <= SafeSlot
        PROVE  i \in DOMAIN txs' /\ txs'[i] = txs[i]
    <3>1. ~(k < i) /\ i # k
      <4>1. k < i => txs[k].slot <= txs[i].slot
        BY DEF Chained
      <4> QED
        BY <1>1, <1>2, <1>9, <2>3, <4>1
    <3>2. i \in 1 .. k - 1
      BY <1>1, <3>1
    <3> QED
      BY <1>5, <1>8, <3>2
  <2> QED
    BY <1>5, <2>1, <2>2, <2>3 DEF MovesOn
<1>11. \A i \in DOMAIN txs' : txs'[i].slot <= head' /\ txs'[i].id <= born'
  <2> TAKE i \in DOMAIN txs'
  <2>1. CASE i \in 1 .. k - 1
    BY <1>1, <1>2, <1>5, <1>8, <2>1 DEF Chained, TypeOK
  <2>2. CASE again /\ i = k
    <3>1. txs'[i].id = born + 1 /\ txs'[i].slot = txs[k].slot
      BY <1>5, <1>7, <2>2
    <3>2. txs[k].slot <= head
      BY DEF Chained
    <3>3. born' = born + 1 /\ head' = head
      BY <1>2, <2>2
    <3>4. born \in Nat
      BY DEF TypeOK
    <3> QED
      BY <3>1, <3>2, <3>3, <3>4
  <2> QED
    BY <1>6, <2>1, <2>2
<1>12. ASSUME NEW i \in DOMAIN txs', NEW j \in DOMAIN txs', i < j
       PROVE  txs'[i].slot <= txs'[j].slot /\ txs'[i].id < txs'[j].id
  <2>1. i \in 1 .. k - 1
    BY <1>1, <1>6, <1>12
  <2>2. txs'[i] = txs[i] /\ i \in DOMAIN txs
    BY <1>5, <1>8, <2>1
  <2>3. CASE j \in 1 .. k - 1
    BY <1>5, <1>8, <1>12, <2>2, <2>3 DEF Chained
  <2>4. CASE again /\ j = k
    <3>1. txs[i].slot <= txs[k].slot /\ txs[i].id <= born
      BY <1>1, <2>1, <2>2 DEF Chained
    <3> QED
      BY <1>1, <1>5, <1>7, <2>2, <2>4, <3>1 DEF TypeOK
  <2> QED
    BY <1>6, <2>3, <2>4
<1> QED
  BY <1>2, <1>9, <1>10, <1>11, <1>12 DEF Chained

-----------------------------------------------------------------------------
(***************************************************************************)
(* The steps.                                                              *)
(***************************************************************************)
LEMMA SeenKept ==
  ASSUME OnePlace, Seen' \subseteq Seen, born' = born PROVE OnePlace'
BY DEF OnePlace

\* A new slot or a rollback leaves everything as it was that the scan and the
\* listener rely on.
LEMMA ChainStep ==
  ASSUME IInv, MovesOn, Chained',
         UNCHANGED <<srv, phase, latest, storeVars, job, listenVars, skipped>>
  PROVE  IInv'
<1> USE DEF IInv
<1>1. /\ tree' = tree /\ outs' = outs /\ nulls' = nulls /\ srv' = srv /\ phase' = phase
      /\ latest' = latest /\ job' = job /\ listenFrom' = listenFrom
      /\ fetchFrom' = fetchFrom /\ poll' = poll /\ skipped' = skipped
  BY DEF storeVars, listenVars
<1>2. TypeOK'
  BY <1>1 DEF TypeOK, MovesOn
<1>3. /\ SafeSlot \in Int /\ SafeSlot <= head /\ srv <= SafeSlot
      /\ head \in Nat /\ born \in Nat /\ srv \in Nat /\ latest \in Nat
      /\ fetchFrom \in Nat /\ listenFrom \in Nat
      /\ job.from \in Nat /\ job.to \in Nat /\ poll.to \in Nat
  BY SafeSlotNumber DEF TypeOK, Jobs, Polls, Chained
<1>4. \A i \in DOMAIN txs : txs[i].slot \in Nat /\ txs[i].id \in Nat
  BY TxTypes
<1>5. \A i \in DOMAIN txs' : txs'[i].slot \in Nat /\ txs'[i].id \in Nat
  <2>1. \A t \in Txs : t.slot \in Nat /\ t.id \in Nat
    BY DEF Txs
  <2>2. \A i \in DOMAIN txs' : txs'[i] \in Txs
    BY DEF MovesOn
  <2> QED
    BY <2>1, <2>2
\* A transaction up to the head is an old one, or came late.
<1>6. \A i \in DOMAIN txs' : txs'[i].slot <= head /\ txs'[i].id \notin late' =>
        i \in DOMAIN txs /\ txs'[i] = txs[i] /\ txs[i].id \notin late
  BY <1>3, <1>5 DEF MovesOn
<1>7. \A i \in DOMAIN txs' : txs'[i].slot <= srv => i \in DOMAIN txs /\ txs'[i] = txs[i]
  BY <1>3, <1>5 DEF MovesOn
<1>8. \A i \in DOMAIN txs : txs[i].slot <= srv => i \in DOMAIN txs' /\ txs'[i] = txs[i]
  BY <1>3, <1>4 DEF MovesOn
<1>9. Phases' /\ OutputsOfLeaves'
  BY <1>1 DEF Phases, OutputsOfLeaves
<1>10. Positions'
  <2>1. head' \in Nat /\ head' >= head
    BY DEF MovesOn
  <2> QED
    BY <1>1, <1>3, <2>1 DEF Positions
<1>11. Polled'
  <2> SUFFICES ASSUME poll.pc = "got"
               PROVE  /\ fetchFrom <= poll.to /\ poll.to <= srv
                      /\ \A x \in poll.evs : x.idx \in DOMAIN txs' /\ txs'[x.idx].slot <= poll.to
                                             /\ txs'[x.idx].id = x.id
                      /\ \A i \in DOMAIN txs' :
                           txs'[i].slot \in fetchFrom .. poll.to => Event(i)' \in poll.evs
    BY <1>1 DEF Polled
  <2>1. fetchFrom <= poll.to /\ poll.to <= srv
    BY DEF Polled
  <2>2. ASSUME NEW x \in poll.evs
        PROVE  x.idx \in DOMAIN txs' /\ txs'[x.idx].slot <= poll.to /\ txs'[x.idx].id = x.id
    BY <1>3, <1>4, <1>8, <2>1 DEF Polled
  <2>3. ASSUME NEW i \in DOMAIN txs', txs'[i].slot \in fetchFrom .. poll.to
        PROVE  Event(i)' \in poll.evs
    <3>1. i \in DOMAIN txs /\ txs'[i] = txs[i]
      BY <1>3, <1>5, <1>7, <2>1, <2>3
    <3> QED
      BY <2>3, <3>1 DEF Polled, Event
  <2> QED
    BY <2>1, <2>2, <2>3
<1>12. Paged'
  <2> SUFFICES ASSUME job.pc = "paging"
               PROVE  /\ job.more => job.sigs # <<>>
                      /\ job.cut => ~job.more
                      /\ ~job.cut => \A i \in DOMAIN txs' :
                           txs'[i].slot \in job.from .. job.to /\ txs'[i].id \notin late' =>
                             \/ Event(i)' \in Listed(job.sigs)
                             \/ job.more /\ i < Last(job.sigs).idx
    BY <1>1 DEF Paged, Listed
  <2>1. job.to <= head
    BY DEF Positions
  <2>2. ASSUME ~job.cut, NEW i \in DOMAIN txs',
               txs'[i].slot \in job.from .. job.to, txs'[i].id \notin late'
        PROVE  Event(i)' \in Listed(job.sigs) \/ (job.more /\ i < Last(job.sigs).idx)
    <3>1. i \in DOMAIN txs /\ txs'[i] = txs[i] /\ txs[i].id \notin late
      BY <1>3, <1>5, <1>6, <2>1, <2>2
    <3>2. Event(i)' = Event(i)
      BY <3>1 DEF Event
    <3> QED
      BY <2>2, <3>1, <3>2 DEF Paged
  <2> QED
    BY <2>2 DEF Paged
<1>13. ReadAll'
  <2> SUFFICES ASSUME job.pc = "process"
               PROVE  /\ \A i \in DOMAIN txs' :
                           txs'[i].slot <= job.to /\ txs'[i].id \notin skipped \union late' =>
                             /\ txs'[i].slot >= job.from => Event(i)' \in job.evs
                             /\ \A x \in job.evs : x.idx = i => x.id = txs'[i].id
                      /\ listenFrom > 0 => \A i \in DOMAIN txs', x \in job.evs :
                           txs'[i].slot \in listenFrom .. fetchFrom - 1 /\ x.idx = i =>
                             x.id = txs'[i].id
    BY <1>1 DEF ReadAll
  <2>1. job.to <= head
    BY DEF Positions
  <2>2. ASSUME NEW i \in DOMAIN txs', txs'[i].slot <= job.to,
               txs'[i].id \notin skipped \union late'
        PROVE  /\ txs'[i].slot >= job.from => Event(i)' \in job.evs
               /\ \A x \in job.evs : x.idx = i => x.id = txs'[i].id
    <3>1. i \in DOMAIN txs /\ txs'[i] = txs[i] /\ txs[i].id \notin late
      BY <1>3, <1>5, <1>6, <2>1, <2>2
    <3>2. Event(i)' = Event(i)
      BY <3>1 DEF Event
    <3> QED
      BY <2>2, <3>1, <3>2 DEF ReadAll
  <2>3. ASSUME listenFrom > 0, NEW i \in DOMAIN txs', NEW x \in job.evs,
               txs'[i].slot \in listenFrom .. fetchFrom - 1, x.idx = i
        PROVE  x.id = txs'[i].id
    <3>1. txs'[i].slot <= srv
      BY <1>3, <1>5, <2>3 DEF Positions
    <3>2. i \in DOMAIN txs /\ txs'[i] = txs[i]
      BY <1>7, <3>1
    <3> QED
      BY <2>3, <3>2 DEF ReadAll
  <2> QED
    BY <2>2, <2>3
<1>14. OnePlace'
  <2>1. ASSUME NEW e \in Seen'
        PROVE  \/ e \in Seen
               \/ \E i \in DOMAIN txs' : e = Event(i)' /\ txs'[i].id > born
    <3>1. CASE e \in {Event(i) : i \in DOMAIN txs}'
      <4>1. PICK i \in DOMAIN txs' : e = Event(i)'
        BY <3>1
      <4>2. CASE i \in DOMAIN txs /\ txs'[i] = txs[i]
        BY <4>1, <4>2 DEF Event, Seen
      <4>3. CASE txs'[i].id > born
        BY <4>1, <4>3
      <4> QED
        BY <4>2, <4>3 DEF MovesOn
    <3>2. CASE e \in (job.evs \union {[idx |-> i, id |-> tree[i]] : i \in DOMAIN tree})'
      BY <1>1, <3>2 DEF Seen
    <3> QED
      BY <2>1, <3>1, <3>2 DEF Seen
  <2>2. \A i \in DOMAIN txs' : Event(i)' \in Events /\ Event(i)'.id = txs'[i].id /\ Event(i)'.idx = i
                              /\ txs'[i].id <= born'
    <3>1. \A i \in DOMAIN txs' : i \in Nat
      BY DEF MovesOn
    <3> QED
      BY <1>5, <3>1 DEF Event, Events, Chained
  <2>3. born' \in Nat /\ born' >= born
    BY DEF MovesOn
  <2>4. \A e \in Seen : e \in Events /\ e.id \in Nat /\ e.id <= born
    BY DEF OnePlace, Events
  <2>5. \A e \in Seen' : e \in Events /\ e.id <= born'
    BY <1>3, <2>1, <2>2, <2>3, <2>4
  <2>6. ASSUME NEW i \in DOMAIN txs', NEW j \in DOMAIN txs', txs'[i].id = txs'[j].id PROVE i = j
    <3>1. i \in Nat /\ j \in Nat
      BY DEF MovesOn
    <3>2. i < j => txs'[i].id < txs'[j].id
      BY DEF Chained
    <3>3. j < i => txs'[j].id < txs'[i].id
      BY DEF Chained
    <3> QED
      BY <1>5, <2>6, <3>1, <3>2, <3>3
  <2>7. ASSUME NEW e \in Seen', NEW f \in Seen', e.id = f.id PROVE e.idx = f.idx
    <3>1. CASE e \in Seen /\ f \in Seen
      BY <2>7, <3>1 DEF OnePlace
    <3>2. CASE \E i \in DOMAIN txs' : e = Event(i)' /\ txs'[i].id > born
      <4>1. PICK i \in DOMAIN txs' : e = Event(i)' /\ txs'[i].id > born
        BY <3>2
      <4>2. f \notin Seen
        BY <1>3, <1>5, <2>2, <2>4, <2>7, <4>1
      <4>3. PICK j \in DOMAIN txs' : f = Event(j)'
        BY <2>1, <4>2
      <4> QED
        BY <2>2, <2>6, <2>7, <4>1, <4>3
    <3>3. CASE \E i \in DOMAIN txs' : f = Event(i)' /\ txs'[i].id > born
      <4>1. PICK i \in DOMAIN txs' : f = Event(i)' /\ txs'[i].id > born
        BY <3>3
      <4>2. e \notin Seen
        BY <1>3, <1>5, <2>2, <2>4, <2>7, <4>1
      <4>3. PICK j \in DOMAIN txs' : e = Event(j)'
        BY <2>1, <4>2
      <4> QED
        BY <2>2, <2>6, <2>7, <4>1, <4>3
    <3> QED
      BY <2>1, <3>1, <3>2, <3>3
  <2> QED
    BY <2>5, <2>7 DEF OnePlace
<1>15. Scanned'
  <2> SUFFICES ASSUME NEW i \in DOMAIN txs', txs'[i].slot <= latest,
                      txs'[i].id \notin skipped \union late'
               PROVE  Holds(i)'
    BY <1>1 DEF Scanned
  <2>1. i \in DOMAIN txs /\ txs'[i] = txs[i] /\ txs[i].id \notin late
    BY <1>3, <1>5, <1>6 DEF Positions
  <2> QED
    BY <1>1, <2>1 DEF Scanned, Holds
<1>16. Listened'
  <2> SUFFICES ASSUME listenFrom > 0, NEW i \in DOMAIN txs',
                      txs'[i].slot \in listenFrom .. fetchFrom - 1
               PROVE  Holds(i)'
    BY <1>1 DEF Listened
  <2>1. txs'[i].slot <= srv
    BY <1>3, <1>5 DEF Positions
  <2>2. i \in DOMAIN txs /\ txs'[i] = txs[i]
    BY <1>7, <2>1
  <2> QED
    BY <1>1, <2>2 DEF Listened, Holds
<1> QED
  BY <1>2, <1>9, <1>10, <1>11, <1>12, <1>13, <1>14, <1>15, <1>16

LEMMA ServerScansStep == ASSUME IInv, ServerScans PROVE IInv'
<1> USE DEF IInv
<1>1. /\ srv' = SafeSlot /\ SafeSlot \in Int /\ srv' > srv
      /\ UNCHANGED <<txs, head, born, forks, late, phase, latest, tree, outs, nulls, job,
                     listenFrom, fetchFrom, poll, skipped>>
  BY SafeSlotNumber DEF ServerScans, GetLastSlot, SafeSlot, chainVars, storeVars, listenVars
<1>2. srv \in Nat /\ srv' \in Nat
  BY <1>1 DEF TypeOK
<1>3. TypeOK'
  BY <1>1, <1>2 DEF TypeOK
<1>4. Chained'
  BY <1>1 DEF Chained, SafeSlot
<1>5. Phases' /\ Paged' /\ ReadAll' /\ OutputsOfLeaves'
  BY <1>1 DEF Phases, Paged, ReadAll, OutputsOfLeaves, Event, Listed
<1>6. Positions'
  BY <1>1, <1>2 DEF Positions, TypeOK
<1>7. Polled'
  BY <1>1, <1>2 DEF Polled, TypeOK, Polls, Event
<1>8. OnePlace'
  <2>1. Seen' = Seen
    BY <1>1 DEF Seen, Event
  <2> QED
    BY <1>1, <2>1, SeenKept
<1>9. Scanned' /\ Listened'
  BY <1>1 DEF Scanned, Listened, Holds
<1> QED
  BY <1>3, <1>4, <1>5, <1>6, <1>7, <1>8, <1>9

LEMMA LoadStep ==
  ASSUME IInv, NEW a \in 0 .. srv, NEW b \in 0 .. srv, LoadSnapshots(a, b) PROVE IInv'
<1> USE DEF IInv
<1>1. /\ job.pc = "idle" /\ poll.pc = "idle"
      /\ phase' = "loaded" /\ latest' = SyncFromAtMost(a, b)
      /\ tree' = [i \in {e.idx : e \in OnChain(0, a)} |-> txs[i].id]
      /\ outs' = {e.id : e \in OnChain(0, a)}
      /\ nulls' = {e.id : e \in OnChain(0, b)}
      /\ listenFrom' = 0 /\ fetchFrom' = 0 /\ skipped' = {}
      /\ UNCHANGED <<txs, head, born, forks, late, srv, job, poll>>
  BY DEF LoadSnapshots, chainVars
<1>2. /\ a \in Nat /\ b \in Nat /\ a <= srv /\ b <= srv /\ srv \in Nat
      /\ latest' \in Nat /\ latest' <= a /\ latest' <= b
  BY <1>1 DEF TypeOK, SyncFromAtMost
<1>3. \A i \in DOMAIN txs : txs[i].slot \in Nat /\ txs[i].id \in Nat
  BY TxTypes
<1>4. \A e \in OnChain(0, a) : e.idx \in DOMAIN txs /\ e.id = txs[e.idx].id
  BY DEF OnChain, Event
<1>5. DOMAIN tree' = {e.idx : e \in OnChain(0, a)} /\ \A i \in DOMAIN tree' : tree'[i] = txs[i].id
  BY <1>1
<1>6. \A i \in DOMAIN tree' : i \in DOMAIN txs /\ tree'[i] = txs[i].id
  BY <1>4, <1>5
<1>7. \A i \in DOMAIN txs : txs[i].slot <= a => i \in DOMAIN tree'
  <2> SUFFICES ASSUME NEW i \in DOMAIN txs, txs[i].slot <= a PROVE i \in DOMAIN tree'
    OBVIOUS
  <2>1. Event(i) \in OnChain(0, a)
    BY <1>2, <1>3 DEF OnChain
  <2> QED
    BY <1>5, <2>1 DEF Event
<1>8. \A i \in DOMAIN txs : txs[i].slot <= b => txs[i].id \in nulls'
  <2> SUFFICES ASSUME NEW i \in DOMAIN txs, txs[i].slot <= b PROVE txs[i].id \in nulls'
    OBVIOUS
  <2>1. Event(i) \in OnChain(0, b)
    BY <1>2, <1>3 DEF OnChain
  <2> QED
    BY <1>1, <2>1 DEF Event
<1>9. TypeOK'
  BY <1>1, <1>2 DEF TypeOK
<1>10. Chained'
  BY <1>1 DEF Chained, SafeSlot
<1>11. Phases' /\ Polled' /\ Paged' /\ ReadAll'
  BY <1>1 DEF Phases, Polled, Paged, ReadAll
<1>12. Positions'
  <2>1. latest' <= head
    BY <1>2, SafeSlotNumber DEF Chained, TypeOK
  <2> QED
    BY <1>1, <2>1 DEF Positions
<1>13. OnePlace'
  <2>1. ASSUME NEW e \in Seen' PROVE e \in Seen
    <3>1. CASE e \in {[idx |-> i, id |-> tree[i]] : i \in DOMAIN tree}'
      BY <1>6, <3>1 DEF Seen, Event
    <3>2. CASE e \in ({Event(i) : i \in DOMAIN txs} \union job.evs)'
      BY <1>1, <3>2 DEF Seen, Event
    <3> QED
      BY <2>1, <3>1, <3>2 DEF Seen
  <2> QED
    BY <1>1, <2>1, SeenKept
<1>14. Scanned'
  <2> SUFFICES ASSUME NEW i \in DOMAIN txs, txs[i].slot <= latest' PROVE Holds(i)'
    BY <1>1 DEF Scanned
  <2>1. txs[i].slot <= a /\ txs[i].slot <= b
    BY <1>2, <1>3
  <2> QED
    BY <1>1, <1>6, <1>7, <1>8, <2>1 DEF Holds
<1>15. Listened'
  BY <1>1 DEF Listened
<1>16. OutputsOfLeaves'
  <2>1. ASSUME NEW o \in outs' PROVE \E i \in DOMAIN tree' : tree'[i] = o
    BY <1>1, <1>4, <1>5, <2>1
  <2>2. ASSUME NEW i \in DOMAIN tree' PROVE tree'[i] \in outs'
    BY <1>1, <1>4, <1>5, <2>2
  <2> QED
    BY <2>1, <2>2 DEF OutputsOfLeaves
<1> QED
  BY <1>9, <1>10, <1>11, <1>12, <1>13, <1>14, <1>15, <1>16

\* A step that only changes where the scan is, and has read nothing, keeps
\* everything but what is said of the scan.
LEMMA JobStep ==
  ASSUME IInv, job' \in Jobs, job'.evs = {}, job'.pc # "process",
         UNCHANGED <<chainVars, srv, latest, storeVars, listenVars, skipped>>,
         phase' \in {"new", "loaded", "ready"},
         Phases', Positions', Paged'
  PROVE  IInv'
<1> USE DEF IInv
<1>1. UNCHANGED <<txs, head, born, forks, late, srv, latest, tree, outs, nulls,
                  listenFrom, fetchFrom, poll, skipped>>
  BY DEF chainVars, storeVars, listenVars
<1>2. TypeOK'
  BY <1>1 DEF TypeOK
<1>3. Chained'
  BY <1>1 DEF Chained, SafeSlot
<1>4. Polled' /\ ReadAll' /\ OutputsOfLeaves'
  BY <1>1 DEF Polled, ReadAll, OutputsOfLeaves, Event
<1>5. OnePlace'
  <2>1. Seen' \subseteq Seen
    BY <1>1 DEF Seen, Event
  <2> QED
    BY <1>1, <2>1, SeenKept
<1>6. Scanned' /\ Listened'
  BY <1>1 DEF Scanned, Listened, Holds
<1> QED
  BY <1>2, <1>3, <1>4, <1>5, <1>6

LEMMA NoJobType == NoJob \in Jobs /\ NoJob.evs = {} /\ NoJob.pc = "idle"
BY SolanaAssumption DEF NoJob, Jobs, Sigs

LEMMA JobTypes ==
  ASSUME TypeOK
  PROVE  /\ job \in Jobs
         /\ job.pc \in {"idle", "called", "paging", "process"} /\ job.from \in Nat
         /\ job.to \in Nat /\ job.limit \in Nat \ {0} /\ job.sigs \in Seq(Sigs)
         /\ job.start \in BOOLEAN /\ job.more \in BOOLEAN /\ job.cut \in BOOLEAN
         /\ job.evs \in SUBSET Events
BY DEF TypeOK, Jobs

\* A scan begins at the latest slot or right after it.
LEMMA CallStep ==
  ASSUME IInv, NEW from, from \in {latest, latest + 1}, NEW limit \in Nat \ {0},
         NEW start \in BOOLEAN, Call(from, limit, start), phase' = "ready",
         start => listenFrom = 0
  PROVE  IInv'
<1> USE DEF IInv
<1>1. /\ job' = [NoJob EXCEPT !.pc = "called", !.from = from, !.limit = limit, !.start = start]
      /\ UNCHANGED <<chainVars, srv, latest, storeVars, listenVars, skipped>>
  BY DEF Call
<1>2. UNCHANGED <<head, latest, listenFrom, fetchFrom, poll, srv>>
  BY <1>1 DEF chainVars, listenVars
<1>3. job' = [pc |-> "called", from |-> from, to |-> 0, limit |-> limit, start |-> start,
              sigs |-> <<>>, more |-> FALSE, cut |-> FALSE, evs |-> {}]
  BY <1>1 DEF NoJob
<1>4. job' \in Jobs
  BY <1>3 DEF Jobs, TypeOK, Sigs
<1>5. Phases'
  BY <1>2, <1>3 DEF Phases
<1>6. Positions'
  BY <1>2, <1>3 DEF Positions, TypeOK
<1>7. Paged' /\ job'.pc # "process" /\ job'.evs = {}
  BY <1>3 DEF Paged
<1> QED
  BY <1>1, <1>4, <1>5, <1>6, <1>7, JobStep

LEMMA FirstRetrieveStep ==
  ASSUME IInv, NEW start \in BOOLEAN, FirstRetrieve(start) PROVE IInv'
<1>1. (IF start THEN InitLimit ELSE Limit) \in Nat \ {0}
  BY SolanaAssumption
<1>2. listenFrom = 0
  BY DEF FirstRetrieve, IInv, Phases
<1> QED
  BY <1>1, <1>2, CallStep DEF FirstRetrieve

LEMMA RetrieveStep == ASSUME IInv, RetrieveEventsFromLatestBlock PROVE IInv'
<1>1. Limit \in Nat \ {0}
  BY SolanaAssumption
<1> QED
  BY <1>1, CallStep DEF RetrieveEventsFromLatestBlock

LEMMA ScanFailsStep == ASSUME IInv, ScanFails PROVE IInv'
<1> USE DEF IInv
<1>1. /\ job' = NoJob /\ phase' = phase
      /\ UNCHANGED <<chainVars, srv, latest, storeVars, listenVars, skipped>>
  BY DEF ScanFails
<1>2. UNCHANGED <<head, latest, listenFrom, fetchFrom, poll, srv>>
  BY <1>1 DEF chainVars, listenVars
<1>3. Phases' /\ Positions' /\ Paged'
  BY <1>1, <1>2, NoJobType DEF Phases, Positions, Paged
<1> QED
  BY <1>1, <1>3, NoJobType, JobStep DEF TypeOK

\* A page that is taken from place n on leaves nothing out: what it does not
\* list is below it, and is either asked for or below the slot of the scan.
LEMMA PageCovers ==
  ASSUME IInv, NEW n \in 0 .. Len(txs), NEW i \in 1 .. n, txs[i].slot >= job.from,
         NEW sigs, NEW page, page = Signatures(n, job.limit),
         page # <<>> => Last(sigs) = Last(page)
  PROVE  \/ Event(i) \in Listed(page)
         \/ /\ page # <<>> /\ WantsMore(sigs, page, job.limit, job.from)
            /\ i < Last(sigs).idx
<1> USE DEF IInv
<1>1. txs \in Seq(Txs) /\ job.limit \in Nat \ {0} /\ job.from \in Nat
  BY JobTypes DEF TypeOK
<1>2. /\ page # <<>> => /\ Last(page).idx \in 1 .. n
                        /\ Last(page).slot = txs[Last(page).idx].slot
      /\ \/ Event(i) \in Listed(page)
         \/ page # <<>> /\ i < Last(page).idx /\ Len(page) >= job.limit
  BY <1>1, PageFacts
<1> SUFFICES ASSUME page # <<>>, i < Last(page).idx, Len(page) >= job.limit
             PROVE  WantsMore(sigs, page, job.limit, job.from) /\ i < Last(sigs).idx
  BY <1>2
<1>3. Last(page).idx \in DOMAIN txs /\ i \in DOMAIN txs
  BY <1>2, TxTypes
<1>4. txs[i].slot <= txs[Last(page).idx].slot
  BY <1>3 DEF Chained
<1>5. Last(page).slot >= job.from
  BY <1>1, <1>2, <1>3, <1>4, TxTypes
<1> QED
  BY <1>5 DEF WantsMore

LEMMA StartScanStep == ASSUME IInv, StartScan PROVE IInv'
<1> USE DEF IInv
<1> DEFINE page == Signatures(Len(txs), job.limit)
<1>1. /\ job.pc = "called" /\ phase' = phase
      /\ UNCHANGED <<chainVars, srv, latest, storeVars, listenVars, skipped>>
  BY DEF StartScan
<1>2. UNCHANGED <<txs, late, head, latest, listenFrom, fetchFrom, poll, srv>>
  BY <1>1 DEF chainVars, listenVars
<1>3. CASE job' = NoJob
  <2>1. Phases' /\ Positions' /\ Paged'
    BY <1>1, <1>2, <1>3, NoJobType DEF Phases, Positions, Paged
  <2> QED
    BY <1>1, <1>3, <2>1, NoJobType, JobStep DEF TypeOK
<1>4. CASE /\ head >= job.from
           /\ job' = [job EXCEPT !.pc = "paging", !.to = head, !.sigs = page,
                                 !.more = WantsMore(page, page, job.limit, job.from)]
  <2>1. /\ txs \in Seq(Txs) /\ head \in Nat /\ job \in Jobs /\ job.limit \in Nat \ {0}
        /\ Len(txs) \in 0 .. Len(txs) /\ job.from \in Nat
    BY JobTypes DEF TypeOK
  <2>2. page \in Seq(Sigs)
    BY <2>1, PageFacts
  <2>3. WantsMore(page, page, job.limit, job.from) \in BOOLEAN
    BY DEF WantsMore
  <2> HIDE DEF page
  <2>4. /\ job' \in Jobs /\ job'.pc = "paging" /\ job'.to = head /\ job'.sigs = page
        /\ job'.more = WantsMore(page, page, job.limit, job.from)
        /\ job'.from = job.from /\ job'.start = job.start /\ job'.evs = job.evs
        /\ job'.limit = job.limit
    BY <1>4, <2>1, <2>2, <2>3 DEF Jobs
  <2>5. job'.evs = {} /\ job'.pc # "process"
    BY <1>1, <2>4 DEF Phases
  <2>6. Phases'
    BY <1>1, <1>2, <2>4, <2>5 DEF Phases
  <2>7. Positions'
    BY <1>1, <1>2, <1>4, <2>1, <2>4 DEF Positions
  <2>8. job'.cut = FALSE
    BY <1>1, <1>4, <2>1 DEF Phases, Jobs
  <2>9. job'.more => page # <<>>
    <3>1. page = <<>> => Len(page) = 0
      OBVIOUS
    <3>2. WantsMore(page, page, job.limit, job.from) => Len(page) >= job.limit
      BY DEF WantsMore
    <3>3. page = <<>> => ~WantsMore(page, page, job.limit, job.from)
      BY <2>1, <3>1, <3>2
    <3> QED
      BY <2>4, <3>3
  <2>10. ASSUME NEW i \in DOMAIN txs, txs[i].slot \in job.from .. head
         PROVE  \/ Event(i) \in Listed(page)
                \/ job'.more /\ i < Last(page).idx
    <3>1. i \in 1 .. Len(txs) /\ txs[i].slot >= job.from
      BY <2>10, TxTypes, <2>1
    <3> QED
      BY <2>1, <2>4, <3>1, PageCovers DEF page
  <2>11. Paged'
    <3>1. \A i \in DOMAIN txs : Event(i)' = Event(i)
      BY <1>2 DEF Event
    <3> QED
      BY <1>2, <2>4, <2>8, <2>9, <2>10, <3>1 DEF Paged, Listed
  <2> QED
    BY <1>1, <2>4, <2>5, <2>6, <2>7, <2>11, JobStep DEF TypeOK
<1>5. head \in Nat /\ job.from \in Nat
  BY JobTypes DEF TypeOK
<1> QED
  BY <1>3, <1>4, <1>5 DEF StartScan, GetLastSlot

LEMMA NextPageStep == ASSUME IInv, NextPage PROVE IInv'
<1> USE DEF IInv
<1> DEFINE last  == Last(job.sigs)
           known == last.idx \in DOMAIN txs /\ txs[last.idx].id = last.id
           page  == IF known THEN Signatures(last.idx - 1, job.limit) ELSE <<>>
           sigs  == job.sigs \o page
           more  == page # <<>> /\ WantsMore(sigs, page, job.limit, job.from)
<1>1. /\ job.pc = "paging" /\ job.more /\ phase' = phase
      /\ job' = [job EXCEPT !.sigs = sigs, !.cut = ~known, !.more = more]
      /\ UNCHANGED <<chainVars, srv, latest, storeVars, listenVars, skipped>>
  BY DEF NextPage
<1>2. UNCHANGED <<txs, late, head, latest, listenFrom, fetchFrom, poll, srv>>
  BY <1>1 DEF chainVars, listenVars
<1>3. /\ txs \in Seq(Txs) /\ job \in Jobs /\ job.limit \in Nat \ {0} /\ job.sigs \in Seq(Sigs)
      /\ job.from \in Nat /\ job.to \in Nat
  BY JobTypes DEF TypeOK
<1>4. known => last.idx \in 1 .. Len(txs) /\ last.idx - 1 \in 0 .. Len(txs)
  BY TxTypes
<1>5. page \in Seq(Sigs)
  <2>1. CASE known
    BY <1>3, <1>4, <2>1, PageFacts
  <2>2. CASE ~known
    BY <2>2
  <2> QED
    BY <2>1, <2>2
<1>6. known \in BOOLEAN /\ more \in BOOLEAN /\ (~known => ~more)
  BY DEF WantsMore
<1> HIDE DEF known, page, last
<1>7. /\ sigs \in Seq(Sigs)
      /\ Listed(job.sigs) \subseteq Listed(sigs) /\ Listed(page) \subseteq Listed(sigs)
      /\ page # <<>> => Last(sigs) = Last(page) /\ sigs # <<>>
  <2>1. /\ sigs \in Seq(Sigs)
        /\ Listed(job.sigs) \subseteq Listed(sigs) /\ Listed(page) \subseteq Listed(sigs)
        /\ page # <<>> => Last(sigs) = Last(page)
    BY <1>3, <1>5, ListedConcat
  <2>2. page # <<>> => sigs # <<>>
    BY <1>3, <1>5
  <2> QED
    BY <2>1, <2>2
<1> HIDE DEF sigs, more
<1>8. /\ job' \in Jobs /\ job'.pc = "paging" /\ job'.sigs = sigs /\ job'.cut = ~known
      /\ job'.more = more /\ job'.from = job.from /\ job'.to = job.to
      /\ job'.start = job.start /\ job'.evs = job.evs
  BY <1>1, <1>3, <1>6, <1>7 DEF Jobs
<1>9. job'.evs = {} /\ job'.pc # "process"
  BY <1>1, <1>8 DEF Phases
<1>10. Phases' /\ Positions'
  BY <1>1, <1>2, <1>8, <1>9 DEF Phases, Positions
<1>11. ASSUME known, NEW i \in DOMAIN txs,
              txs[i].slot \in job.from .. job.to, txs[i].id \notin late
       PROVE  Event(i) \in Listed(sigs) \/ (more /\ i < Last(sigs).idx)
  <2>1. Event(i) \in Listed(job.sigs) \/ i < last.idx
    BY <1>1, <1>11 DEF Paged, last
  <2>2. CASE i < last.idx
    <3>1. last.idx - 1 \in 0 .. Len(txs) /\ i \in 1 .. last.idx - 1 /\ txs[i].slot >= job.from
      BY <1>3, <1>4, <1>11, <2>2, TxTypes
    <3>2. page = Signatures(last.idx - 1, job.limit)
      BY <1>11 DEF page
    <3>3. \/ Event(i) \in Listed(page)
          \/ /\ page # <<>> /\ WantsMore(sigs, page, job.limit, job.from)
             /\ i < Last(sigs).idx
      BY <1>7, <3>1, <3>2, PageCovers
    <3> QED
      BY <1>7, <3>3 DEF more
  <2> QED
    BY <1>7, <2>1, <2>2
<1>12. Paged'
  <2>1. \A i \in DOMAIN txs : Event(i)' = Event(i)
    BY <1>2 DEF Event
  <2>2. more => sigs # <<>>
    BY <1>7 DEF more
  <2>3. job'.cut => ~job'.more
    BY <1>6, <1>8
  <2>4. ~job'.cut => known
    BY <1>6, <1>8
  <2>5. Listed(job.sigs)' = Listed(sigs) /\ Last(job.sigs)' = Last(sigs)
    BY <1>8 DEF Listed
  <2> QED
    BY <1>2, <1>8, <1>11, <2>1, <2>2, <2>3, <2>4, <2>5 DEF Paged
<1> QED
  BY <1>1, <1>8, <1>9, <1>10, <1>12, JobStep DEF TypeOK

LEMMA ReadStep == ASSUME IInv, NEW failing, ReadTransactions(failing) PROVE IInv'
<1> USE DEF IInv
<1> DEFINE found  == {e \in Listed(job.sigs) : e \in OnChain(job.from, job.to)}
           unread == IF job.cut THEN {e.id : e \in OnChain(job.from, job.to) \ found} ELSE {}
           evs    == {e \in found : e.id \notin failing}
<1>1. /\ job.pc = "paging" /\ ~job.more
      /\ job' = [job EXCEPT !.pc = "process", !.evs = evs]
      /\ skipped' = skipped \union failing \union unread
      /\ UNCHANGED <<txs, head, born, forks, late, srv, phase, latest, tree, outs, nulls,
                     listenFrom, fetchFrom, poll>>
  BY DEF ReadTransactions, Listed, chainVars, storeVars, listenVars
<1>2. \A i \in DOMAIN txs : i \in Nat /\ txs[i].slot \in Nat /\ txs[i].id \in Nat
  BY TxTypes
<1>3. job \in Jobs /\ job.from \in Nat /\ job.to \in Nat /\ job.cut \in BOOLEAN
  BY JobTypes
<1>4. \A e \in found : /\ e.idx \in DOMAIN txs /\ e = Event(e.idx) /\ e.id = txs[e.idx].id
                       /\ txs[e.idx].slot \in job.from .. job.to
  BY DEF OnChain, Event
<1>5. evs \in SUBSET Events
  BY <1>2, <1>4 DEF Event, Events
<1>6. ASSUME NEW i \in DOMAIN txs, txs[i].slot \in job.from .. job.to,
             txs[i].id \notin skipped' \union late
      PROVE  Event(i) \in evs
  <2>1. Event(i) \in OnChain(job.from, job.to) /\ Event(i).id = txs[i].id
    BY <1>6 DEF OnChain, Event
  <2>2. CASE job.cut
    BY <1>1, <1>6, <2>1, <2>2
  <2>3. CASE ~job.cut
    <3>1. Event(i) \in Listed(job.sigs)
      BY <1>1, <1>6, <2>3 DEF Paged
    <3> QED
      BY <1>1, <1>6, <2>1, <3>1
  <2> QED
    BY <2>2, <2>3
<1>7. \A e \in evs : /\ e.idx \in DOMAIN txs /\ e = Event(e.idx) /\ e.id = txs[e.idx].id
                     /\ e \in {Event(i) : i \in DOMAIN txs}
  BY <1>4
<1> HIDE DEF found, unread, evs
<1>8. /\ job' \in Jobs /\ job'.pc = "process" /\ job'.evs = evs /\ job'.from = job.from
      /\ job'.to = job.to /\ job'.start = job.start
  BY <1>1, <1>3, <1>5 DEF Jobs
<1>9. TypeOK'
  BY <1>1, <1>8 DEF TypeOK
<1>10. Chained'
  BY <1>1 DEF Chained, SafeSlot
<1>11. Phases' /\ Positions' /\ Paged'
  BY <1>1, <1>8 DEF Phases, Positions, Paged
<1>12. Polled' /\ OutputsOfLeaves' /\ Listened'
  BY <1>1 DEF Polled, OutputsOfLeaves, Listened, Event, Holds
<1>13. Scanned'
  BY <1>1 DEF Scanned, Holds
<1>14. OnePlace'
  <2>1. Seen' \subseteq Seen
    BY <1>1, <1>7, <1>8 DEF Seen, Event
  <2> QED
    BY <1>1, <2>1, SeenKept
<1>15. ReadAll'
  <2>1. \A e, f \in evs : e.idx = f.idx => e = f
    BY <1>7
  <2>2. \A i \in DOMAIN txs : Event(i)' = Event(i)
    BY <1>1 DEF Event
  <2>3. \A i \in DOMAIN txs : txs[i].slot <= job.to /\ txs[i].id \notin skipped' \union late
          /\ txs[i].slot >= job.from => Event(i) \in evs
    BY <1>2, <1>3, <1>6
  <2> QED
    BY <1>1, <1>7, <1>8, <2>1, <2>2, <2>3 DEF ReadAll
<1> QED
  BY <1>9, <1>10, <1>11, <1>12, <1>13, <1>14, <1>15

\* Leaves have different ids.
LEMMA LeavesApart ==
  ASSUME OnePlace PROVE \A i, j \in DOMAIN tree : tree[i] = tree[j] => i = j
<1> SUFFICES ASSUME NEW i \in DOMAIN tree, NEW j \in DOMAIN tree, tree[i] = tree[j] PROVE i = j
  OBVIOUS
<1> DEFINE e == [idx |-> i, id |-> tree[i]]
           f == [idx |-> j, id |-> tree[j]]
<1>1. e \in Seen /\ f \in Seen
  BY DEF Seen
<1>2. e.id = f.id
  OBVIOUS
<1>3. e.idx = f.idx
  <2> HIDE DEF e, f
  <2> QED BY <1>1, <1>2 DEF OnePlace
<1> QED
  BY <1>3

\* Accepting events that agree with the chain at place i leaves it held.
LEMMA HoldsKept ==
  ASSUME NEW evs, AcceptEvents(evs), \A e, f \in evs : e.idx = f.idx => e = f,
         txs' = txs, NEW i, Holds(i), \A x \in evs : x.idx = i => x.id = txs[i].id
  PROVE  Holds(i)'
<1>1. /\ i \in DOMAIN tree'
      /\ \/ \E e \in evs : e.idx = i /\ tree'[i] = e.id
         \/ tree'[i] = tree[i]
      /\ nulls \subseteq nulls'
  BY Accepted DEF Holds
<1> QED
  BY <1>1 DEF Holds

LEMMA HoldsNew ==
  ASSUME NEW evs, AcceptEvents(evs), \A e, f \in evs : e.idx = f.idx => e = f,
         txs' = txs, NEW i, Event(i) \in evs
  PROVE  Holds(i)'
<1>1. Event(i).idx = i /\ Event(i).id = txs[i].id
  BY DEF Event
<1>2. Event(i).idx \in DOMAIN tree' /\ tree'[Event(i).idx] = Event(i).id /\ Event(i).id \in nulls'
  BY Accepted
<1> QED
  BY <1>1, <1>2 DEF Holds

LEMMA SeenAccepted ==
  ASSUME NEW evs, AcceptEvents(evs), \A e, f \in evs : e.idx = f.idx => e = f,
         evs \subseteq Seen, \A e \in evs : e \in Events,
         txs' = txs, job'.evs \subseteq Seen
  PROVE  Seen' \subseteq Seen
<1>1. ASSUME NEW i \in DOMAIN tree' PROVE [idx |-> i, id |-> tree'[i]] \in Seen
  <2>1. CASE \E e \in evs : e.idx = i /\ tree'[i] = e.id
    <3>1. PICK e \in evs : e.idx = i /\ tree'[i] = e.id
      BY <2>1
    <3>2. e = [idx |-> i, id |-> tree'[i]]
      BY <3>1 DEF Events
    <3> QED
      BY <3>1, <3>2
  <2>2. CASE i \in DOMAIN tree /\ tree'[i] = tree[i]
    BY <2>2 DEF Seen
  <2> QED
    BY <1>1, <2>1, <2>2, Accepted
<1>2. {Event(i) : i \in DOMAIN txs}' = {Event(i) : i \in DOMAIN txs}
  BY DEF Event
<1> QED
  BY <1>1, <1>2 DEF Seen

\* The parts of the invariant that do not depend on whether the listener
\* starts.
LEMMA ProcessScanRest ==
  ASSUME IInv, ProcessScan, listenFrom' \in Nat, fetchFrom' \in Nat,
         Phases', Positions', Polled', Listened'
  PROVE  IInv'
<1> USE DEF IInv
<1>1. /\ job.pc = "process" /\ AcceptEvents(job.evs) /\ latest' = job.to /\ job' = NoJob
      /\ UNCHANGED <<txs, head, born, forks, late, srv, phase, poll, skipped>>
  BY DEF ProcessScan, chainVars
<1>2. /\ job.from \in Nat /\ job.to \in Nat /\ latest \in Nat /\ job.evs \subseteq Events
  BY JobTypes DEF TypeOK
<1>3. \A i \in DOMAIN txs : txs[i].slot \in Nat
  BY TxTypes
<1>4. \A e, f \in job.evs : e.idx = f.idx => e = f
  BY <1>1 DEF ReadAll
<1>5. job.from <= latest + 1
  BY <1>1 DEF Positions
<1>6. job'.pc = "idle" /\ job' \in Jobs /\ job'.evs = {}
  BY <1>1, NoJobType
<1>7. TypeOK'
  BY <1>1, <1>2, <1>6 DEF TypeOK
<1>8. Chained'
  BY <1>1 DEF Chained, SafeSlot
<1>9. Paged' /\ ReadAll'
  BY <1>6 DEF Paged, ReadAll
<1>10. OnePlace'
  <2>1. job.evs \subseteq Seen
    BY DEF Seen
  <2>2. Seen' \subseteq Seen
    BY <1>1, <1>2, <1>4, <1>6, <2>1, SeenAccepted
  <2> QED
    BY <1>1, <2>2, SeenKept
<1>11. OutputsOfLeaves'
  BY <1>1, <1>4, LeavesApart, OutputsAccepted
<1>12. Scanned'
  <2> SUFFICES ASSUME NEW i \in DOMAIN txs, txs[i].slot <= job.to,
                      txs[i].id \notin skipped \union late
               PROVE  Holds(i)'
    BY <1>1 DEF Scanned
  <2>1. /\ txs[i].slot >= job.from => Event(i) \in job.evs
        /\ \A x \in job.evs : x.idx = i => x.id = txs[i].id
    BY <1>1 DEF ReadAll
  <2>2. CASE txs[i].slot >= job.from
    BY <1>1, <1>4, <2>1, <2>2, HoldsNew
  <2>3. CASE txs[i].slot < job.from
    <3>1. txs[i].slot <= latest
      BY <1>2, <1>3, <1>5, <2>3
    <3>2. Holds(i)
      BY <3>1 DEF Scanned
    <3> QED
      BY <1>1, <1>4, <2>1, <3>2, HoldsKept
  <2> QED
    BY <1>2, <1>3, <2>2, <2>3
<1> QED
  BY <1>7, <1>8, <1>9, <1>10, <1>11, <1>12

LEMMA ProcessScanStep == ASSUME IInv, ProcessScan PROVE IInv'
<1> USE DEF IInv
<1>1. /\ job.pc = "process" /\ AcceptEvents(job.evs) /\ latest' = job.to /\ job' = NoJob
      /\ listenFrom' = IF job.start THEN job.to + 1 ELSE listenFrom
      /\ fetchFrom' = IF job.start THEN job.to + 1 ELSE fetchFrom
      /\ UNCHANGED <<txs, head, born, forks, late, srv, phase, poll, skipped>>
  BY DEF ProcessScan, chainVars
<1>2. /\ job.from \in Nat /\ job.to \in Nat /\ head \in Nat /\ latest \in Nat /\ srv \in Nat
      /\ listenFrom \in Nat /\ fetchFrom \in Nat /\ job.evs \subseteq Events
  BY JobTypes DEF TypeOK
<1>3. \A i \in DOMAIN txs : txs[i].slot \in Nat
  BY TxTypes
<1>4. \A e, f \in job.evs : e.idx = f.idx => e = f
  BY <1>1 DEF ReadAll
<1>5. /\ job.from <= job.to /\ job.to <= head /\ job.from <= latest + 1
      /\ listenFrom > 0 => listenFrom <= job.from + 1
  BY <1>1 DEF Positions
<1>6. job'.pc = "idle" /\ job' \in Jobs /\ job'.evs = {}
  BY <1>1, NoJobType
<1>7. CASE job.start
  <2>1. listenFrom' = job.to + 1 /\ fetchFrom' = job.to + 1
    BY <1>1, <1>7
  <2>2. listenFrom = 0 /\ poll.pc = "idle" /\ phase = "ready"
    BY <1>1, <1>7 DEF Phases
  <2>3. Phases' /\ Positions' /\ Polled'
    BY <1>1, <1>2, <1>5, <1>6, <2>1, <2>2 DEF Phases, Positions, Polled
  <2>4. Listened'
    BY <1>2, <2>1 DEF Listened
  <2>5. listenFrom' \in Nat /\ fetchFrom' \in Nat
    BY <1>2, <2>1
  <2> QED
    BY <1>1, <1>2, <1>6, <2>3, <2>4, <2>5, ProcessScanRest
<1>8. CASE ~job.start
  <2>1. listenFrom' = listenFrom /\ fetchFrom' = fetchFrom
    BY <1>1, <1>8
  <2>2. Phases'
    BY <1>1, <1>6, <2>1 DEF Phases
  <2>3. Positions'
    BY <1>1, <1>2, <1>5, <1>6, <2>1 DEF Positions
  <2>4. Polled'
    BY <1>1, <2>1 DEF Polled, Event
  <2>5. Listened'
    <3> SUFFICES ASSUME listenFrom > 0, NEW i \in DOMAIN txs,
                        txs[i].slot \in listenFrom .. fetchFrom - 1
                 PROVE  Holds(i)'
      BY <1>1, <2>1 DEF Listened
    <3>1. Holds(i)
      BY DEF Listened
    <3>2. \A x \in job.evs : x.idx = i => x.id = txs[i].id
      BY <1>1 DEF ReadAll
    <3> QED
      BY <1>1, <1>4, <3>1, <3>2, HoldsKept
  <2> QED
    BY <1>1, <1>2, <1>6, <2>1, <2>2, <2>3, <2>4, <2>5, ProcessScanRest
<1> QED
  BY <1>7, <1>8

LEMMA PollServerStep == ASSUME IInv, PollServer PROVE IInv'
<1> USE DEF IInv
<1>1. /\ listenFrom > 0 /\ srv >= fetchFrom
      /\ poll' = [pc |-> "got", evs |-> OnChain(fetchFrom, srv), to |-> srv]
      /\ UNCHANGED <<txs, head, born, forks, late, srv, phase, latest, tree, outs, nulls, job,
                     listenFrom, fetchFrom, skipped>>
  BY DEF PollServer, PollFrom, chainVars, storeVars
<1>2. srv \in Nat /\ fetchFrom \in Nat /\ listenFrom \in Nat
  BY DEF TypeOK
<1>3. \A i \in DOMAIN txs : i \in Nat /\ txs[i].slot \in Nat /\ txs[i].id \in Nat
  BY TxTypes
<1>4. OnChain(fetchFrom, srv) \subseteq Events
  BY <1>3 DEF OnChain, Event, Events
<1>5. poll' \in Polls /\ poll'.pc = "got" /\ poll'.evs = OnChain(fetchFrom, srv) /\ poll'.to = srv
  BY <1>1, <1>2, <1>4 DEF Polls
<1>6. TypeOK'
  BY <1>1, <1>5 DEF TypeOK
<1>7. Chained'
  BY <1>1 DEF Chained, SafeSlot
<1>8. Phases' /\ Positions' /\ Paged' /\ ReadAll' /\ OutputsOfLeaves'
  BY <1>1, <1>2 DEF Phases, Positions, Paged, ReadAll, OutputsOfLeaves, Event, Listed
<1>9. Polled'
  <2>1. \A x \in OnChain(fetchFrom, srv) :
          x.idx \in DOMAIN txs /\ txs[x.idx].slot <= srv /\ txs[x.idx].id = x.id
    BY <1>2, <1>3 DEF OnChain, Event
  <2>2. \A i \in DOMAIN txs : txs[i].slot \in fetchFrom .. srv => Event(i) \in OnChain(fetchFrom, srv)
    BY DEF OnChain
  <2>3. \A i \in DOMAIN txs : Event(i)' = Event(i)
    BY <1>1 DEF Event
  <2>4. fetchFrom <= srv /\ srv <= srv
    BY <1>1, <1>2
  <2> QED
    BY <1>1, <1>5, <2>1, <2>2, <2>3, <2>4 DEF Polled
<1>10. OnePlace'
  <2>1. Seen' = Seen
    BY <1>1 DEF Seen, Event
  <2> QED
    BY <1>1, <2>1, SeenKept
<1>11. Scanned' /\ Listened'
  BY <1>1 DEF Scanned, Listened, Holds
<1> QED
  BY <1>6, <1>7, <1>8, <1>9, <1>10, <1>11

LEMMA ProcessExternalStep == ASSUME IInv, ProcessExternalEvents PROVE IInv'
<1> USE DEF IInv
<1>1. /\ poll.pc = "got" /\ (poll.evs # {} => Unlocked) /\ AcceptEvents(poll.evs)
      /\ latest' = IF poll.to > latest THEN poll.to ELSE latest
      /\ fetchFrom' = AdvanceFetchFrom(poll)
      /\ poll' = NoPoll
      /\ UNCHANGED <<txs, head, born, forks, late, srv, phase, job, listenFrom, skipped>>
  BY DEF ProcessExternalEvents, chainVars
<1>2. /\ poll.to \in Nat /\ poll.evs \subseteq Events /\ latest \in Nat /\ head \in Nat
      /\ fetchFrom \in Nat /\ listenFrom \in Nat /\ srv \in Nat
      /\ job.from \in Nat /\ job.to \in Nat
  BY JobTypes DEF TypeOK, Polls
<1>3. \A i \in DOMAIN txs : txs[i].slot \in Nat
  BY TxTypes
<1>4. /\ fetchFrom <= poll.to /\ poll.to <= srv
      /\ \A x \in poll.evs : x.idx \in DOMAIN txs /\ txs[x.idx].id = x.id
      /\ \A i \in DOMAIN txs : txs[i].slot \in fetchFrom .. poll.to => Event(i) \in poll.evs
  BY <1>1 DEF Polled
<1>5. fetchFrom' = poll.to + 1
  BY <1>1, <1>2, <1>4 DEF AdvanceFetchFrom
<1>6. /\ listenFrom > 0 /\ listenFrom <= latest + 1 /\ listenFrom <= fetchFrom
      /\ phase = "ready"
  BY <1>1, <1>2 DEF Phases, Positions
<1>7. \A e, f \in poll.evs : e.idx = f.idx => e = f
  BY <1>2, <1>4 DEF Events
<1>8. poll' \in Polls /\ poll'.pc = "idle" /\ poll'.evs = {}
  BY <1>1 DEF NoPoll, Polls
<1>9. latest' \in Nat /\ latest' >= latest /\ latest' <= head
  <2>1. poll.to <= head
    BY <1>2, <1>4, SafeSlotNumber DEF Chained
  <2> QED
    BY <1>1, <1>2, <2>1 DEF Positions
<1>10. TypeOK'
  BY <1>1, <1>2, <1>5, <1>8, <1>9 DEF TypeOK
<1>11. Chained'
  BY <1>1 DEF Chained, SafeSlot
<1>12. Phases'
  BY <1>1, <1>6, <1>8 DEF Phases
<1>13. Positions'
  BY <1>1, <1>2, <1>4, <1>5, <1>6, <1>9 DEF Positions
<1>14. Polled'
  BY <1>8 DEF Polled
<1>15. Paged'
  BY <1>1 DEF Paged, Event, Listed
<1>16. ReadAll'
  <2> SUFFICES ASSUME job.pc = "process" PROVE ReadAll'
    BY <1>1 DEF ReadAll
  \* The lock is taken: the answer is empty.
  <2>1. poll.evs = {}
    BY <1>1 DEF Unlocked
  <2>2. \A i \in DOMAIN txs : txs[i].slot \in listenFrom .. poll.to =>
                                txs[i].slot \in listenFrom .. fetchFrom - 1
    BY <1>2, <1>3, <1>4, <2>1
  <2>3. \A i \in DOMAIN txs : Event(i)' = Event(i)
    BY <1>1 DEF Event
  <2>4. fetchFrom' - 1 = poll.to
    BY <1>2, <1>5
  <2> QED
    BY <1>1, <2>2, <2>3, <2>4 DEF ReadAll
<1>17. OnePlace'
  <2>1. ASSUME NEW x \in poll.evs PROVE x \in {Event(i) : i \in DOMAIN txs}
    <3>1. x = Event(x.idx) /\ x.idx \in DOMAIN txs
      BY <1>2, <1>4, <2>1 DEF Event, Events
    <3> QED
      BY <3>1
  <2>2. poll.evs \subseteq Seen
    BY <2>1 DEF Seen
  <2>3. job'.evs \subseteq Seen
    BY <1>1 DEF Seen
  <2>4. \A x \in poll.evs : x \in Events
    BY <1>2
  <2>5. Seen' \subseteq Seen
    BY <1>1, <1>7, <2>2, <2>3, <2>4, SeenAccepted
  <2> QED
    BY <1>1, <2>5, SeenKept
<1>18. OutputsOfLeaves'
  BY <1>1, <1>7, LeavesApart, OutputsAccepted
\* What was in the snapshots stays there.
<1>19. ASSUME NEW i \in DOMAIN txs, Holds(i) PROVE Holds(i)'
  <2>1. \A x \in poll.evs : x.idx = i => x.id = txs[i].id
    BY <1>4
  <2> QED
    BY <1>1, <1>7, <1>19, <2>1, HoldsKept
<1>20. ASSUME NEW i \in DOMAIN txs, txs[i].slot \in listenFrom .. poll.to PROVE Holds(i)'
  <2>1. CASE txs[i].slot \in fetchFrom .. poll.to
    <3>1. Event(i) \in poll.evs
      BY <1>4, <2>1
    <3> QED
      BY <1>1, <1>7, <3>1, HoldsNew
  <2>2. CASE txs[i].slot \in listenFrom .. fetchFrom - 1
    <3>1. Holds(i)
      BY <1>6, <2>2 DEF Listened
    <3> QED
      BY <1>19, <3>1
  <2> QED
    BY <1>2, <1>3, <1>20, <2>1, <2>2
<1>21. Listened'
  <2>1. listenFrom' .. fetchFrom' - 1 = listenFrom .. poll.to
    BY <1>1, <1>2, <1>5
  <2> QED
    BY <1>1, <1>20, <2>1 DEF Listened
<1>22. Scanned'
  <2> SUFFICES ASSUME NEW i \in DOMAIN txs, txs[i].slot <= latest',
                      txs[i].id \notin skipped \union late
               PROVE  Holds(i)'
    BY <1>1 DEF Scanned
  <2>1. CASE txs[i].slot <= latest
    BY <1>19, <2>1 DEF Scanned
  <2>2. CASE ~(txs[i].slot <= latest)
    <3>1. txs[i].slot \in listenFrom .. poll.to
      BY <1>1, <1>2, <1>3, <1>6, <2>2
    <3> QED
      BY <1>20, <3>1
  <2> QED
    BY <2>1, <2>2
<1> QED
  BY <1>10, <1>11, <1>12, <1>13, <1>14, <1>15, <1>16, <1>17, <1>18, <1>21, <1>22

-----------------------------------------------------------------------------
(***************************************************************************)
(* The theorems.                                                           *)
(***************************************************************************)
LEMMA InitIInv == Init => IInv
<1> SUFFICES ASSUME Init PROVE IInv
  OBVIOUS
<1> USE DEF Init
<1>1. NoPoll \in Polls /\ NoPoll.pc = "idle"
  BY DEF NoPoll, Polls
<1>2. txs = <<>> /\ DOMAIN txs = {} /\ DOMAIN tree = {} /\ job.evs = {}
  BY NoJobType
<1>3. ~NoJob.cut
  BY DEF NoJob
<1>4. TypeOK
  BY <1>1, NoJobType, SolanaAssumption DEF TypeOK
<1>5. Chained
  BY <1>2, SolanaAssumption DEF Chained, SafeSlot
<1>6. Phases /\ Positions /\ Polled /\ Paged /\ ReadAll
  BY <1>1, <1>3, NoJobType, SolanaAssumption DEF Phases, Positions, Polled, Paged, ReadAll
<1>7. OnePlace
  BY <1>2 DEF OnePlace, Seen
<1>8. Scanned /\ Listened
  BY <1>2 DEF Scanned, Listened
<1>9. OutputsOfLeaves
  BY <1>2 DEF OutputsOfLeaves
<1> QED
  BY <1>4, <1>5, <1>6, <1>7, <1>8, <1>9 DEF IInv

LEMMA StutterStep == ASSUME IInv, UNCHANGED vars PROVE IInv'
<1> USE DEF IInv
<1>1. UNCHANGED <<txs, head, born, forks, late, srv, phase, latest, tree, outs, nulls, job,
                  listenFrom, fetchFrom, poll, skipped>>
  BY DEF vars, chainVars, storeVars, listenVars
<1>2. TypeOK' /\ Chained' /\ Phases' /\ Positions'
  BY <1>1 DEF TypeOK, Chained, SafeSlot, Phases, Positions
<1>3. Polled' /\ Paged' /\ ReadAll'
  BY <1>1 DEF Polled, Paged, ReadAll, Event, Listed
<1>4. OnePlace'
  <2>1. Seen' = Seen
    BY <1>1 DEF Seen, Event
  <2> QED
    BY <1>1, <2>1, SeenKept
<1>5. Scanned' /\ Listened' /\ OutputsOfLeaves'
  BY <1>1 DEF Scanned, Listened, Holds, OutputsOfLeaves
<1> QED
  BY <1>2, <1>3, <1>4, <1>5

LEMMA NextIInv == IInv /\ [Next]_vars => IInv'
<1> SUFFICES ASSUME IInv, [Next]_vars PROVE IInv'
  OBVIOUS
<1>1. CASE \E n \in 0 .. 2 : NewSlot(n)
  <2>1. PICK n \in 0 .. 2 : NewSlot(n)
    BY <1>1
  <2>2. MovesOn /\ Chained'
    BY <2>1, NewSlotMoves DEF IInv
  <2> QED
    BY <2>1, <2>2, ChainStep DEF NewSlot
<1>2. CASE \E k \in DOMAIN txs, again \in BOOLEAN : Fork(k, again)
  <2>1. PICK k \in DOMAIN txs, again \in BOOLEAN : Fork(k, again)
    BY <1>2
  <2>2. MovesOn /\ Chained'
    BY <2>1, ForkMoves DEF IInv
  <2>3. UNCHANGED <<srv, phase, latest, storeVars, job, listenVars, skipped>>
    BY <2>1 DEF Fork
  <2> QED
    BY <2>2, <2>3, ChainStep
<1>3. CASE ServerScans
  BY <1>3, ServerScansStep
<1>4. CASE \E a, b \in 0 .. srv : LoadSnapshots(a, b)
  BY <1>4, LoadStep
<1>5. CASE \E start \in BOOLEAN : FirstRetrieve(start)
  BY <1>5, FirstRetrieveStep
<1>6. CASE RetrieveEventsFromLatestBlock
  BY <1>6, RetrieveStep
<1>7. CASE StartScan
  BY <1>7, StartScanStep
<1>8. CASE NextPage
  BY <1>8, NextPageStep
<1>9. CASE \E failing \in SUBSET {job.sigs[k].id : k \in DOMAIN job.sigs} : ReadTransactions(failing)
  BY <1>9, ReadStep
<1>10. CASE ScanFails
  BY <1>10, ScanFailsStep
<1>11. CASE ProcessScan
  BY <1>11, ProcessScanStep
<1>12. CASE PollServer
  BY <1>12, PollServerStep
<1>13. CASE ProcessExternalEvents
  BY <1>13, ProcessExternalStep
<1>14. CASE UNCHANGED vars
  BY <1>14, StutterStep
<1> QED
  BY <1>1, <1>2, <1>3, <1>4, <1>5, <1>6, <1>7, <1>8, <1>9, <1>10, <1>11, <1>12, <1>13, <1>14
  DEF Next

LEMMA InvariantHolds == Spec => []IInv
BY InitIInv, NextIInv, PTL DEF Spec

\* A client that has scanned up to its latest slot has in both snapshots all
\* that the chain has up to there, whatever the page sizes of
\* getAllSignatures, wherever rollbacks and polls fall between the pages, and
\* whichever slots its two snapshots were of: only what getProgramEvents could
\* not read and what a rollback brought late are missing.
THEOREM ScannedCompleteAlways == Spec => []ScannedComplete
<1>1. IInv => ScannedComplete
  <2> SUFFICES ASSUME IInv, NEW e \in OnChain(0, latest), e.id \notin skipped \union late
               PROVE  e.idx \in DOMAIN tree /\ tree[e.idx] = e.id /\ e.id \in nulls
    BY DEF ScannedComplete
  <2>1. PICK i \in DOMAIN txs : txs[i].slot \in 0 .. latest /\ e = Event(i)
    BY DEF OnChain
  <2>2. e.idx = i /\ e.id = txs[i].id
    BY <2>1 DEF Event
  <2>3. Holds(i)
    BY <2>1, <2>2 DEF IInv, Scanned, TypeOK
  <2> QED
    BY <2>2, <2>3 DEF Holds
<1> QED
  BY <1>1, InvariantHolds, PTL

\* What the listener went through is in the snapshots exactly as it is on the
\* chain, and the outputs are always those of the leaves: no scan that read
\* the chain before a rollback overwrites what ProcessExternalEvents stored.
THEOREM ListenedExactAlways == Spec => []ListenedExact
<1>1. IInv => ListenedExact
  <2> SUFFICES ASSUME IInv PROVE ListenedExact
    OBVIOUS
  <2>1. ASSUME listenFrom > 0, NEW e \in OnChain(listenFrom, fetchFrom - 1)
        PROVE  e.idx \in DOMAIN tree /\ tree[e.idx] = e.id /\ e.id \in nulls
    <3>1. PICK i \in DOMAIN txs : txs[i].slot \in listenFrom .. fetchFrom - 1 /\ e = Event(i)
      BY <2>1 DEF OnChain
    <3>2. e.idx = i /\ e.id = txs[i].id
      BY <3>1 DEF Event
    <3>3. Holds(i)
      BY <2>1, <3>1 DEF IInv, Listened
    <3> QED
      BY <3>2, <3>3 DEF Holds
  <2> QED
    BY <2>1 DEF ListenedExact, IInv
<1> QED
  BY <1>1, InvariantHolds, PTL
=============================================================================
