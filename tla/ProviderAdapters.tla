-------------------------- MODULE ProviderAdapters --------------------------
(***************************************************************************)
(* The wallet adapters of the Hinkal object (hinkal_providers.go) and how  *)
(* the EVM adapter sends a transaction (EthersProviderAdapter.go).         *)
(*                                                                         *)
(* An adapter is on one chain, which the user switches, and it sends to    *)
(* that chain whatever chain the caller means; it reads its chain twice    *)
(* and its signer four times without a lock, asks for the next nonce of    *)
(* the account, and signs and sends later.  Another adapter may be         *)
(* installed meanwhile, which releases this one.  The slots for Solana and *)
(* Tron adapters are handled like the one modelled here.                   *)
(***************************************************************************)
EXTENDS FiniteSets, Integers

CONSTANTS
  Networks, Adapters,
  Users,        \* goroutines that install, reset or switch, each once
  Sends,        \* SendTransaction calls, each made once
  Null,
  MaxOthers     \* bound on the transactions another wallet program sends

ASSUME AdapterAssumption ==
  /\ Null \notin Adapters \union Networks \union Sends
  /\ IsFiniteSet(Sends) /\ MaxOthers \in Nat

VARIABLES
  slot,      \* ethereumProviderAdapter
  chainOf,   \* chainOf[a]: chainID of adapter a
  signer,    \* adapters whose signer is not nil
  user,      \* user[u]: what goroutine u does
  sent,      \* transactions of the account that the nodes have taken (external)
  send,      \* send[c]: the SendTransaction call c
  installs   \* installs[a]: goroutines that have installed adapter a

adapterVars == <<slot, chainOf, signer, user, sent, send, installs>>
adapters == <<slot, chainOf, signer, installs>>

NoUser == [pc |-> "idle", a |-> Null, chain |-> Null]
NoSend == [pc |-> "idle", want |-> Null, a |-> Null, chain |-> Null, nonce |-> 0,
           tx |-> Null, err |-> "none", selected |-> {}, raced |-> FALSE]

\* InitSigner and Init(chainID) come before an adapter is handed over.
AdapterInit ==
  /\ slot = Null
  /\ chainOf \in [Adapters -> Networks]
  /\ signer = Adapters
  /\ user = [u \in Users |-> NoUser]
  /\ sent = {}
  /\ send = [c \in Sends |-> NoSend]
  /\ installs = [a \in Adapters |-> {}]

-----------------------------------------------------------------------------
(* The nodes (external): one account, its nonces per chain.                *)

MaxNonce == MaxOthers + Cardinality(Sends)
Nonces(k) == {s.nonce : s \in {t \in sent : t.chain = k}}
NextNonce(k) == CHOOSE n \in 0..MaxNonce : n \notin Nonces(k) /\ \A m \in 0..(n - 1) : m \in Nonces(k)

\* The calls that hold a nonce of chain k while one is used by another.
Overtaken(c, k) ==
  [d \in Sends |-> [send[d] EXCEPT !.raced = @ \/ /\ d # c /\ send[d].pc \in {"gas", "sign", "broadcast"}
                                                  /\ send[d].chain = k]]

\* Another program with the same account sends a transaction.
OtherProgramSends(k) ==
  /\ Cardinality({s \in sent : s.send = Null}) < MaxOthers
  /\ sent' = sent \union {[send |-> Null, chain |-> k, nonce |-> NextNonce(k)]}
  /\ send' = Overtaken(Null, k)
  /\ UNCHANGED <<adapters, user>>

-----------------------------------------------------------------------------
(* The slot.                                                               *)

\* What the calls under way get to know of: adapter a is on chain k.
Selected(a, k) ==
  [c \in Sends |-> IF send[c].a = a THEN [send[c] EXCEPT !.selected = @ \union {k}] ELSE send[c]]

\* Goroutine u is through.
Ends(u) == user' = [user EXCEPT ![u] = [NoUser EXCEPT !.pc = "done"]]

\* Release, under h.mu, of the adapter that is replaced - also when it is the
\* one that is being installed.
ReleaseReplaced == signer \ {slot}

UpdateProviderAdapter(u, a) ==
  /\ user[u].pc = "idle"
  /\ signer' = ReleaseReplaced
  /\ slot' = a
  /\ installs' = [installs EXCEPT ![a] = @ \union {u}]
  /\ user' = [user EXCEPT ![u] = [pc |-> "connect", a |-> a, chain |-> Null]]
  /\ UNCHANGED <<chainOf, sent, send>>

\* InitProviderAdapter goes on after h.mu is free: the node of the adapter's
\* chain tells its network; without an answer the configured chain stays.
ConnectAndPatchProvider(u) ==
  /\ user[u].pc = "connect"
  /\ \/ /\ user[u].a \in signer
        /\ user' = [user EXCEPT ![u].pc = "init", ![u].chain = chainOf[user[u].a]]
     \/ user[u].a \notin signer /\ Ends(u)
  /\ UNCHANGED <<adapters, sent, send>>

\* Init(&chainID) puts the adapter on the chain that was asked for before.
InitAdapter(u) ==
  /\ user[u].pc = "init"
  /\ chainOf' = [chainOf EXCEPT ![user[u].a] = user[u].chain]
  /\ send' = Selected(user[u].a, user[u].chain)
  /\ Ends(u)
  /\ UNCHANGED <<slot, signer, sent, installs>>

\* A plausible slip: the slot keeps the adapter that is about to be released.
ResetKeepsSlot(u) ==
  /\ user[u].pc = "idle"
  /\ user' = [user EXCEPT ![u] = [pc |-> "release", a |-> slot, chain |-> Null]]
  /\ UNCHANGED <<adapters, sent, send>>

\* ResetProviderAdapters clears the slot under h.mu and releases afterwards.
ResetProviderAdapters(u) ==
  /\ user[u].pc = "idle"
  /\ user' = [user EXCEPT ![u] = [pc |-> "release", a |-> slot, chain |-> Null]]
  /\ slot' = Null
  /\ UNCHANGED <<chainOf, signer, sent, send, installs>>

ReleaseAdapters(u) ==
  /\ user[u].pc = "release"
  /\ signer' = signer \ {user[u].a}
  /\ Ends(u)
  /\ UNCHANGED <<slot, chainOf, sent, send, installs>>

\* GetProviderAdapter, or an error.
HasAdapter == slot # Null

\* SwitchNetwork of whichever adapter is installed.
SwitchNetwork(u, k) ==
  /\ user[u].pc = "idle" /\ HasAdapter
  /\ chainOf[slot] # k
  /\ chainOf' = [chainOf EXCEPT ![slot] = k]
  /\ send' = Selected(slot, k)
  /\ Ends(u)
  /\ UNCHANGED <<slot, signer, sent, installs>>

-----------------------------------------------------------------------------
(* SendTransaction(ctx, chainID, req).                                     *)

Step(c, p) ==
  /\ send' = [send EXCEPT ![c] = p]
  /\ UNCHANGED <<adapters, user, sent>>

Fails(c, err) == Step(c, [send[c] EXCEPT !.pc = "failed", !.err = err])

\* GetProviderAdapter(&chainID), then the adapter's signer, chain and client.
SendTransaction(c, k) ==
  LET p == [NoSend EXCEPT !.pc = "nonce", !.want = k, !.a = slot, !.chain = chainOf[slot],
                          !.selected = {chainOf[slot]}]
  IN  /\ send[c].pc = "idle" /\ HasAdapter
      /\ Step(c, IF slot \in signer THEN p ELSE [p EXCEPT !.pc = "failed", !.err = "signer"])

\* A method of a signer that is nil by now.
Panics(c) ==
  /\ send[c].pc \in {"nonce", "sign", "broadcast"} /\ send[c].a \notin signer
  /\ Fails(c, "panic")

\* A plausible slip: the nonce is read on the chain that the caller means.
WantedNonce(c) == NextNonce(send[c].want)

Nonce(c) == NextNonce(send[c].chain)

\* GetAddress, PendingNonceAt.
PendingNonceAt(c) ==
  /\ send[c].pc = "nonce" /\ send[c].a \in signer
  /\ Step(c, [send[c] EXCEPT !.pc = "gas", !.nonce = Nonce(c)])

\* The transaction names the chain that the adapter is on by now.
TxChain(c) == chainOf[send[c].a]

\* Tip, header and gas come from the client of the chain read before.
EstimateGas(c) ==
  /\ send[c].pc = "gas"
  /\ Step(c, [send[c] EXCEPT !.pc = "sign", !.tx = TxChain(c)])

SignTransaction(c) ==
  /\ send[c].pc = "sign" /\ send[c].a \in signer
  /\ Step(c, [send[c] EXCEPT !.pc = "broadcast"])

\* An unanswered request, or one on a client that has been closed.
RequestFails(c) ==
  /\ send[c].pc \in {"nonce", "gas", "broadcast"}
  /\ Fails(c, "request")

\* A new client for the chain of the transaction; the node turns a nonce down
\* that is used and keeps one that is too high; its answer may get lost.
BroadcastTransaction(c) ==
  LET p == send[c]
      done(pc, err) == [Overtaken(c, p.tx) EXCEPT ![c].pc = pc, ![c].err = err]
  IN  /\ p.pc = "broadcast"
      /\ \/ p.nonce \in Nonces(p.tx) /\ Fails(c, "nonce")
         \/ /\ p.nonce \notin Nonces(p.tx)
            /\ sent' = sent \union {[send |-> c, chain |-> p.tx, nonce |-> p.nonce]}
            /\ send' = done("sent", "none") \/ send' = done("failed", "answer")
            /\ UNCHANGED <<adapters, user>>

AdapterNext ==
  \/ \E u \in Users :
       \/ \E a \in Adapters : UpdateProviderAdapter(u, a)
       \/ ConnectAndPatchProvider(u) \/ InitAdapter(u)
       \/ ResetProviderAdapters(u) \/ ReleaseAdapters(u)
       \/ \E k \in Networks : SwitchNetwork(u, k)
  \/ \E c \in Sends :
       \/ \E k \in Networks : SendTransaction(c, k)
       \/ Panics(c) \/ PendingNonceAt(c) \/ EstimateGas(c) \/ RequestFails(c)
       \/ SignTransaction(c) \/ BroadcastTransaction(c)
  \/ \E k \in Networks : OtherProgramSends(k)

AdapterSpec == AdapterInit /\ [][AdapterNext]_adapterVars

-----------------------------------------------------------------------------
\* A node turns a nonce down only if another transaction of the account was
\* sent while the call held the nonce, or the adapter changed its chain
\* between PendingNonceAt and the transaction; and a transaction waits at its
\* node behind a nonce nobody has sent only after such a change.
NonceTroubleOnlyByRace ==
  /\ \A c \in Sends : send[c].err = "nonce" => send[c].raced \/ Cardinality(send[c].selected) > 1
  /\ \A s \in sent :
       s.send # Null /\ s.nonce > NextNonce(s.chain) => Cardinality(send[s.send].selected) > 1

\* The signers follow the slot (UpdateProviderAdapter, ResetProviderAdapters).
\* An adapter that was installed and is neither in the slot nor about to be
\* released has given its signer up; the one in the slot has its signer,
\* unless it was installed twice and so released by its own installation; and
\* a SendTransaction loses its signer on the way only if its adapter was taken
\* out of the slot, or installed again, meanwhile.
SignersFollowSlot ==
  /\ \A a \in signer :
       installs[a] # {} => a = slot \/ \E u \in Users : user[u].pc = "release" /\ user[u].a = a
  /\ slot # Null /\ slot \notin signer => Cardinality(installs[slot]) > 1
  /\ \A c \in Sends : send[c].err = "panic" => slot # send[c].a \/ Cardinality(installs[slot]) > 1
=============================================================================
