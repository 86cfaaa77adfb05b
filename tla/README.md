# A verification project for the Hinkal Go SDK

TLA+ modules that model the stateful core of the SDK, TLC configurations that
check them on small instances, and TLAPS proofs, for every value of the
constants, of all the safety properties but those of the Merkle tree.  Paths are
relative to the repository; `PROJECT.json` maps every definition to the lines it models.

    tlc -workers 2 -config MCEventSyncServer.cfg MCEventSyncServer
    tlapm EventSyncProofs.tla

## 1. The system

The SDK is the client (and, in one code path, the snapshot server) of a
shielded pool.  Deposits, transfers and withdrawals put *commitments* with an
encrypted *output* into a Merkle tree on chain; spending an output publishes
its *nullifier*.  A client keeps copies of the commitments tree, the outputs
and the nullifiers, decrypts the outputs it owns, and builds zero-knowledge
proofs against the root of its tree.

| Component | State | Operations | Talks to |
|---|---|---|---|
| Event emitter (`internal/data-structures/eventservice/{emitter,polling,client}.go`) | last scanned block, ready flag, processors, mutex; the listener's `fetchFrom` | `RetrieveEvents`, `ProcessExternalEvents`, `AdvanceLatestBlockNumber`, `SyncFromAtMost`, `Init`, the listeners | RPC node, snapshot server, the services as processors |
| Snapshot service (`eventservice/snapshot.go`) | block of its last save, the delegate's payload | load, apply a page of events, save | emitter (reads its block number in the middle of a batch), persist and fetch functions |
| Commitments and nullifier snapshots (`internal/data-structures/snapshot`) | Merkle tree, outputs, outputs by commitment; set of nullifiers | `AcceptEvent`, serialise, deserialise | Merkle tree |
| Merkle tree (`data-structures/merkletree`) | nodes, reverse map, count, index | insert, root, paths, JSON | |
| Balance and cache (`internal/functions/balance`, `internal/cache`) | one entry per chain, contract and public key: owned outputs, last output | read view, decrypt locally or in the enclave, extend and overwrite the entry | facade (view, keys), enclave, cache device |
| File cache (`internal/cache/file_cache.go`) | a map in memory and in a file | `Get`, `Set` | other processes, through the file |
| Facade (`data-structures/hinkal`) | trees, outputs and nullifiers per chain under a lock, user keys, the flag that disables updates | `ResetMerkle`, `ResetMerkleTreesIfNecessary`, `GetTotalBalance`, log in | all of the above |
| Adapters (`data-structures/hinkal/hinkal_providers.go`, `providers`, `signers`) | one adapter per kind of chain under the facade's lock; its chain, its signer | install, reset, switch, send, wait | wallet, nodes |
| Transaction flows (`internal/functions/{transactions,pre-transaction,fees,snarkjs,web3}`) | local variables of a call; the wallet's allowances | deposit, withdraw, transfer, swap, claim: fee, choice of UTXOs, change, root, proof, approval, send | relayer, wallet, chain, snapshot server, facade, balance |
| Deposit and send (`deposit_and_*`, `near_*`, `solana_deposit_and_*`, `deposit_on_chain_utxos.go`) | local variables of a call; the phase at the status server | deposit one UTXO per recipient, wait for the tree, hand a batch of withdrawals to the relayer | wallet, status server, relayer, facade |
| Stuck UTXOs (`withdraw_stuck_utxos.go`) | the client's nullifiers | a loop: refresh, select at most six, withdraw, wait | relayer, contract, and the UTXOs of calls under way |
| Proofless deposits (`proofless_deposit.go`, `solana_deposit.go`) | the wallet's allowances | approve, simulate, send, send again | wallet, nodes |
| Solana emitter and snapshots (`eventservice/solana_emitter.go`, `snapshot/solana_*.go`) | last slot, the listener's `fetchFrom`, tree, outputs, nullifiers | scan by pages of signatures, poll, accept | node, snapshot server |

What is hard here, and hard to test: `fromBlock` is chosen before the mutex
is taken; the client's listener moves the block number without the mutex; a
batch fails between two services; a snapshot is saved in the middle of a batch
under the block before it; a process restarts between two saves; a server must
stay clear of reorganisations; the balance cache is read, extended and
overwritten by goroutines of which only some hold the mutex; and transactions
reserve neither the UTXOs nor the allowance they rely on, so that calls made side
by side or repeated after a lost answer meet on the chain.  A deposit-and-send
is many requests long and may stop after any of them with the money in the pool;
what is stuck is decided while other calls are under way; resets of the same
chain race each other; processes share a file without a lock; and an adapter is
switched or released while a call uses it.  `hazards` in
`PROJECT.json` lists these at their lines.

## 2. Modules

| Module | Models | Extends |
|---|---|---|
| `EventSync` | emitter, both listeners, snapshot services, the stored snapshots | |
| `EventSyncProofs` | its inductive invariant and theorems | `EventSync` |
| `MerkleTree` | the sparse tree as operators on a record, reference root and path | |
| `CommitmentsSnapshot` | the commitments service on top of the tree | `MerkleTree` |
| `BalanceCache` | the view, the cache entries, the calls that read and write them | |
| `SpendAmounts` | fees, sorting, padding and cutting of inputs, change, public values of a proof, as operators | |
| `SpendAmountsProofs` | lemmas about those operators: sums, order, padding, limits | `SpendAmounts` |
| `Transact` | private transactions of one client, from the request to the contract | `SpendAmounts` |
| `Payments` | what a deposit-and-send promises: an abstract specification | |
| `DepositAndSend` | deposit and withdraw, deposit and bridge, NEAR bridge, on EVM, Tron and Solana; implements `Payments` | `SpendAmounts`, instance of `Payments` |
| `WithdrawStuck` | the loop over stuck UTXOs, composed with the calls of `DepositAndSend` | `DepositAndSend` |
| `WithdrawStuckProofs` | its inductive invariant and theorems, and the refinement of `Payments` | `WithdrawStuck`, `SpendAmountsProofs` |
| `ProoflessDeposit` | deposits without a proof, approvals, Tron fees, Solana retries | |
| `ProoflessDepositProofs` | its inductive invariant and theorems, and that sums are natural | `ProoflessDeposit` |
| `SolanaTransact` | withdraw, transfer, swap and claim on Solana | `Transact` |
| `TransactProofs` | inductive invariant and theorems of both kinds of transaction | `SolanaTransact`, `SpendAmountsProofs` |
| `SolanaEventSync` | the Solana emitter of a client, its listener and both snapshots | |
| `SolanaEventSyncProofs` | its inductive invariant and theorems | `SolanaEventSync` |
| `ResetMerkleTrees` | resets of the client's copies of the chains | |
| `FileCache` | the cache file and the processes that share it | |
| `CacheProofs` | inductive invariants and theorems of both caches and of the commitments service | `BalanceCache`, `FileCache`, `CommitmentsSnapshot` |
| `ProviderAdapters` | the adapter slot and how an EVM adapter sends | |
| `FacadeProofs` | inductive invariants and theorems of resets and adapters | `ResetMerkleTrees`, `ProviderAdapters` |
| `MC*` | constants for TLC | |

### EventSync

`latestBlockNumber`, `fetchFrom`, `mutex` and `savedLatestBlock` are the fields
of the same name; `accepted[s]` is what service `s` has applied, `store[s]` the
snapshot that its fetch function would return, `job[t]` the local variables and
the program counter of goroutine `t`.  An event is `<<block, fork>>`, so that
an orphaned event differs from the one that replaced it.

A `RetrieveEvents` is split where others can run: the caller evaluates
`fromBlock` (`CallRetrieve`), gets the mutex and fetches (`StartFetch`, or
`FetchFails`), runs one processor at a time (`ProcessPage`, `PersistFails`), and
commits (`CommitRetrieve`).  The client's listener polls (`PollServer`), takes
the mutex (`LockExternal`), runs the same processors, commits
(`CommitExternal`) and then advances the block number again without the mutex
(`AdvanceCompare`, `AdvanceAssign`).  `Restart` is a crash at any point, or
`resetMerkleTreeForChain`.  The chain, its reorganisations and the snapshot
server as a client sees it are external.

### MerkleTree and CommitmentsSnapshot

A tree is a record of the fields of `merkleTreeImpl`.  The hash is free (a hash
is the pair of its arguments), so two roots are equal only if the trees are.
`AcceptEvent` is the whole method, with its early return and the removal of a
replaced output.  Events come in order, again, or from a replaced block; a
snapshot may be labelled with an older block and may lack the reverse tree.
`isServer` is chosen once: a server saves and loads, a client sees
reorganisations.  `TreeCorrect` says that the completeness check in front of every
root and path never fails (`NeverIncomplete`) and compares root and paths with a
reference tree, the paths through one reorganisation only (section 5);
`OutputsExact` says that the outputs are those of the chain, except that
nothing is claimed to be complete after a reorganisation (section 6).

### BalanceCache

Output `i` is the i-th on the chain; an entry says how often it holds each
output and which is the last one it has seen.  A call is split at every read
and write of shared state: outputs, nullifiers, reset of the entry, entry,
enclave, write.  `GetTotalBalance` holds the chain's mutex, `AddPaddingToUtxos`
(and the withdrawal of stuck UTXOs) does not.  Callers of `GetTotalBalance` name
the entry by any user's keys, while `GetInputUtxoAndBalance` decrypts with those of
whoever is logged in when it runs: `foreign` is the history of the entries that were
combined with keys of another user.  `localFetchingLock` is not a
variable: all that `getInputUtxosLocally` uses was read before it is taken.

### SpendAmounts and Transact

`SpendAmounts` has one operator per function of the amounts of a transaction,
under the function's name.  A UTXO is an amount and its place on the chain
(`<<transaction, <<row, column>>>>`, the outputs of a transaction being a function
of rows and columns); a padding UTXO has no place.  Sorting puts every UTXO at
its rank: the number of those that are larger, or as large and older.  Guards
with an error (`FeeOverTransactionValue`,
`OverLimit`, `InsufficientFunds`, `ClaimPays`) are operators of their own.

A behaviour of `Transact` belongs to one client (`client`, from `Clients`): its
UTXOs, what it may ask for and what the fee quotes are.  The chain is the sequence of accepted transactions; the client's
outputs, nullifiers and tree and the snapshot server's tree are prefixes of it,
which advance on their own (the outputs may come from an enclave that is ahead of
the client).  `plan[c]` holds the local variables of call `c` and `pc[c]` is the
request it waits for: `Begin` (arguments, volatile amounts), `ResolveFee` or
`ClaimUtxo`, `SelectUtxos` or `RecipientInputOutputUtxos`, `HandleLocalMerkleTrees`
or `HandleRemoteMerkleTrees`, `ConstructZkProof`, for direct calls the approvals
(`ReadAllowances`, `ResetAllowance`, `ApproveTokenToHinkal`), `Send`, `Answer`.
`RequestFails` ends a call at any of them, and `ConstructZkProof` one whose rows
are not those of a circuit (`HasCircuit`: tokens, inputs and outputs of a row).
`Settle` is the contract, external: it
accepts a proof whose nullifiers are new
and whose deposits the allowance covers, and moves what the proof says; once
sent, a transaction settles whether or not the answer arrives.

`ExecutedAsRequested` compares every accepted transaction, for every token and
every party, with what the caller asked for plus the fee; `Conservation` the pool
with the unspent UTXOs; `AtMostOncePerView` says that retries are harmless until
the view moves; `RejectedOnlyByConflict`, `RefusedOnlyIfUnpayable` and
`FitsCircuit` say why a call may fail on the chain, for its amounts and for its
shape (a transfer with the fee in a second token has rows of two and of one output,
and no circuit); `LocalRootCovers` that the comparison of
roots makes the local tree safe to use.

### Payments, DepositAndSend, WithdrawStuck

`Payments` has no relayer, no tree and no receipt: a call is asked for amounts,
all its money goes into the pool in one step, each coin pays one recipient the
exact amount or goes back to the user, and success is reported only once the
money is in the pool.  `DepositAndSend!Promise` is the instance: the stage of a
coin is read off the deposit transaction, the nullifiers and the relayer's work,
what a recipient got off the executed withdrawals.  `PaymentsSpec` is checked
with a stuck-UTXO loop beside the call, so that `Recover` steps happen.

`plan[c]` and `pc[c]` are a call's local variables and the request it waits for:
validation (`Begin`), quotes (NEAR), fee, status "before", deposit, wait
(`WaitForTransaction`, where a reverted transaction is an error for every
adapter), receipt, decoding and matching by amount (`MatchDeposits`), for a
bridge a second round for the native fees, the wait for the tree
(`LastLeaves(20)`, 60 attempts), the batch, and its schedule, whose answer may
get lost.  The relayer executes what it was given whenever it likes.  The contract
may create the UTXOs of a deposit in any order, and the search of
`matchRecipientUtxos` is given by rank: a recipient gets the UTXO of its amount that
as many others of the amount precede as there are earlier recipients of it.

`WithdrawStuck` adds loops over the blocked UTXOs that the relayer has no
withdrawal for.  A call that is still waiting has not scheduled its UTXOs, so
its coins look stuck: `RefusedOnlyIfRecovered`, `CoinsAccounted` and
`PaymentsSpec` say that the money is not lost or paid twice all the same.

### ProoflessDeposit and SolanaTransact

`ProoflessDeposit` covers the eight entry points of the two files, the approvals
of EVM (awaited) and Tron (broadcast), the simulation, fee estimate and balance
check of Tron with `Int64` values, and the Solana loop that builds and sends a
deposit again; amounts are cut to a word as `Uint64()` does.  All calls of the
wallet share its free energy (with bandwidth one resource, counted in sun), which
the estimate subtracts as it is at that moment; an approval or a deposit that is
mined uses up what is still free and burns TRX for the rest, within the fee limit,
also if it is reverted.  How much each needs is known when it is mined, and may be
more than what was estimated.  `SolanaTransact`
reuses the chain, copies, roots and relayer of `Transact` and replaces checks,
fees and amounts by those of the Solana flows; `AnySpec` has both, and a client is
on one kind of chain.

### SolanaEventSync

As `EventSync`, for slots.  A scan asks for the slot, pages backwards through
signatures (a page may end within a slot, and the chain may grow or roll back
between two pages), reads transactions one by one and may leave some out; the
listener processes what the snapshot server is through with.

### ResetMerkleTrees, FileCache, ProviderAdapters

A reset is one goroutine per chain (`job[c][k]`): lock, retrieve (under the
balance mutex), store, unlock; `ResetMerkleTreesIfNecessary` compares roots
first.  A copy of a chain stands for the number of its leaves, and whether it is
complete.  `FileCache` has inodes and descriptors, because a process that has
the temporary file open goes on writing to it after another one has renamed it;
`accept`, `behind`, `clean` and `mixed` are history variables of the properties.
`ProviderAdapters` splits `SendTransaction` at every read of the adapter's chain
or signer and at every request; the nonces of the account are the nodes'.

## 3. Runs

| Run | Instance | Checks |
|---|---|---|
| `server` | 2 services, 1 caller and the poll listener, blocks 2-4, reorg depth 2, one reorganisation, 2 failures or crashes; with fairness | `NoEventLost`, `StoreCovers`, `NoOrphans`, `StoreGrows`, `ListenerCatchesUp` |
| `client` | 2 services, 1 caller and the client listener, blocks 0-2, node one block behind, 1 failure; with fairness | `ListenerNeverSkips`, `ListenerCatchesUp` |
| `commitments` | every order of 5 commitments in a tree of 8 leaves, two of them with the same output; a server that saves and loads, or a client with two reorganisations | `TreeCorrect`, `OutputsExact` |
| `commitments_swap` | 4 commitments in 4 leaves, one reorganisation | `NoOutputMissing`, which fails (section 6) |
| `balance` | 2 goroutines, 2 users who log in at any time, an output of each, one of which is spent, the enclave one behind; one goroutine at a time once an entry was combined with the keys of another, or while updates are disabled | `CacheSound`, `BalanceExact` |
| `transact` | 2 calls of one of three clients: eight UTXOs of A (six of which are worth 9 of 11) and one of B; two of A and one of B, B volatile and native, A with a reset of its allowance, fees in either token, as amount or rate; three UTXOs of a mint on Solana.  One or two of them are claimable | `ExecutedAsRequested`, `Conservation`, `RejectedOnlyByConflict`, `RefusedOnlyIfUnpayable`, `FitsCircuit`, `AtMostOncePerView`, `LocalRootCovers`, `PricedAsExecuted`, `SwapCredit` |
| `stuck` | 1 call out of 10 requests of every kind on EVM, Tron and Solana, 1 loop, window of 2 leaves, 1 attempt, 1 leaf of another user, 1 fault of the loop, a fee of the loop above the smallest coin; with fairness | `StatusNeverAhead`, `CoinsAccounted`, `RefusedOnlyIfRecovered`, `PaymentsSpec`, `FundsLeavePool`, `LoopEnds` |
| `proofless` | 2 calls of one wallet on every kind of chain, a word of 8, 3 sends; Tron transactions that need 2 or 3, of which 1 is free, a fee limit of 2, a padding of the same again | `DepositedOnce`, `RevertedOnlyIfShared`, `NoStandingAllowance` |
| `solana_events` | slots 2-4, 4 transactions, pages of 1 and 2, one rollback, one unreadable transaction; with fairness | `ScannedComplete`, `ListenedExact`, `SolanaListenerCatchesUp` |
| `file_cache` | 2 processes, 2 keys, 2 values | `FileIntact`, `UpdatesKept`, `GetsLatest` |
| `resets` | 2 calls, 2 chains of which one may have an incomplete tree, with no list, or one that holds an unsupported chain; with fairness | `FreshAfterReset`, `CallsReturn` |
| `adapters` | 2 adapters, 2 chains, 3 goroutines, 2 transactions, 1 of another program | `NonceTroubleOnlyByRace`, `SignersFollowSlot` |

Why the bounds are enough.  Two services make every partial failure of a batch
possible, and two failures a crash after it; one caller beside the listener
gives the overtaking of a stale `fromBlock` (a third goroutine only repeats it,
and the proofs cover any number).  With depth 2 and blocks 2 to 4 a
reorganisation of the maximal depth happens before, during and after a fetch.  A
node that lags is in the run of the client; for a server it is in the proofs.
Five commitments cross the step from a tree of four to a tree of eight leaves,
where the height changes, and a reorganisation happens on either side of it; a
second one moves a commitment to another leaf and back.  Three of the five are
interchangeable (symmetry).  In
`balance` one output may be in one goroutine's view and not in the other's, and
entries are overwritten in both orders.  A view is behind whenever no reset came
after an output, but never shrinks: that, a second spent output and two goroutines
at work on a mixed entry or with updates disabled are in the proofs only.  A conflict between transactions needs two calls; tokens with
eight UTXOs, with two and with one are spent together, and fees are
paid in the sent token, in another token the client holds, and in one with too
little of it.  A rate of 5 out of a `BPS` of 10 makes
rounding happen; the slippage of the swap is exact, rounded up and down it is in the
proofs.  A window of two leaves holds the two deposits of a call until a
foreign leaf pushes one out, before or after the attempt; recipients
with equal amounts are in the instance of the matching, and a reverted, a lost and a
refused step each leave something for the loop.  More than six inputs are in
`transact`, whose selection the loop shares.  A word of 8 is below
some of the amounts.  What Tron has free for one call is not enough for two, and
comes back; a need of 3 is beyond the limit, and an estimate that is too low within
it is in the proofs.  One rollback of depth below `Depth` happens before,
between and after the pages of a scan.  For the stale copy of a reset to
overwrite a newer one it takes two calls and one leaf.
Two processes with three steps per `Set` give every overlap of
truncation, write and rename; a third adds none.  Three goroutines can install,
replace and reset, or install, switch and switch back, during a transaction.

Deadlock is checked in the runs of `EventSync`, `CommitmentsSnapshot`,
`BalanceCache`, `SolanaEventSync` and `FileCache`.  In the others calls are made once and
end, and the system may stop.

Every property has a mutant: a plausible slip in one mapped definition (a
dropped `+ 1`, the newest snapshot instead of the oldest, a cache written with
the newest view's last output ...) under which TLC finds it violated.

### Fairness

`FairSpec` assumes that a goroutine that can run does run (weak fairness of the
unlocked and of the lock-holding steps), that a started listener ticks and that
the snapshot server answers again and again with its newest block.  Taking the
mutex is strongly fair: `sync.Mutex` switches to starvation mode after a
millisecond and hands over to the oldest waiter.  No fairness is assumed of
callers, failures, restarts, the chain or `FetchFails`; failures are bounded,
so that a run has a last one.  `ListenerCatchesUp` starts when the listener
runs: an `Init` whose retrieval fails never starts it, and no document promises
that it does.

The other specifications with fairness: `WithdrawStuck!LiveSpec` assumes that the
relayer makes the withdrawals it has, that transactions are decided, that a loop
goes on, that the servers catch up again and again, and that the user asks again
while something may be stuck (that is what `FundsLeavePool` needs); nothing is
assumed of the calls, which may stop anywhere.  `SolanaEventSync!LiveSpec` assumes
that requests are answered or fail, that server and ticker go on, and strong
fairness of `ProcessExternalEvents`.  `ResetMerkleTrees!LiveSpec` assumes that a call
with a step outside the mutexes takes one (`GoesOn`), that a balance releases its
mutex, and strong fairness of the steps that take a mutex (`GetsMutex`),
again because `sync.Mutex` is starvation free.  The HTTP clients have no
timeout of their own: a request that is never answered holds its mutex, which
these assumptions exclude.

## 4. Proofs

**EventSync**, for any number of services, callers, blocks, failures and
reorganisations, from `ConstantsAssumption` (types) and `ReorgAssumption`.  The
latter says what the code relies on: a server's chain is reorganised by less
than `ReorgDepth` blocks, and is at least `ReorgDepth` blocks (and the lag of
the node) high, without which `latest - reorgDepth + 1` wraps around; a client
in this module sees no reorganisation.

`NoEventLost` is not inductive: a goroutine may hold a batch fetched long ago,
and `lastBlock` is assigned whatever the block number is by then.  `IInv` adds

* `BelowStable`: no block number anywhere (emitter, cursor, stored snapshot,
  job) is beyond `head - MaxReorg`, so no reorganisation touches what is below;
* `OnlyFinal`: all applied, stored and fetched events are on the chain and below;
* `StoreCovers` and `LoadPhase`: while loading, each loaded service covers the
  minimum taken so far, and nobody drives the emitter;
* `JobsInv`: the events of a job's range that precede `from` are applied, its
  batch holds all of the range, and the services before `next` have applied it;
* `ListenerNeverSkips`.

Hence at a commit every event up to `lastBlock` is applied, whether the number
rises or falls.  The proof has one lemma per action; actions that change only a
job go through `QuietStep` and `EmitterStep`.  `StoreGrows` needs
`MemoryCovers` beside it: a loaded service has applied all that is stored.

**BalanceCache**, for any users, goroutines and outputs, from
`BalanceAssumption`.  `CacheSound` alone does not survive a write by a goroutine
that read long ago; `IInv` adds `CallInv`: the copy of an entry that a call
holds is itself sound for its user, its keys are those of this user unless he is in
`foreign` (which only a restart with an empty cache makes smaller: `CallGrows`),
and on the paths that use an entry as it is the entry covers the view.  `OwnedSplit`
(the owned outputs up to `n` are those up to `k` and those after it) is the
heart of the step `GetInputUtxosLocally`.

**FileCache**, for any finite set of processes and any keys and values, from
`FileCacheAssumption` (the marks for an absent, empty and torn file are no
values or contents).  What the file holds after a rename is decided when the
`Set` begins: `CleanSet` follows a `Set` that no other one overlaps from the
read to the rename (its descriptor is the temporary file, which is empty and
then holds its map), `Overlap` says that every other `Set` under way has been
given up on, and `BeforeFile` that up to the first rename memories hold nothing
but what was set.  With them `FileIntact`, `UpdatesKept` and `GetsLatest` are
inductive together.

**CommitmentsSnapshot**, for a tree of any size, any commitments, also ones that
share an output, and any number of reorganisations, from `CommitmentsAssumption`
(the bounds are numbers, the leaves fit into the tree, every commitment has an
output).  `OutputsExact` speaks of a service that has caught up, and
`CommitmentsIInv` says what holds until then, of the service and of the stored
snapshot alike: `Covered` (each event handed over is in its leaf, also when the
snapshot is newer than its label), `TreeOK` (the leaves are the first `count` ones,
without a gap, which also gives `NeverIncomplete`), `SameLeaves` and `Listed` (what
nobody reorganised is the chain's, and its outputs are in the list) and `Owned`: each
output in the list is that of a known commitment, which in a client is in a leaf
and in a server on the chain.  A client that replaces a leaf drops the
commitment together with its output, and the list holds an output once
(`Distinct`), so what is left keeps its owner; a server never replaces a leaf.
A server that restarts from block 0 has an empty tree and a full list: hence the
chain and not the tree for its owners.  What rehashing does to the inner nodes plays no
part; that it writes one leaf only (`RehashLeaves`) is shown by a least
counterexample over the levels.

**ResetMerkleTrees**, for any calls, any finite set of chains and any `Lag`, from
`ResetAssumption`.  A call that has returned may still have its tree replaced by
a slower one, so that the invariant bounds every copy that is fetched and not yet
stored: `Fetched` (at most `Lag` older than the tree it replaces and than what any
finished reset promised, because the mutex lets nobody store in between) and
`FoundEqual` (at most `2 * Lag` older than what a call found equal to its root).
`OneAtATime` is the mutual exclusion this rests on.

**ProviderAdapters**, for any adapters, chains and goroutines and any finite set
of calls, from `AdapterAssumption`.  `InstallInv` is behind `SignersFollowSlot`: an
adapter that lost its signer, waits for its release or is used by a call has been
installed before.  `SelectedInv` follows both chains that a `SendTransaction`
reads.  `NonceInv` is behind `NonceTroubleOnlyByRace`: a nonce that a call holds is
the first free one of its chain until another transaction overtakes it.  That
there is a free one within the bound is a pigeonhole argument over the
transactions (`SentInv`).

**SolanaEventSync**, for any chain, page sizes and number of rollbacks, from
`SolanaAssumption`.  The properties speak of what is stored once a scan or a poll
ends; what was listed and read until then must be carried along while the chain
moves on.  `Paged`: what the scan has not listed is below its last signature and
still asked for, unless the chain dropped that signature.  `ReadAll`: what was
read is what the chain has, but for what was left out, and does not contradict
what was listened to.  `Polled`: the answer that the listener holds is beyond the
reach of a rollback.  `OnePlace`: an id has one leaf, so that a replaced
commitment's output may go.  `Scanned` and `Listened` are the properties place by
place.  `MovesOn` abstracts a new slot and a rollback to what both keep.

**ProoflessDeposit**, for any calls, tokens, requests, energy, fee limit, padding,
word, number of sends and funds below the word, from `ProoflessAssumption` (types of
requests and allowances).  For
`DepositedOnce`: `SentOnce` (nothing is out before a call is through with its
sends, and one transaction afterwards: `ShouldRetrySolanaSendError` holds only
of errors that say that the node did not let the transaction pass), `Planned` (what was accepted has one amount
and one key per token, and is charged with the fee it was approved for) and
`Made` (UTXOs and fees are those of the mined transactions).  For
`NoStandingAllowance`: `Approved` (the allowance of a call that is alone is what it
found or less, or what its deposit is about to use up) needs `Awaited`: a Tron
approval that is broadcast and not mined keeps the simulation from passing, so
that none comes after the deposit.  Both use that the contract charges what
`BuildWrapperApprovalInputs` sums up, and that this is a natural number
(`SumNat`: the sum over a finite set exists and is natural, by least
counterexample over the sizes of its subsets).

`RevertedOnlyIfShared` needs sums over the calls of a wallet.  `Paid`: the wallet
has at least its funds less what mined deposits took and what Tron transactions
needed, free energy or not.  `Enough`: once a call is through
with a token, the allowance covers its need, or another call competes for it;
`Broadcasts` and `OnItsWay` say which approvals are still to come.  `Affordable`:
the funds cover what the simulation and the balance check of Tron let pass, and a
Tron call that is alone still has what the check set aside, in energy or in sun.  A call
that shares nothing then finds the funds it needs, because what the mined deposits
took is at most what all other calls may use (`SumGrows`), and the step of another
call leaves it what it relies on (`OtherKeeps`).

**Transact and SolanaTransact**, for any calls, tokens, clients, requests, quotes
and rates and chains of any length, from `RateAssumption`, `TransactAssumption`
(types of requests and UTXOs; the tokens of a request differ; a claim names a
UTXO of the genesis transaction) and `SlippageAssumption`.  `IInv` has

* `History`: each transaction on the chain is the one that the plan of its call
  describes, spends older UTXOs, and spends none twice;
* `CallOK`: a call holds, before its fee is known, the amounts of its request
  (`Begun`), then in each token those less the fee (`Merged`), and once inputs are
  chosen rows of the shape of its kind (`Sound`).

All of it refers to prefixes of the chain, so it survives the steps of others
(`CallGrows`).  `LocalRootCovers`, `RefusedOnlyIfUnpayable`, `AtMostOncePerView`,
`ExecutedAsRequested`, `FitsCircuit` and `SwapCredit` follow from `IInv`; `Conservation` by
induction over the length of the chain.  `RejectedOnlyByConflict` needs the history
of the allowances (`AInv`: a call that no other competes with has been approved what
its deposit pulls), `PricedAsExecuted` that of the count that the gas estimate was
told (`PInv`).  `RefusedOnlyIfUnpayable` rests on a lemma of `SpendAmountsProofs`: no
six UTXOs are worth more than the first six of the sorted row.  Sums and order are
proved by least counterexample over the subsets of a finite set
(`SubsetInduction`), which needs no induction rule with an operator parameter.

**WithdrawStuck with DepositAndSend**, for any calls, recipients, amounts, loops,
windows and leaves of others, from `SendAssumption`, `RequestAssumption` (the fee is
in the token sent; a bridge has one native fee per recipient, as
`HinkalDepositAndBridge` builds them) and `StuckAssumption`.  `IInv` has

* `CallsOK`, what a call holds at each label: the leaves of its deposits are one
  per slot and of the wanted amount (`CoinsOK`), what it matched are these leaves
  (`MatchedOK`), the batch it built or handed over pays each recipient from its own
  coin (`Built`, `Relayed`), and what it told the status server is so (`Told`).
  These are facts about leaves that later leaves leave alone (`CallKeeps`);
* `RelayerOK` and `Apart`: no two withdrawals of the relayer share a coin;
* `LoopsOK` and `Takes`: the inputs of a loop's transaction are coins, at most six,
  and worth what it pays, its fee and what it leaves;
* `Ledger`: the spent leaves are those paid and those recovered, and no others.

`MatchedAll` is the heart of the matching: every recipient finds a coin and no two
the same one, by counting equal amounts on both sides.  From `IInv` follow
`CoinsAccounted`, `RefusedOnlyIfRecovered` and `StatusNeverAhead`.

`ImplementsPayments` is the refinement, `Spec => PaymentsSpec`: a call that is entered
maps to `Ask`, the main deposit that is mined to `Deposit`, a withdrawal that the
relayer executes to `Pay`, one that a loop settles to `Recover`, the end of a call to
`Report`, and every other step changes none of the four functions.  It needs that
the amount paid is the amount asked for: the coin of a recipient is that amount
with its fee, and `WithFeeInjective` (the fee is monotone) makes the amount
recoverable.  The step for `Recover` needs `Ledger`: whichever set of coins a loop
takes, each is still in the pool.

Only model-checked:

* liveness, in all modules: the prover does no reasoning about fairness;
* `TreeCorrect` of `CommitmentsSnapshot`, but for `NeverIncomplete`: that the inner nodes are those of the
  reference tree is a statement about what two recursions over the height compute,
  which needs induction over data.

## 5. Limits of the models

* `EventSync`: a range is fetched whole (paging and bisection are not modelled),
  and logs that cannot be decoded, which the code drops, do not occur.
* A client of `EventSync` sees no reorganisation; `CommitmentsSnapshot` does.
  With two reorganisations and no reset between them, which would discard the
  service, `PathsVerify` fails, and `TreeCorrect` claims it through the first one
  only: after `a, c`, then `c`, then `a, c` again the second leaf still holds `c`,
  and the early return of `AcceptEvent` for an unchanged leaf leaves the reverse
  map at the leaf in between.
* `BalanceCache`: outputs only grow (a reorganisation of outputs already cached
  is a hazard without a property); amounts, tokens and the blocked flag are left
  out.  An entry that was combined with the keys of another user (`hinkal.go:263`)
  may miss outputs from then on: the properties claim no more of it than that it
  repeats none.  An enclave that is behind makes the
  balance of that call, and of no later one, incomplete.
* `Transact`: one EVM chain.  A swap pays the quoted amounts or reverts (its
  output is created on chain).  Fee tokens are in the registry.  The node answers
  with the contract's current root: behind a node that lags, with an enclave that
  does not, `LocalRootCovers` would not hold.  The shape of the output rows is not
  judged (a transfer with the fee in another token has rows of two and one), nor
  transfers of two tokens, of which only the first gets a recipient's output.
  Blocked UTXOs, `returnTxData` and local networks (which always use the local
  tree) are left out.  A deposit also merges existing UTXOs, so that a second one
  made from the same view is turned down; `AtMostOncePerView` shows it.
* `DepositAndSend`: the fee is in the token that is sent (`paySendFeeStructure` does
  not compare an override's token with it); one deposit transaction is decided
  once; a relayer keeps what it was given.  An approval that is reverted is an
  error like any failed request.  A custom adapter that answers `false` without an
  error would not be one: the adapters of the repository never do.
* `WaitForTransaction` with two confirmations (Base) looks at the status of the
  first receipt only; a reorganisation in between is not modelled.
* `WithdrawStuck`: one user; loops for the sent token and for the native one.  The
  instance has one call, one loop, at most two UTXOs to withdraw, and no fee given by
  the caller.  What is not worth more than the fee of a withdrawal stays in the pool
  (`withdraw_stuck_utxos.go:250`); `FundsLeavePool` says that this is all that stays.
  A call of more recipients than the window of 20 leaves may wait in vain for its own
  deposits; no property claims otherwise.
* `ProoflessDeposit`: one wallet; `returnTxData` is left out.  An EVM deposit is not
  simulated, so one without funds is reverted; gas on EVM chains and Solana's fees
  are left out.  On Tron energy and bandwidth are one resource, and a call reads its
  balance, its resources and its allowances at one moment each.
* `SolanaEventSync`: a client.  A commitment that a rollback brings back is a new
  one; the head is at least `Depth` slots high, without which `getLastSlot` of a
  server wraps around.  The server is external.
* `ResetMerkleTrees`: a list of chains holds a chain once.  A reset that is skipped
  (updates disabled, or one chain of the list not supported) returns nil and
  promises nothing, also for the other chains of the list.
* `FileCache`: the file system keeps the order of a process's operations; a power
  failure that loses a rename is not modelled.
* `ProviderAdapters`: the EVM slot, and adapters with a private-key signer.  Which
  chain a caller meant plays no part, in the code as in the model: a transaction
  goes to the chain the adapter is on.  Adapters come with signer and chain set.

## 6. Finding

`commitments_swap`: when a reorganisation makes two commitments swap leaves,
`AcceptEvent` (`internal/data-structures/snapshot/commitments.go:202`) removes
the output of a commitment that it wrote to its new leaf just before.  Tree and
root are right, so nothing triggers a reset, and the output is missing from
every balance until the service is rebuilt.  It takes a service that lives
across the reorganisation.

## 7. Plan

Done: the event and snapshot layer on EVM chains and Solana, the tree, the
balance cache and the cache file, resets, private transactions on EVM chains and
Solana, deposit-and-send with its abstract specification, stuck UTXOs, proofless
deposits, adapters; theorems for all of them, for the tree of its leaves only.  Next, in this order:

1. Reorganisations of cached outputs in `BalanceCache`, composed with resets.
2. Paging and bisection of a range on EVM chains; an abstract event log that
   `EventSync` implements.
3. Transfers of two tokens in `Transact`, with the recipient's outputs of both.
4. The inner nodes of `MerkleTree`: an invariant that says which of them are hashes of
   their children, from which the root of `TreeCorrect` would follow level by level.

## 8. Not modelled

Cryptography (keys, encryption, proofs), encoding of transactions and call data
(contract ABIs, instructions of Tron and Solana, private wallet), HTTP clients but
for the status of a deposit-and-send, quotes and prices, constants and type
definitions: stateless, or data.  The components in `PROJECT.json` give the
reason for each.
