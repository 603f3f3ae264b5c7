# TLA+ models of the ethemu network-emulation harness

This directory holds TLA+ models of the harness in `src/cmd/ethemu`, `src/emu`, the genesis
setup over `src/core/rawdb` and the badger wrapper of the chain database (`src/unnamed/part_000`).
The harness generates a peer topology (`ethemu gen`), initialises every node's database
(`ethemu init`), starts one geth node per descriptor entry in a single process, wires the nodes to
their peers and then drives a synthetic workload. The directory has:
- TLC configurations that model-check small instances;
- TLAPS proofs of the main safety property of the block-height benchmark, for every instance.

## 1. The system and how its parts interact

`src/cmd/ethemu/main.go` concatenates several versions of the same files:

| Lines | Contents |
|---|---|
| 1-326 | the continuous `ethemu` run |
| 344-686 | the benchmark `ethemu` run |
| 704-1159 | a continuous run with a jittered sealing period |
| 1175-1458 | two `config.go` versions |
| 1459-1561 | a `gen` command with the density policy |

`initcmd.go` holds `initGenesis` and, after it, a request tracker. Line numbers below refer to
the files as they are in `src/`.

**How the parts fit together.**
- `gen` runs in its own process and writes `config.json`.
- `init` loads that file and writes the genesis block into every node's chain database, which is
  a badger store behind the `ethdb` interface.
- The run process loads the descriptor into the global `emu.Global`, starts every node
  (`makeFullNode`, `startNode`) and wires the peers.
- It then starts one benchmark goroutine, or two in the continuous run (transactions and
  sealing), and blocks in `node.Wait`.
- The drivers talk to the nodes only through `SendTransaction`, `TxPool().Get`,
  `BlockChain().CurrentBlock()` and `Miner().Work()`.
- The nodes run concurrently with the drivers: they gossip transactions, seal blocks and import
  them from peers.

**What is hard to test.**
- A barrier that reads N nodes one at a time while they keep changing.
- Exit conditions placed before the event they wait for, and counters that count polls rather
  than events.
- Errors that are dropped or end a goroutine silently, and rejection loops with no iteration cap.
- `rand.Intn` of zero or of a wrapped `uint64`.
- A timer that is re-armed for a moment already past.
- An `init` that fails half-way and is run again.
- A batch whose badger transaction commits early, with buffers kept by reference.

`PROJECT.json` lists each hazard at the line where it bites, with the properties that cover it.

## 2. Modules

| Module | Models | Source |
|---|---|---|
| `BenchBlocks` (+ `BenchBlocksProofs`) | block-height benchmark driver; nodes as environment | main.go 600-639 |
| `BenchTxs` (+ `BenchTxsProofs`) | transaction-count benchmark driver; pools and mining as environment | main.go 534-597, 651-677 |
| `PeerGen` (+ `PeerGenProofs`) | `setMiners` and the degree-bounded `setPeers` | gencmd.go 65-127 |
| `PeerDensity` | the density-probability `setPeers` of the second `gen` | main.go 1540-1561 |
| `RunConfig` | descriptor loading and the `uint64` interval arithmetic | emu/types.go, gencmd.go 55-57 |
| `Continuous` (+ `ContinuousProofs`) | node setup and the two continuous workload goroutines, versions 1 and 3 | main.go 197-326, 1002-1159 |
| `GenesisInit` (+ `GenesisInitProofs`) | `initGenesis` over the chain databases, run repeatedly | initcmd.go 49-98, rawdb/database.go |
| `Tracker` (+ `TrackerProofs`) | the pending-request tracker (`clean`, `schedule`) | initcmd.go 150-194 |
| `ExpiringSet` | the abstract promise of the tracker: requests that age, and an expiry that drops exactly the dead ones | (abstract) |
| `BadgerDB` (+ `BadgerDBProofs`) | `Database.Put`/`Delete`, batch, prefix iterator | part_000 94-299 |

**BenchBlocks.** The state is:
- `chain[n]`, the sealers of node n's blocks;
- `work[n]`, a pending `Work()`;
- `pc`, `curHeight`, and the inner-loop index `idx` and `counter`.

The actions are:
- `ReadHeight` (609-614) reads one node; `PollDone` (615-618) breaks or polls again;
- `Seal` (619-637) picks a random sealer, calls `Work()`, increments `curHeight` and exits at
  `Target`;
- `Mine` and `Import` are the node collaborator, taken from the spec because sealing and p2p are
  not in `src/`. Blocks propagate along the constant graph `Peer` by the longest-chain rule.

**BenchTxs.** `Send` (563-577) sends, and the error is dropped. `ReadPool` and `PollDone` form
the pool barrier. `Init` is the state after the setup loop and the `AddPeer` pass (534-549):
fresh nodes wired along `Peer`. `Gossip`, `MineTxs` and `ImportBlock` are the environment.
`MineTxs(n)` has no miner guard because this version's `startNode` (651-677) starts mining on
every node.

**PeerGen.** `AddMiner`, `Check`, `Pick` and the loop steps. A rejected draw changes no state, so
it is a stutter.

**PeerDensity.**
- `Connect` and `Skip` are the two outcomes of one draw in the double loop.
- `Draws` is the set of values of `rand.Intn(100)` that connect a pair.
- The float arithmetic of `getPij` is kept exact. `density` and `ring/maxDist` are quotients of
  small integers, so comparing the rationals decides `theta` as float64 division does.
- `ExpectedDegree100` sums the draw probabilities over the other nodes.

**RunConfig.**
- `U64` is arithmetic modulo `2^Width`, and `IntOfU64` is the `int(...)` reinterpretation.
- `GenMinTxInterval` and `GenMaxTxInterval` are the divisions of `generateConfig`.
- `TimerArg` is `int(sleepMax - sleepMin)`.
- `LoadConfig(ok)` gives the roster, or the empty roster after a dropped error.

**Continuous.** Init picks everything that is fixed for a process:
- the descriptor: whether it loaded, the miners, the miners without an Etherbase, and the
  interval pair;
- the version of `main.go`;
- `--exitwhensynced`.

The actions are:
- Setup: `SetupNode` (makeFullNode plus startNode, with the version's `MiningEnabled`),
  `SetupFails` (utils.Fatalf), `Launch` and `AllClosed`.
- `SyncClose`: the version-3 goroutine that closes a synced node.
- The transaction task, `TxTask`: `TxNoSenders`, `TxPick`, `TxRedraw`, `TxSpin`,
  `TxTimerPanic`, `TxArm` and `TxSend`.
- The sealing task, `SealTask`: `SealNoMiners`, `SealPick` and `SealWork`.
- `SetupNode` ends in `utils.Fatalf` for a light client that should mine, and for a miner without
  an Etherbase account, whose `StartMining` fails.

A panic in either goroutine ends the process. `stopSig` is never closed, so its select branch
cannot fire and is not modelled.

**GenesisInit.** A genesis is named by its timestamp: two runs in the same second build the same
block. The actions are:
- `StartInit`: load the descriptor, take the time;
- `SetupGenesis`: write the genesis, or accept an identical one;
- `GenesisMismatch` and `OpenFails`: utils.Fatalf;
- `Finished`.

Under `nofreezedb`, the freezer accessors fail and the block-0 lookup goes to the key-value
store, so `StoredGenesis(n)` is the node's stored genesis.

**Tracker.** The state is the expiry list, the pending map (id to age in ticks), the timer state
and the number of timer runs since the last tick.
- `Clean` drops the longest dead prefix and re-arms the timer through `Schedule`.
- `Tick` is time passing. Ages are capped at `Timeout + Slack`, the largest age any comparison
  reads.
- The file has no `Track`, so `TrackerInit` is any state `Track` could have built.

**BadgerDB.** badger itself is the environment, with its documented behaviour; it is not in
`src/`.
- A `WriteBatch` commits what it holds when its transaction reaches `TxnLimit` entries (`WbAdd`).
- `Flush` commits the rest and finishes the batch (`BatchWrite`).
- `Cancel` drops what is pending (`BatchReset`).
- An iterator reads the snapshot of its read transaction, seeks to the first key at or after
  `prefix ++ start`, and is valid while the key has the prefix.

Value buffers are kept by reference, as the code does. `Scribble` is the caller rewriting a
buffer it handed over. `BatchReplay(kv)` is what `Replay` writes into a writer whose contents
were `kv`.

## 3. Runs

| Run | Cfg | Checks | Shows |
|---|---|---|---|
| blocks_barrier | `MC_BenchBlocks.cfg` (3 nodes on a line, Target 3, fair) | `TypeOK`, `NoFork`, `ReachesTarget` | the barrier keeps one chain while blocks are two hops away, and the driver reaches its target |
| blocks_exit_early | `MC_BenchBlocks_exit.cfg` | `ExitConverged` (violation) | the driver exits after the last `Work()`, with every node one block short |
| txs_barrier | `MC_BenchTxs.cfg` (3 nodes, Target 3, MaxSent 3) | `TypeOK`, `IssuedPropagated` | every earlier transfer reached every pool or chain, despite one-at-a-time reads |
| txs_exit_early | `MC_BenchTxs_exit.cfg` | `ExitAfterTarget` (violation) | unconverged polls end the run with no confirmed transfer |
| peergen_scenario | `MC_PeerGen.cfg` (4 nodes, 1 miner, peers 1..2, fair) | `TypeOK`, `ValidTopology`, `DegreeCapped`, `Terminates` | gen terminates with a valid symmetric topology |
| peergen_stuck | `MC_PeerGen_stuck.cfg` (peers 2..2) | `CanProgress` (violation) | `setPeers` can build a triangle and spin forever on the fourth node |
| continuous | `MC_Continuous.cfg` (3 nodes, rates 1, 2, 600, 700 at 1 s, both versions, fair) | `TypeOK`, `SentPairsValid`, `WorkOnMiningNodes`, `WorkloadLiveWhenValid` | pairs are distinct non-miners, `Work()` only on mining nodes, and for a descriptor meeting the spec's conditions both tasks run forever |
| continuous_live | `MC_Continuous_live.cfg` | `WorkloadLive` (violation) | configuration errors surface as an empty run, a spin or a late panic |
| initcmd | `MC_InitCmd.cfg` (3 nodes, 3 runs over 2 seconds; 3 requests, timeout 2, grace 1) | `InitDoneConsistent`, `TrackerConsistent`, `ExpiryRefined`, `AllExpire` | an `init` that returns leaves its roster on its genesis whatever failed runs left; the tracker stays consistent, implements `ExpiringSet` (each `clean` drops exactly the dead requests) and drops every request eventually |
| tracker_wake | `MC_Tracker_wake.cfg` | `OneWakePerTick` (violation) | `clean` runs again and again in the 5 ms window |
| density_degree | `MC_PeerDensity_degree.cfg` (8 nodes, target 3) | `DegreeFollowsTarget` (violation) | the expected degree is 2.27, not 3 |
| badger | `MC_BadgerDB.cfg` (3 keys over bytes {0,1}, 2 values, 1 buffer, transactions of 1 entry, batches of 2, prefix 0) | `IteratorYieldsRange`, `BatchHoldsTail` | an iteration reads exactly the snapshot's keys in range, in order, across concurrent writes; across badger's early commits, resets and Writes the WriteBatch holds exactly the latest operations of `batch.ops` |

`MC_InitCmd` checks the two components of `initcmd.go` in one model. They share no variable, and
each one's steps leave the other's state unchanged.

**Bounds.**
- Three nodes on a line is the smallest graph in which a block or transaction needs two hops.
- Rates 600 and 700 at a 1 s period give the same 1 ms interval, and rates 1 and 2 give reversed
  intervals that wrap.
- `Width = 16` keeps the numbers small. Every value of the interval arithmetic fits in 16 bits,
  as it does in 64, so the sign of `TimerArg` is the same.
- Two seconds and three `init` runs let a run fail half-way and a later run meet what it left,
  in the same second or in the next.
- Timeout 2 with grace 1 lets a head be due for its timer and not yet dead, and two timer runs
  per tick let a `clean` that drops nothing be followed by another.
- For badger, keys `0`, `0 1` and `1` make a prefix iteration stop before `1`, and start key `1`
  seeks past the first key with the prefix. A transaction of one entry and batches of two
  operations make the second `Put` or `Delete` of a batch commit the first early, so the early
  commit, a reset after it and a `Write` after it all occur. Larger limits (transactions of 2,
  batches of 3) hold too but take eight minutes.

Every mutant in `PROJECT.json` is caught by its property under these bounds.

**Fairness.**
- `BenchBlocks`: `WF` on the driver, which never blocks outside the barrier, and on each node's
  `Mine` and `Import`, because the nodes are correct collaborators.
- `PeerGen`: `WF` on the loop, because a uniform draw names every candidate with probability 1.
- `Continuous`: `WF` on `SetupNode`, `Launch`, `AllClosed`, `TxTask` and `SealTask`. The Go
  scheduler does not starve a runnable goroutine, and timers fire. A setup failure and the sync
  event of `SyncClose` are external and get no fairness.
- `Tracker`: `WF` on `Tick`, because time passes, and on `Clean`, because a due `AfterFunc`
  timer runs its function.
- `BenchTxs`, `GenesisInit` and `BadgerDB` are checked for safety only.

## 4. Proofs (TLAPS)

Seven modules hold proofs. Each one EXTENDS the model it is about and `TLAPS`. Each proof follows
the same plan:
- find an inductive invariant `IInv` and check it with TLC as an invariant of the run first;
- prove `Init => IInv`;
- prove one lemma per action that the action preserves `IInv`;
- combine the lemmas in `NextIInv` with a case per disjunct of `Next` and one for stuttering;
- conclude each theorem `Spec => []P` with `IInv => P` and PTL.

The theorems hold for every value of the constants that the named ASSUMEs allow.

**BenchBlocksProofs** (`N >= 1`, `Target >= 1`, any `Peer \in [Node -> SUBSET Node]`) proves
`NoForkTheorem` (`Spec => []NoFork`) and `TypeCorrect` (`Spec => []TypeOK`).

`NoFork` is not inductive. Its strengthening `IInv` is `TypeOK /\ NoFork` with these parts:
- `HeightBound`: no node is above `curHeight`.
- `WorkPending`: at most one `Work()` is pending. It is on a node one block below, and every node
  is below `curHeight`. This is what makes a new block extend a chain that every other chain is a
  prefix of.
- `PollSeen`: while a poll has counted nothing, the nodes read so far are at `curHeight`. This
  part is needed because the reads are not atomic.
- `BarrierPassed`: after the break, every node is at `curHeight`.
- `CounterBound`: `counter <= idx - 1`.

**GenesisInitProofs** (any `Node`, any nonempty `Times \subseteq Nat`, any `MaxRuns`) proves `InitDoneTheorem`
(`Spec => []InitDoneConsistent`) and `GenesisTypeCorrect`. `InitDoneConsistent` speaks only of a
run that has returned. Its strengthening `DoneHoldGenesis` says that during a run every node
already taken off the to-do list holds this run's genesis, whatever failed runs left there before.
`pc = "done" => todo = {}` links the two.

**ContinuousProofs** (any roster, miner set, Boolean flags, periods in `Nat`, rates in `Nat \ {0}`, both versions) proves
`SentPairsTheorem` (`[]SentPairsValid`), `WorkOnMiningTheorem` (`[]WorkOnMiningNodes`) and
`ContinuousTypeCorrect`. The strengthening `TaskState` is needed for three reasons:
- `mining` is exactly the started nodes for which `MiningEnabled` holds;
- once a task runs, setup has started the whole roster;
- the sealer the timer is armed for is in the miner set, and the tx task's `from`/`to` are
  senders and differ once the redraw loop has passed.

Lemma `MinerMines` shows that both versions' `MiningEnabled` hold on every miner. That is the
argument behind `WorkOnMiningNodes`.

`TimerPanicIffEqual` is about the arithmetic of `generateConfig` and the transaction task. Take any
period and rates `lo <= hi`, and suppose the longest interval is below `2^(Width-1)`. Then
`int(sleepMax - sleepMin)` is `<= 0`, so that `rand.Intn` panics, exactly when the two intervals
are equal. This is the finding that equal intervals panic, shown to be the only panicking case.
It rests on the lemmas below.
- `DivAntitone`: dividing by a larger rate gives a smaller interval.
- `GenIntervalsOrdered`: the two intervals are ordered.
- `TimerArgOrdered`: neither the subtraction nor the reading as int wraps.

`Word = 2^Width > 0` is a hypothesis of these lemmas, not something they derive. It is true for
every width, but none of the installed provers knows anything about `^`.

**TrackerProofs** (`Timeout`, `Slack`, `MaxWakes >= 1`, any `Id`) proves `TrackerConsistentTheorem`
(`TrackerSpec => []TrackerConsistent`) . The strengthening `TrackerIInv` adds that:
- the list holds ids;
- the map gives each listed id an age in `0 .. Timeout + Slack`.

Both `Tick` and `Clean` are proved to preserve it. `Clean`'s case shows four things:
- dropping the first `k` entries of an injective list removes exactly those ids;
- the rest stays injective;
- the rest stays in non-increasing age order;
- `schedule` sets `wake` to nil exactly when the list becomes empty.

The refinement below needs `DeadPrefix(Cap)` to be a prefix of dead heads, that is, that the
`CHOOSE` of the longest one finds it. Lemma `DeadPrefixIsLongest` proves this, with `BoundedMax`, by the
same well-foundedness argument.

`ExpiryRefinedTheorem` (`TrackerSpec => ExpiryRefined`) is the refinement of `ExpiringSet`. It
maps the abstract set of requests to the map `pending` and hides the list, the timer and
`wakes`.
- A `Tick` is an `Age` step.
- A `Clean` is an `ExpireDead` step: it drops *every* request at least `Cap` old, not just a
  prefix of them.

The second point is where the proof has work to do. `clean`'s loop breaks at the first live
head (initcmd.go:177). Lemma `CleanDropsAllDead` shows that every request behind that head is
younger:
- the head after the dead prefix is live, by the maximality in `DeadPrefixIsLongest`;
- ages along the list do not increase from any entry to any later one (`AdjacentToPairwise`).

`TrackerConsistent` keeps only the order of neighbours, so `AdjacentToPairwise` spans the gap.
Its proof takes the least position that breaks the order (`LeastExists`, by `WFMin`), so no
induction is needed. The refinement says nothing about when clean runs. A `clean` that drops
nothing is a stutter, and that clean eventually runs is the liveness property `AllExpire`, left
to TLC.

**PeerGenProofs** (`N >= 1`, `NumMiners \in 0 .. N`, `MinPeer <= MaxPeer`) proves
`ValidTopologyTheorem` (`Spec => []ValidTopology`), `DegreeCappedTheorem`
(`Spec => []DegreeCapped`) and `PeerGenTypeCorrect`. The strengthening `IInv` adds these parts:
- `MinersCounted`: the miner loop never overshoots, and it has exactly `NumMiners` once it ends;
- `PeerSymmetric` and `NoSelfPeer`, which every accepted draw keeps;
- "done" implies `DegreesOK`, since only a `check()` that held leads there.

An accepted draw adds one to two degrees. The cardinality facts come from the library's
`FiniteSetTheorems` (`FS_Interval`, `FS_Subset`, `FS_AddElement`). Node `i` was below `MinPeer`
and `j` below `MaxPeer`, and symmetry shows that `i` was not yet a peer of `j`.

**BenchTxsProofs** (`N >= 2`, `Target >= 1`, `MaxSent >= 1`, any `Peer`) proves
`IssuedPropagatedTheorem` (`Spec => []IssuedPropagated`) and `TxsTypeCorrect`. The strengthening
`IInv` adds these parts:
- `SendReady`: when the driver is about to send, every transfer sent so far is at every node. The
  loop only comes back to "send" after a poll that counted nothing.
- `PollSeen`: while a poll has counted nothing, the current hash is at every node read so far.
  This is the one-at-a-time read of the pools, as in `BenchBlocksProofs`.
- `CurIsLast`: the current hash is the last transfer or the zero hash of a failed send. The zero
  hash is in no pool, so a poll for it always counts a node and never passes.
- `TxNumBelow` and `CounterBound` keep the counters in range.

The nodes' steps (`MineTxs`, `Gossip`, `ImportBlock`) are covered by one lemma, `NodesGrow`. It
says that what a node holds in its pool or its chain only grows. So nothing the driver has seen
is lost later, whichever node mines or gossips.

**BadgerDBProofs** (`BadgerAssumption` only: any keys, values, buffers, transaction limit and
batch size) proves `BatchHoldsTailTheorem` (`Spec => []BatchHoldsTail`). Until `Write`, the
WriteBatch's pending list is the last `Len(wb.pending)` operations of `batch.ops`, and it is
non-empty while `ops` is. No bound on the batch is assumed: the theorem holds across badger's early
commits. The strengthening `BatchIInv` adds only the shapes of the WriteBatch and of `ops`.
- `Put` and `Delete` append the same entry to both lists (lemma `AppendToTail`: appending to a
  sequence appends to each of its tails), or find the transaction full, and then the WriteBatch
  keeps the new entry alone, the last of `ops`.
- `Write` finishes the WriteBatch, and `Reset` empties both lists.

The theorems are stated for the components' own specifications. `MC_InitCmd` checks the same
properties of the composed model with TLC.

**Left to TLC.**
- Liveness (`ReachesTarget`, `Terminates`, `WorkloadLiveWhenValid`, `AllExpire`). The provers do
  not handle fairness or ENABLED.
- `PeerDensity` and `BadgerDB`.
  - `IteratorYieldsRange` compares the iterator's walk with `SetToSortSeq` of the range. It
    needs two lemmas: that keys with a prefix are contiguous in byte order, and that a set has
    only one sorted sequence. The second needs induction over sequences, which the provers
    cannot instantiate.
  - `PeerDensity`'s only property is the violated `DegreeFollowsTarget`. Its expected degree is a
    `MapThenSumSet` over the nodes, whose value for every `N` would need induction over sets.
- The violation runs.

No module uses RECURSIVE operators; the folds of `BadgerDB` use `FoldLeft`.

## 5. Findings

- **Block benchmark** (main.go:634): the process exits right after `Work()` on the last sealer,
  so no node has the last block. The spec says every node is at H.
- **Transaction benchmark** (main.go:586-591):
  - The barrier waits for the hash to be in every pool, not for it to be mined.
  - `txNum` counts polls that did not converge.
  - A dropped send error leaves the zero hash, which converges nowhere.
- **Generator** (gencmd.go:111): `setPeers` has no iteration cap and can spin forever for
  feasible bounds.
- **Continuous run** (main.go:199 and the task code): configuration errors are not surfaced
  before the workload starts:
  - a missing descriptor runs an empty roster;
  - one non-miner makes the destination loop spin;
  - zero miners panic after startup;
  - equal intervals panic in `rand.Intn`.

  A miner without an Etherbase is not such a case: `StartMining` stops setup with `utils.Fatalf`
  (main.go:314-316), so the sealing task's return on an `Etherbase` error (257-260) cannot
  happen and is not modelled.
- **Tracker** (initcmd.go:176, 193): the timer is armed for `timeout` but `clean` waits for
  `timeout + 5ms`, so within that window `clean` re-runs at once, repeatedly.
- **Density policy** (main.go:1544): for an odd target the expected degree is `Target - 0.75`
  (2.25 for 3 with exact probabilities, 2.27 with the code's draws of
  `rand.Intn(100)/100`), and the gap does not shrink with N. The spec says it converges to the target.

The following are listed as hazards but have no run:
- A node with no peer, which the density policy can produce, stalls the block barrier forever.
- A badger batch longer than one transaction commits part of itself before `Write`, against the
  comment on `batch`. The badger run reaches this, and `BatchHoldsTail` states what the wrapper
  keeps across it. All-or-nothing commit is not checked: badger breaks it by design.
- A reused buffer changes what `Write` and `Replay` store.

## 6. Not modelled

| Part | Why |
|---|---|
| The node collaborator (consensus, pools, p2p) | It appears only as environment actions. Forks from concurrent sealing inside geth and pool eviction are not modelled. |
| The freezer index entry (`part_001`) | `nofreezedb` never uses it. |
| The Ethash stub, CLI flags, the Makefile and JSON encoding | Empty code, flag parsing or I/O. |
| badger's `Has`, `Get`, `Stat`, `Compact` and snapshot | Reads that change no state. |
| Sleep lengths, including the jittered sealing period of the third version | The model does not time the tasks; a timer only orders steps. |
