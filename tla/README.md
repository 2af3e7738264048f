# Verification of the HotStuff replica

TLA+ models of the replica in `src/`, TLC runs over small instances, and proofs checked by TLAPS.
`PROJECT.json` maps every definition to the lines it models, and lists runs, mutants, hazards and
theorems.

## The system and its inventory

A replica votes on blocks proposed by a leader and commits a block once three certified direct
descendants follow it (chained, three-step HotStuff). It consists of these parts:

| part | source | module |
|---|---|---|
| consensus core: `update`, voting rule, lock, commit, restart | `hotstuff/consensus.*` | `HotstuffCore` |
| blocks, certificates, quorum sizes | `hotstuff/block.*`, `crypto/certs.*`, `config/replica_config.cc` | `HotstuffCore`, `HotstuffApp` |
| proposing, waiting for certificates, pacemaker | `hotstuff/hotstuff.*`, `include/hotstuff/liveness.h` | `HotstuffApp` |
| event queue | `event_queue.cc`, `generic_event_queue.h` | `HotstuffApp` (`events`) |
| speculative VM bridge, gadget, control interface, VM thread | `hotstuff/vm/*` | `VMBridge` |
| network event queue, block store, fetch manager, workers, server | `network_event_queue.cc`, `block_storage/*` | `BlockFetch` |
| garbage collector | `block_storage/garbage_collector.*` | `Recovery` (the thread), `BlockFetch` (the race of its flush with the fetch server) |
| decided index, access to it for the VM | `lmdb.*`, `log_access_wrapper.*`, `vm_block_id.h` | `Recovery`; `HotstuffCore` (`decided`, `b_exec`) |
| block files | `block_storage/io_utils.cc`, `utils/hs_save_load_xdr.h` | `Recovery` (`files`) |
| construction, `init_clean`, `init_from_disk` | `hotstuff/hotstuff.*` | `Recovery` |
| nonspeculative VM bridge | `vm/nonspeculative_vm_bridge.*` | `Recovery` (`setup.bridge`), without its proposal buffer |
| protocol clients and servers | `protocol/*`, `nonblocking_rpc_client.h` | `ProtocolClient`, composed with `BlockFetch` in `Delivery` |
| cryptography, XDR, logging, factories | | not modelled |

Threads of one replica: the application thread proposes and runs the pacemaker; the network-event
thread makes sure that the predecessors of a block are stored; the event thread runs the core and,
within a commit, the bridge; the VM thread executes and proposes VM blocks; one worker per peer
fetches blocks and one client thread per peer sends to it; the collector flushes old bodies.
`proposal_mutex` orders `do_propose` and `update_hqc`; the gadget has a mutex that is held across
waits.

## The modules

**`HotstuffCore`** models all replicas. `tree` is the content of every block minted, `proposals` and
`votes` are the messages ever sent: a message is delivered any number of times, in any order, or
never. The other variables carry the names of the fields in `consensus.h`; `decided` is the index,
`disk` the blocks written, `halted` the replicas whose event thread threw.

- Actions: `do_propose`, `on_receive_proposal` (vote, then `update`: certificate, lock, commit),
  `on_receive_vote`, and `reload_state_from_index` for the replicas in `Amnesiac`.
- Parent walks are membership in the set `anc` of ancestors.
- `on_receive_vote` is the step of the vote that completes a quorum. It may be repeated and it
  identifies block objects by hash, so it allows more than the code; `HotstuffApp` keeps the objects
  of one replica apart.
- `vheight` is stored modulo `VHeightModulus`, as the `uint32_t` it is.
- Replicas follow the code. The only fault is a restart, and a restart happens only when something
  has been decided: with an empty index `get_highest_qc` throws.

**`ReplicatedLog`** is what the core promises: logs that only grow, any two comparable by prefix.
`ImplementsLog` maps the decided blocks of `HotstuffCore`, by height, to it.

**`VMBridge`** models the state machine side of one replica with three threads: `user` and `event` are
the program counters of the application and event threads, `run` is a round of the VM thread. What
consensus proposes and decides is left open, so the results hold for any use at consecutive heights.
`spec_mtx` is the gadget's mutex. The machine is `CountingVM` from `examples/vm`.

**`HotstuffApp`** composes a whole replica `self` (core, event queue, bridge, pacemaker) with peers of
which it has the core and, of their VMs, only what they propose. It extends `HotstuffCore` and
instantiates `VMBridge`. `store` and `leaf_proposer` record which of two block objects with equal
hashes is referred to. Handling a proposal is one step of the core followed by the bridge's steps for
each decided block. Once its leadership is stable a peer (`peer`) may propose any VM value: the value
is its VM's counter plus one (`counting_vm.h:81-85`), and nothing ties that to its leaf, since
`update_hqc` may set `b_leaf` back and leaves the VM where it is, and `exec_block` skips values out of
turn (`counting_vm.cc:24-29`).

**`BlockFetch`** models one replica's way from network events to the core. Each message has a number.
`outstanding` holds parked events, `reqs`, `inflight` and `answers` the state of the workers.

- The two `add_fetch_request` calls of one event are one step, since only their thread parks events.
- A peer that flushes a body while it copies it into an answer sends a damaged block, which the hash
  check drops: `fetch` leaves any such blocks out.
- The blocks of a response are posted in any order, one of which is the order of the hashes.
- Senders are correct, so validation succeeds otherwise.
- `do_gc` and the list of who was asked have no effect on what is asked for, and are left out.

**`ProtocolClient`** is the way of a message from a peer's client into the server: `work` and `todo`
are the list others fill and the one `do_work` is at, `open` says whether there is a connection. A
call returns, breaks before it gets to the server, or breaks after that, and is then made again.

**`Delivery`** composes the two: what the server handles is what `BlockFetch` receives.

**`Recovery`** is about one replica's disk and memory over several lives of the process. Consensus is
given as a chain of blocks with their certificates; `files`, `index` and `cert` survive a crash, all
else is lost.

- The event thread takes `update` in steps, one per effect: `update` (certificate, lock),
  `write_to_disk` (the flag, and the file is emptied), `save_block` (the file is written and synced,
  or a flushed body with it: `hollow`), `open_txn`, `apply_block` per decided block, `commit`. A
  crash may come between any two.
- The application thread goes through `construct`, then `init_clean` or `init_from_disk` with one step
  per entry of the index, for the store and again for the state machine. The other threads run from
  `construct` on, as the constructor starts them.
- `setup` chooses the bridge and the state machine: `CountingVM`, or one that ignores empty bodies, as
  `vm_base.h` has it. The bridge is reduced to what a restart can confuse: the height the gadget
  expects (`head`) and the commands given to the machine (`vm`). `VMBridge` has the rest.
- A `VMBlockID` on its way to the index and back is modelled by what `serialize` and the constructor
  do: the empty id comes back with a value.
- `early` records that a peer's message got ahead of `init_from_disk`: a decided block came into the
  store before its file was loaded, or `update` ran while there was an index still to be loaded.
- An uncaught exception ends the process; `failures` collects the reasons.

`HotstuffCore` does not model the store because `BlockFetch` proves it closed under predecessors, and
`HotstuffApp` (`StoreComplete`) that the blocks a replica's core refers to are in it.

## Runs

| run | instance | checks |
|---|---|---|
| `core` | 3 replicas, 2 proposers, three starting points: genesis (height 3, 4 blocks), a partition with a lock on one side (7, 10), and one healed before anyone is locked (7, 9) | `LeafExtendsCertificate`, `CommittedForever`, `DecidedOnDisk`, `IInv`, `Agreement`, `NoSafetyBreach`, `ImplementsLog` |
| `core_restart` | 4 replicas, one of which reloads, after a decision | `CommittedForever`, `OwnLogKept`, `ImplementsLog` |
| `bridge` | heights and values to 3, buffer target 2 with refill, fair threads | `SpeculationContiguous`, `NeverThrows`, `BufferBounded`, `IInv`, `NoCommitmentSkipped`, `ProposalServed`, `CommitmentDelivered` |
| `app_leader` | one replica that leads itself to height 8, buffer target 2 without refill, fair | `VMInSync`, `PacemakerProgress` |
| `app_follower` | 2 replicas, `self` follows, VM blocks with any of 2 values or none, heights to 8 | `SyncInv`, `VMReplays`, `ImplementsBridge` |
| `app_change` | 2 competing proposers, cancelled waits, height 3 | `StoreComplete`, `CertifiedWhenWoken`, `ImplementsCore` |
| `fetch` | 4 blocks, 2 peers with a client each, 1 message of each or 2 of one with a lost answer, a flushable and an own block, fair | `TypeOK`, `Conserved`, `PredecessorsStored`, `AlwaysAsked`, `AskInv`, `InOrder`, `ClientInv`, `AllHanded` |
| `recovery` | 7 blocks, both bridges, 3 starts, bodies kept for 1 block, fair | `Recoverable`, `FailsForAReason`, `EachCommandOnceUnlessEarly`, `KeepsRecentBodies`, `IInv`, `DecisionsDurable`, `CatchesUp` |

The type invariants of `HotstuffCore`, `VMBridge` and `Recovery` are part of their `IInv`.

`VMInSync` and `VMReplays` are about the VM of `self` at times when no block that went to the gadget
waits to be executed. `VMInSync` is for a leader that is alone and waits: the VM blocks are 1, 2, 3, ...
in order of height, and the VM is ahead of them by the buffered proposals. `VMReplays` is for a replica
that never proposes: its counter is what executing the decided bodies in order of height, each once,
gives. It says what the bridge and the threads owe the VM, whatever the values are; it does not say
that a value out of turn is executed, which `CountingVM` does not do.

**Bounds.** A commit needs a chain of four blocks, and a conflict two such chains, which is out of
reach from genesis. The scenarios of `MCHotstuffCoreScripted` (and `app_follower`) therefore start
with a fixed prefix, a reachable behaviour of the same actions, and explore everything their bounds
allow from there. In both partitions a block of each side can still be certified, locked and
committed; the mutants show that a missing lock, a missing height check and an early commit are
found. After a prefix each replica proposes its own body only, so the blocks of the two sides
differ; from genesis they share one, so that both may mint the same block. In `app_follower` and
`app_change` the VM of `self` proposes nothing (`BufferTarget = 0`). `app_follower`
has two prefixes: three empty blocks, then blocks whose bodies are left open (none, 1 or 2, so a value
may be repeated or skipped), with the first blocks decided and passed on. In one the leader waits for
every certificate, and height 8 lets `self` decide two VM blocks one after the other. In the other it
proposes block 5 without the certificate of block 4, and `self` decides blocks 2 to 5 in one commit.

In `fetch` the choice of `Budgets` has two messages of different peers, and two of one peer of which
one may be repeated; `MaxReceived` is their number with the repetition. The messages are the
proposals of the two highest blocks, whose predecessors are missing, and a vote. In `recovery` block
3 certifies block 1 and not its parent, so the first commit takes three blocks at once and can be
cut off between them; the chain then commits one block at a time, up to block 4. Two of the four
have a command. Three starts let a crash meet what an earlier restart has loaded or written again.

**Deadlock** is not checked: at the bounds the models stop, and a replica without messages is idle.

**Fairness.** Weak fairness of a thread's next step: the operating system runs every thread, and
every change a condition variable waits for is followed by a notification. Strong fairness of
`fetch(p)`: a call may fail any number of times and is repeated, and a peer that is asked again and
again answers at some point; nothing weaker gives termination. The same holds for a client's call
(`handle_call /\ call`). `Recovery` has weak fairness of the application and event threads and of
the arrival of blocks, and strong fairness of `update(n)`: a proposal waits while the event thread
is at another one, and the leader's proposals keep coming until it has had its turn. Nothing is
assumed of `crash`, `construct` and the collector; `CatchesUp` is about replicas that stay up.
Elsewhere no fairness is assumed for proposing, for messages of other replicas, or for the
application's orders to the VM. `PacemakerProgress` is therefore checked for a replica whose own
vote is a quorum.

### Where the code and its documentation disagree

Each of these runs ends in a violation of what a comment or the README says.

| run | what it shows |
|---|---|
| `core_split` | `nfaulty` is n/3 rounded down, "num faulty tolerated". With n = 3 one replica that restarts and only votes makes two others decide different blocks: with n a multiple of 3 quorums overlap in n/3 replicas only |
| `bridge_rewind` | `apply_block` locks a mutex that `clear()` locks again: a decided block that differs from the speculated one stops the event thread (`hotstuff_vm_bridge.h:100`) |
| `recovery_empty` | an empty block that was decided makes `CountingVM` fail at the next start: its id does not survive the index, and the empty body is parsed. `vm_base.h:39` says an empty body is "Just ignored", and the repository's `README.md:73` that the state machine can access all it needs to recover |
| `recovery_early` | the servers run before `init_from_disk`; a peer's copy of a decided block that gets in first is taken for an unwritten one, and `update` empties its file, although "we won't ever have lost data" (`consensus.cc:46`) |

Others have no run:

- Past height 2^32 `vheight` is not the height last voted at (`consensus.h:42`): `consensus.cc:164`
  truncates. The model stores it modulo `VHeightModulus`, and the proofs assume `VHeightWide`.
- Without waiting for certificates (`Pacing = "eager"`) the VM and the gadget get out of sync, as
  `update_hqc` sets `b_leaf` back (`liveness.h:33`, `speculative_exec_gadget.h:16`): `VMInSync` fails. The
  leader's values then skip some. Followers stay together (`VMReplays`), but their `CountingVM` executes
  none of these blocks, while `log_commitment` (`counting_vm.cc:33`) still takes over their values.
- The comment at `vm_control_interface.cc:114-118` deems it possible that a later commitment overwrites
  one the VM has not been told of. That cannot happen (`NoCommitmentSkipped`): `log_commitment` waits
  until the VM thread has nothing to do, and only the event thread leaves commitments.
- A leader that waits does not defer to another replica whose blocks are certified, as `liveness.h:36`
  has it: only certificates it collected itself wake it.
- The nonspeculative `apply_block` dereferences the null pointer that `try_parse` returns for an empty
  body (`nonspeculative_vm_bridge.cc:80`). In `recovery` this is the failure "empty body", which
  `FailsForAReason` leaves out.
- At shutdown `wait_for_try_open_connection` returns without a connection, and the call goes through a
  null client (`nonblocking_rpc_client.h:142-145`); shutdown is not modelled.
- After a restart `b_lock` is `b_exec` (`consensus.cc:180-181`) and not above it, as
  `block_store.h:75` has it.
- A replica that takes the lead on top of another leader's undecided block has the speculated pair of
  its proposal dropped, which `speculative_exec_gadget.h:121` expects in tests only.
- A leader proposes its first VM block when three of its blocks are chained (`block.cc:77-85`), one
  step before one of them has committed, which is when the repository's `README.md:56` says it does.

## Proofs

The theorems are in eight modules. `VMBridgeProofs`, `DeliveryProofs` and `RecoveryProofs` are about
the components they are named after. The other five extend each other: `HotstuffCoreProofs`;
`HotstuffAppFacts` and `HotstuffAppSteps` (lemmas about the steps of the whole replica);
`HotstuffSyncFacts` (lemmas about its VM); `HotstuffAppProofs` (the theorems about the replica).

**The consensus core** (`HotstuffCoreProofs`), for any finite set of replicas, blocks and bounds. Some
of it depends on nothing else:

- `TypeCorrect`, and `LocalInvariance` with the inductive invariant `LocalInv`: the tree is well formed,
  every pointer of a replica refers to a certified block, and what the replica has decided is one
  chain, which ends in a committed block. A step of one replica can only add certificates, so none
  breaks what another relies on; `UpdateLocal` and `HoldsStep` are the lemmas.
- `LeafExtendsCertificateHolds`, and the action property `OwnLogKeptHolds`: a replica only extends what
  it has decided. This holds where `Agreement` does not, as in `core_split`: there `update()` throws
  rather than leave the chain it has executed.

The other theorems assume

- `FaultsTolerated`: two quorums share more replicas than may restart,
  `2 * nmajority - n > |Amnesiac|`;
- `VHeightWide`: heights fit `vheight`.

`core_split` shows what happens without the first. The inductive invariant `IInv` has the tree
(`TreeInv`), what each replica holds (`ReplicaInv`) and what its votes promise (`VoteInv`); it
implies `LocalInv` (`LocalPart`), whose preservation is used for this part of it.
`Agreement` alone is not inductive: it says nothing about votes already sent. The decisive conjunct
of `VoteInv`: if a replica with memory voted for m and later for a higher n, n extends a certified
block no lower than the one m's vote locked. For a committed b and a certified w at or above it,
take the lowest such w that does not extend b. The quorums of w and of the third block of b's chain
share a replica with memory; its vote for w rests on a certified block that is lower than w and no
lower than b, which extends b by minimality, and w extends it. This is `CommittedForever`;
`Agreement` (`AgreementHolds`), that `update` never throws (`NoSafetyBreachHolds`),
`DecidedOnDiskHolds` and the refinement `Refinement` (`Spec => ImplementsLog`) follow.

**`VMBridgeProofs`**, for every buffer target and bound: `BridgeInvariance` with `IInv`, which adds
to the properties who holds the gadget's mutex where (`LockDiscipline`) and that a decided block
keeps its place until committed (`CommitPending`). From it `BridgeTypeCorrect`,
`SpeculationContiguousHolds`, `NeverThrowsHolds`, `BufferBoundedHolds` and the action property
`NoCommitmentSkippedHolds`.

**The whole replica** (`HotstuffAppProofs`), for any number of replicas and peers, every pacing of the application, every
buffer target and all bounds, under `FaultsTolerated` and `VHeightWide`. It joins the proofs of the
core and of the bridge (which it instantiates) into results about one replica made of both:

- `AppImplementsCore`: every step of the replica, of whichever thread, is a step of `HotstuffCore` or
  leaves it alone. Two things could go wrong: an own message comes back through the event queue later
  than it was sent, and a vote counts on one of several block objects with one hash. `MessageInv`
  settles both: what is in the queue, and every vote counted on any object, was sent.
- `AppImplementsBridge`: consensus uses the bridge as `VMBridge` lets it. The bridge only knows the
  committed height, the core only the decided blocks, and a commit of several blocks leaves them apart
  for many steps. `QueueInv` ties them: the blocks still to be passed on are decided, one per height,
  from the height the bridge is done with to `b_exec`. That proposals come above the committed height
  needs `CertificateInv` (`b_exec` is no higher than `hqc`, which `b_leaf` extends).
- `AppInvariance`: the inductive invariant `AppInv` consists of `IInv` of the core, `IInv` of the
  bridge and these. `ValueInv` keeps the VM's counter within what `TopValue` and `BufferTarget`
  allow, which is what makes a VM block a `Body` of the core; `OwnInv` says that votes come to `self`
  only for blocks it has stored.
- `StoreCompleteHolds`, the action property `CertifiedWhenWokenHolds` and `ReplicaSafe` (agreement,
  the log, no exception from the bridge, for the replica as a whole) follow.

Each conjunct of `AppInv` has a lemma (`BodyStep`, `MessageStep`, `QueueStep`, `OwnStep`, `StoreStep`,
`CertificateStep`, `ValueStep`); `SelfMoves` says which steps move the pointers of `self` at all.

**Its VM** (also `HotstuffAppProofs`), under the same assumptions: `SyncInvariance`;
`VMReplaysHolds` if `self` never proposes (`Follows`), whoever else proposes whatever; and
`VMInSyncHolds` if `self` is the only proposer and waits for the certificate of each block
(`LeadsAlone`). For a leader that does not wait or takes over, `VMInSync` may fail (see the notes
above). Both properties compare the VM's counter with what is decided and speculated, and say nothing
of the steps between a decision and its execution, nor of the chain. `SyncInv` adds to `AppInv`:

- for a follower `FollowInv`: the gadget holds at most the block being committed, the VM has executed
  everything below it, and either it as well or still owes it (`Owed`). Where the VM gets over the chain
  below a block is `Counter`, defined by recursion on the bodies from genesis on (`Path`);
  `CounterStep` says how it grows from parent to block, `CounterStable` that no step changes it. One
  lemma for each step of the hand-over: `FollowApply`, `FollowPass`, `FollowRun`; `FollowCore` says that
  what consensus decides meanwhile is above the gadget.
- for the leader `BodyOrder`: along every branch the VM blocks are 1, 2, 3, ..., and a block adds none
  or the next (`NextAfterParent`).
- for the leader `LeadInv`: all blocks are its own and form one chain, of which only `b_leaf` may lack
  its certificate. So the vote that completes a quorum certifies `b_leaf` (`LeadCounts`), `update_hqc`
  never sets `b_leaf` back, and the announcement that wakes the pacemaker is the expected one
  (`LeadWoken`). `AheadInv`: the gadget reaches up to `b_leaf` and agrees with the chain, so each
  decided block is found at its front (`AheadVM`) and nothing is executed twice.

`LeaderInSync` (with `RanInOrder`) derives `VMInSync`: the heights the bridge has been through are those
up to `b_leaf`. `FollowerReplays` derives `VMReplays`: they are those up to the last block that went to
the gadget, and the bodies on them are its `Path`.

**Fetching blocks** (`DeliveryProofs`), for every tree and set of peers: `PredecessorsStoredHolds`,
`AskInvariance`, `AlwaysAskedHolds`, `FetchTypeCorrect` and `ConservedHolds`. `AlwaysAsked` exempts
blocks that a peer has flushed. It needs that a peer is only asked for what it knows, which holds since it is asked for predecessors of
what it sent; so its answers leave out only what it has flushed. `Conserved` counts occurrences; its
proof replaces the counts by `OnceInv` (a message that has arrived is in the queue, in one list of
parked events or with the core, at one position; one that has not is nowhere), with a lemma for each
way a message moves: `ArrivalOnce`, `HandedOnce`, `ParkedOnce`.

**Delivery** (also `DeliveryProofs`), for any number of senders, messages and lost answers: `ClientInvariance`,
`InOrderHolds` and `DeliveryImplementsFetch` (`DeliverySpec => Spec`), by which the theorems about
`BlockFetch` hold for messages that come through clients. `InOrder` speaks of arrivals only;
`ClientInv` ties them to the lists: what `work` and `todo` hold are the last numbers sent, without a
gap, and of these at most the first has arrived.

**`RecoveryProofs`**, for a chain of any length with any certificates, any number of crashes and any
keep depth: `IInvariance`, and from it `RecoverableHolds`, `FailsForAReasonHolds`,
`EachCommandOnceHolds`, `KeepsRecentBodiesHolds`, `RecoveryTypeCorrect` and the action property
`DecisionsDurableHolds`, by which the index only grows over all lives of the replica. That the disk is good for a restart is not
inductive, as it says nothing of what is in memory and about to be relied on. `IInv` adds, for
lives in which messages wait for the initialisation:

- `WriteInv`: an object with `written` has its whole file, and so has everything below it, except on
  the path `write_to_disk` is on. The flag is set before the file is there, so this is the delicate
  one: a lock that finds the flag set relies on the whole chain below being on disk.
- `CommitInv`: decided is a prefix of the chain, all of it written; the open transaction holds the
  heights between `b_exec` and the block being applied.
- `LoadInv`: what the store has of the index, and where the cursor is; `b_exec` is the certified
  block.
- `GCInv` and `VMInv`: orders to the collector stay below `b_exec - KeepDepth`; the machine has the
  commands up to the last block applied or replayed.
- `StoreInv` (no gap in the store, a task refers to stored blocks), unconditionally.

The proof takes types and the rest apart (`TypeStep`, `GoodStep`), with a lemma per action. What
an early message can do is in `recovery_early`. `DecisionsDurable` needs `CommitInv` and `LoadInv`: a
transaction holds heights above `b_exec` only, and that is the top of the index in every life.

Assumptions on constants (`ConstantsAssumption`, `BridgeAssumption`, `FetchAssumption`,
`AppAssumption`, `ClientAssumption`, `DeliveryAssumption`, `RecoveryAssumption`) are types, that a
peer's store is closed under predecessors, and that certificates are on lower blocks; TLC evaluates
them.

Only model-checked: liveness (`ProposalServed`, `CommitmentDelivered`, `PacemakerProgress`, `AllHanded`,
`CatchesUp`), which is out of the prover's reach.

## Not modelled

Replicas that deviate from the code; cryptography (hashes do not collide, signatures are not
forged); XDR and logging; names of files and directories, and failing system calls; LMDB itself, whose
commit is taken to be atomic and durable; shutdown; the rewind of the VM behind the deadlock in
`apply_block`; the proposal buffer of the nonspeculative bridge; `rotate_proposers`,
`get_decided_hash_id_pair` and `BlockStore::write_to_disk`, which nothing calls.

A fetched block carries the answering peer as its proposer (`block_fetch_worker.cc:71`), which the
pacemaker may read; `HotstuffApp` takes stored proposers from proposals only.

## Plan

1. Composition of `BlockFetch` with `HotstuffApp`, for the proposers of fetched blocks.
2. The proposal buffer of the nonspeculative bridge, with `ReplicatedLog` as what its VM executes.
3. Liveness of the core under a stable leader; a change of leaders at the level of `HotstuffApp`.
