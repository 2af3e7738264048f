------------------------------ MODULE Recovery ------------------------------
(***************************************************************************)
(* What one replica keeps on disk and in memory, and what is left of it    *)
(* after a crash: block files, the LMDB index with the certificate on its  *)
(* top, the BlockStore with the flags of its blocks, the garbage           *)
(* collector, and the state machine behind the VM bridge.  The event       *)
(* thread, the network-event thread, the collector and the application     *)
(* thread interleave, and the process may end between any two of their     *)
(* steps.                                                                  *)
(*                                                                         *)
(* Consensus is given: the blocks are a chain, block n at height n, whose  *)
(* certificates are those of Justify.  Block 0 is the genesis block.       *)
(***************************************************************************)
EXTENDS Integers, Sequences

CONSTANTS
    Length,          \* the blocks are 1..Length
    Justify,         \* [block -> block its certificate is on]
    Nonempty,        \* blocks with a command for the state machine
    KeepDepth,       \* bodies kept below the last executed block (100 in the code)
    Setups,          \* bridges and state machines to try, see Setup
    MaxStarts        \* bound: the process is started no more often

Block == 1..Length
Setup == [bridge : {"speculative", "nonspeculative"}, vm : {"CountingVM", "ignores empty"}]

ASSUME RecoveryAssumption ==
    /\ Length \in Nat
    /\ Justify \in [Block -> 0..Length]
    /\ \A n \in Block : Justify[n] < n
    /\ Nonempty \subseteq Block
    /\ KeepDepth \in Nat
    /\ Setups \subseteq Setup
    /\ MaxStarts \in Nat

VARIABLES
    files,           \* [block -> content of its file]
    index,           \* LMDB data: [decided height -> bytes of the VM block id]
    cert,            \* LMDB metadata: the block "qc" is on, 0 if there is none
    setup,           \* which bridge and state machine are used
    starts,          \* number of times the process was started
    phase,           \* of the application thread
    cursor,          \* position of the application thread in the index
    store,           \* BlockStore::block_cache: [block -> flags of the object]
    core,            \* HotstuffCore: hqc, b_lock, b_exec
    task,            \* the event thread inside HotstuffCore::update
    txn,             \* the open LMDB transaction
    head,            \* SpeculativeExecGadget::speculation_head_hotstuff_height
    vm,              \* commands the state machine was given since it was initialised
    gc,              \* BlockGarbageCollector
    early,           \* a peer's messages got ahead of init_from_disk
    failures         \* exceptions that have ended the process

disk == <<files, index, cert>>
ghosts == <<setup, starts, early, failures>>
memory == <<phase, cursor, store, core, task, txn, head, vm, gc>>
vars == <<disk, ghosts, memory>>

genesis_object == [decided |-> TRUE, written |-> TRUE, flushed |-> TRUE]
received_object == [decided |-> FALSE, written |-> FALSE, flushed |-> FALSE]

\* mutant: the constructor for a loaded block does not set written_to_disk.
loaded_object_unwritten == [decided |-> TRUE, written |-> FALSE, flushed |-> FALSE]
loaded_object == [decided |-> TRUE, written |-> TRUE, flushed |-> FALSE]

idle == [pc |-> "idle", n |-> 0, at |-> 0]
NoTxn == [h \in {} |-> << >>]
NoGC == [buffer |-> {}, list |-> {}, want |-> 0, job |-> 0]

\* The memory of a process that has just been started, or of none.
Fresh(p) ==
    /\ phase' = p
    /\ cursor' = 1
    /\ store' = [b \in {0} |-> genesis_object]
    /\ core' = [hqc |-> 0, b_lock |-> 0, b_exec |-> 0]
    /\ task' = idle
    /\ txn' = NoTxn
    /\ head' = 1
    /\ vm' = << >>
    /\ gc' = NoGC

\* The replica has never run: its data directories are empty.
Init ==
    /\ files = [b \in Block |-> "none"]
    /\ index = NoTxn
    /\ cert = 0
    /\ setup \in Setups
    /\ starts = 0
    /\ phase = "down"
    /\ cursor = 1
    /\ store = [b \in {0} |-> genesis_object]
    /\ core = [hqc |-> 0, b_lock |-> 0, b_exec |-> 0]
    /\ task = idle
    /\ txn = NoTxn
    /\ head = 1
    /\ vm = << >>
    /\ gc = NoGC
    /\ early = FALSE
    /\ failures = {}

Running == phase # "down"
Max(i, j) == IF i > j THEN i ELSE j

\* An exception that no thread catches, or a null dereference.
fail(reason) ==
    /\ failures' = failures \cup {reason}
    /\ Fresh("down")
    /\ UNCHANGED <<disk, setup, starts, early>>

\* The process ends for another reason.
crash ==
    /\ Running
    /\ Fresh("down")
    /\ UNCHANGED <<disk, ghosts>>

-----------------------------------------------------------------------------
(* The application thread *)

\* The constructor opens the environment and starts the threads and servers.
construct ==
    /\ phase = "down"
    /\ starts < MaxStarts
    /\ starts' = starts + 1
    /\ Fresh("constructed")
    /\ UNCHANGED <<disk, setup, early, failures>>

\* The operator starts from scratch only where nothing has been decided.
init_clean ==
    /\ phase = "constructed"
    /\ DOMAIN index = {}
    /\ phase' = "ready"
    /\ UNCHANGED <<disk, ghosts, cursor, store, core, task, txn, head, vm, gc>>

init_from_disk ==
    /\ phase = "constructed"
    /\ starts > 1
    /\ phase' = "loading"
    /\ UNCHANGED <<disk, ghosts, cursor, store, core, task, txn, head, vm, gc>>

AtEnd == cursor \notin DOMAIN index
Readable(h) == files[h] \in {"whole", "hollow"}
HasPreds(n) == {n - 1, Justify[n]} \subseteq DOMAIN store

\* emplace keeps the object that is there; the collector gets the new one.
insert_block(n, object) ==
    /\ store' = [b \in DOMAIN store \cup {n} |-> IF b \in DOMAIN store THEN store[b] ELSE object]
    /\ gc' = [gc EXCEPT !.buffer = @ \cup {n}]

\* reload_decided_blocks, one entry of the index at a time.
reload_decided_block ==
    /\ phase = "loading"
    /\ cursor \in DOMAIN index
    /\ IF Readable(cursor) /\ HasPreds(cursor)
       THEN /\ insert_block(cursor, loaded_object)
            /\ cursor' = cursor + 1
            /\ UNCHANGED <<disk, ghosts, phase, core, task, txn, head, vm>>
       ELSE fail("unreadable")

\* mutant: b_exec stays at the genesis block.
reload_state_from_index_no_exec ==
    /\ phase = "loading"
    /\ AtEnd
    /\ IF cert \in DOMAIN store \ {0}
       THEN /\ core' = [core EXCEPT !.hqc = Max(@, cert), !.b_lock = cert]
            /\ phase' = "replaying" /\ cursor' = 1
            /\ UNCHANGED <<disk, ghosts, store, task, txn, head, vm, gc>>
       ELSE fail(IF DOMAIN index = {} THEN "nothing decided" ELSE "no certificate")

reload_state_from_index ==
    /\ phase = "loading"
    /\ AtEnd
    /\ IF cert \in DOMAIN store \ {0}
       THEN /\ core' = [hqc |-> Max(core.hqc, cert), b_lock |-> cert, b_exec |-> cert]
            /\ phase' = "replaying" /\ cursor' = 1
            /\ UNCHANGED <<disk, ghosts, store, task, txn, head, vm, gc>>
       ELSE fail(IF DOMAIN index = {} THEN "nothing decided" ELSE "no certificate")

\* A VMBlockID on its way to the index and back: the empty id becomes no bytes,
\* and any bytes, none included, become an id that has a value.
serialize(id) == IF id.has_value THEN id.value ELSE << >>
read_id(bytes) == [has_value |-> TRUE, value |-> bytes]
empty_id == [has_value |-> FALSE, value |-> << >>]
get_block_id(n, body) == IF body THEN [has_value |-> TRUE, value |-> <<n>>] ELSE empty_id

BodyInFile(h) == h \in Nonempty /\ files[h] = "whole"

\* CountingVM loads the block if its id has a value, and cannot parse an empty body.
Unparsable(h) == setup.vm = "CountingVM" /\ read_id(index[h]).has_value /\ ~BodyInFile(h)

\* VMBase::init_from_disk, one entry of the index at a time.
replay_block ==
    /\ phase = "replaying"
    /\ cursor \in DOMAIN index
    /\ IF ~Readable(cursor)
       THEN fail("unreadable")
       ELSE IF Unparsable(cursor)
            THEN fail("empty body")
            ELSE /\ vm' = IF BodyInFile(cursor) THEN Append(vm, cursor) ELSE vm
                 /\ cursor' = cursor + 1
                 /\ UNCHANGED <<disk, ghosts, phase, store, core, task, txn, head, gc>>

\* mutant: the last entry of the index is not replayed.
finish_init_one_short ==
    /\ phase = "replaying"
    /\ cursor + 1 \notin DOMAIN index
    /\ phase' = "ready"
    /\ head' = cursor + 1
    /\ UNCHANGED <<disk, ghosts, cursor, store, core, task, txn, vm, gc>>

\* The speculation gadget goes on where the index ends.
finish_init ==
    /\ phase = "replaying"
    /\ AtEnd
    /\ phase' = "ready"
    /\ head' = cursor
    /\ UNCHANGED <<disk, ghosts, cursor, store, core, task, txn, vm, gc>>

-----------------------------------------------------------------------------
(* The network-event thread *)

\* A block arrives, proposed or fetched.
receive_block(n) ==
    /\ Running
    /\ n \notin DOMAIN store
    /\ HasPreds(n)
    /\ insert_block(n, received_object)
    /\ early' = (early \/ n \in DOMAIN index)
    /\ UNCHANGED <<disk, setup, starts, failures, phase, cursor, core, task, txn, head, vm>>

-----------------------------------------------------------------------------
(* The event thread: HotstuffCore::update(n), one effect at a time *)

blk2(n) == Justify[n]
blk1(n) == Justify[blk2(n)]
blk0(n) == Justify[blk1(n)]
doing(pc, n, at) == [pc |-> pc, n |-> n, at |-> at]

\* mutant: the locked block is not written to disk.
update_no_write(n) ==
    /\ Running /\ task = idle
    /\ n \in DOMAIN store \ {0}
    /\ ~store[blk2(n)].decided
    /\ LET locks == ~store[blk1(n)].decided
           b_lock == IF locks THEN Max(core.b_lock, blk1(n)) ELSE core.b_lock
       IN /\ core' = [core EXCEPT !.hqc = Max(@, blk2(n)), !.b_lock = b_lock]
          /\ task' = IF locks THEN doing("write", n, 0) ELSE idle
    /\ early' = (early \/ (phase # "ready" /\ DOMAIN index # {}))
    /\ UNCHANGED <<disk, setup, starts, failures, phase, cursor, store, txn, head, vm, gc>>

\* A proposal, new or repeated, up to the lock.
update(n) ==
    /\ Running /\ task = idle
    /\ n \in DOMAIN store \ {0}
    /\ ~store[blk2(n)].decided
    /\ LET locks == ~store[blk1(n)].decided
           b_lock == IF locks THEN Max(core.b_lock, blk1(n)) ELSE core.b_lock
       IN /\ core' = [core EXCEPT !.hqc = Max(@, blk2(n)), !.b_lock = b_lock]
          /\ task' = IF locks THEN doing("write", n, b_lock) ELSE idle
    /\ early' = (early \/ (phase # "ready" /\ DOMAIN index # {}))
    /\ UNCHANGED <<disk, setup, starts, failures, phase, cursor, store, txn, head, vm, gc>>

\* HotstuffBlock::write_to_disk on a block not yet written: save_xdr_to_file
\* truncates the file ...
write_to_disk ==
    /\ task.pc = "write" /\ ~store[task.at].written
    /\ store' = [store EXCEPT ![task.at].written = TRUE]
    /\ files' = [files EXCEPT ![task.at] = "torn"]
    /\ task' = [task EXCEPT !.pc = "save"]
    /\ UNCHANGED <<index, cert, ghosts, phase, cursor, core, txn, head, vm, gc>>

\* ... and fills and syncs it; then the parent's turn comes.
save_block ==
    /\ task.pc = "save"
    /\ files' = [files EXCEPT ![task.at] = IF store[task.at].flushed THEN "hollow" ELSE "whole"]
    /\ task' = doing("write", task.n, task.at - 1)
    /\ UNCHANGED <<index, cert, ghosts, phase, cursor, store, core, txn, head, vm, gc>>

\* mutant: only the next block can be committed.
open_txn_next_only ==
    /\ task.pc = "write" /\ store[task.at].written
    /\ LET n == task.n
           commits == ~store[blk0(n)].decided /\ blk2(n) - 1 = blk1(n) /\ blk1(n) - 1 = blk0(n)
                      /\ blk0(n) = core.b_exec + 1
       IN /\ task' = IF commits THEN doing("apply", n, core.b_exec + 1) ELSE idle
          /\ UNCHANGED <<disk, ghosts, phase, cursor, store, core, txn, head, vm, gc>>

\* Everything below the lock is on disk: is the block below it to be committed?
open_txn ==
    /\ task.pc = "write" /\ store[task.at].written
    /\ LET n == task.n
           commits == ~store[blk0(n)].decided /\ blk2(n) - 1 = blk1(n) /\ blk1(n) - 1 = blk0(n)
       IN IF commits /\ blk0(n) < core.b_exec
          THEN fail("safety breached")
          ELSE /\ task' = IF commits THEN doing("apply", n, core.b_exec + 1) ELSE idle
               /\ UNCHANGED <<disk, ghosts, phase, cursor, store, core, txn, head, vm, gc>>

\* The transaction with one more entry.
add_decided_block(b, id) ==
    [h \in DOMAIN txn \cup {b} |-> IF h = b THEN serialize(id) ELSE txn[h]]

\* Commits the next block of the queue: decide, apply_block of the bridge, and
\* notify_vm_of_commitment.
apply_block ==
    /\ task.pc = "apply" /\ task.at <= blk0(task.n)
    /\ LET b == task.at
           body == b \in Nonempty /\ ~store[b].flushed
           speculative == setup.bridge = "speculative"
       IN \/ phase # "ready" /\ fail("uninitialized vm")
          \/ phase = "ready" /\ ~speculative /\ ~body /\ fail("empty body")
          \/ phase = "ready" /\ speculative /\ b # head /\ fail("gap in commit log")
          \/ /\ phase = "ready" /\ (IF speculative THEN b = head ELSE body)
             /\ store' = [store EXCEPT ![b].decided = TRUE]
             /\ txn' = add_decided_block(b, get_block_id(b, body))
             /\ vm' = IF body THEN Append(vm, b) ELSE vm
             /\ head' = b + 1
             /\ task' = [task EXCEPT !.at = b + 1]
             /\ UNCHANGED <<disk, ghosts, phase, cursor, core, gc>>

notify_ok_to_prune_blocks(h) == gc' = [gc EXCEPT !.want = Max(0, h - KeepDepth)]

\* mutant: the transaction starts from an emptied index.
commit_afresh ==
    /\ task.pc = "apply" /\ task.at > blk0(task.n)
    /\ core' = [core EXCEPT !.b_exec = blk0(task.n)]
    /\ index' = txn
    /\ cert' = blk0(task.n)
    /\ notify_ok_to_prune_blocks(blk0(task.n))
    /\ txn' = NoTxn
    /\ task' = idle
    /\ UNCHANGED <<files, ghosts, phase, cursor, store, head, vm>>

\* set_qc_on_top_block and commit of the transaction, then the order to prune.
commit ==
    /\ task.pc = "apply" /\ task.at > blk0(task.n)
    /\ core' = [core EXCEPT !.b_exec = blk0(task.n)]
    /\ index' = [h \in DOMAIN index \cup DOMAIN txn |->
                    IF h \in DOMAIN txn THEN txn[h] ELSE index[h]]
    /\ cert' = blk0(task.n)
    /\ notify_ok_to_prune_blocks(blk0(task.n))
    /\ txn' = NoTxn
    /\ task' = idle
    /\ UNCHANGED <<files, ghosts, phase, cursor, store, head, vm>>

-----------------------------------------------------------------------------
(* The thread of the garbage collector *)

gc_run ==
    /\ gc.want > 0 /\ gc.job = 0
    /\ gc' = [buffer |-> {}, list |-> gc.list \cup gc.buffer, want |-> 0, job |-> gc.want]
    /\ UNCHANGED <<disk, ghosts, phase, cursor, store, core, task, txn, head, vm>>

\* mutant: the block at the pruning height is flushed too.
do_gc_inclusive ==
    /\ gc.job > 0
    /\ LET old == {b \in gc.list : b <= gc.job}
       IN /\ store' = [b \in DOMAIN store |->
                          IF b \in old THEN [store[b] EXCEPT !.flushed = TRUE] ELSE store[b]]
          /\ gc' = [gc EXCEPT !.list = @ \ old, !.job = 0]
    /\ UNCHANGED <<disk, ghosts, phase, cursor, core, task, txn, head, vm>>

do_gc ==
    /\ gc.job > 0
    /\ LET old == {b \in gc.list : b < gc.job}
       IN /\ store' = [b \in DOMAIN store |->
                          IF b \in old THEN [store[b] EXCEPT !.flushed = TRUE] ELSE store[b]]
          /\ gc' = [gc EXCEPT !.list = @ \ old, !.job = 0]
    /\ UNCHANGED <<disk, ghosts, phase, cursor, core, task, txn, head, vm>>

-----------------------------------------------------------------------------
ApplicationThread ==
    \/ init_clean \/ init_from_disk \/ reload_decided_block \/ reload_state_from_index
    \/ replay_block \/ finish_init
EventThread ==
    \/ \E n \in Block : update(n)
    \/ write_to_disk \/ save_block \/ open_txn \/ apply_block \/ commit
Next ==
    \/ construct \/ crash
    \/ ApplicationThread
    \/ \E n \in Block : receive_block(n)
    \/ EventThread
    \/ gc_run \/ do_gc

Spec == Init /\ [][Next]_vars

\* The threads keep running, the leader's chain keeps arriving and its last
\* proposals are handled, and the operator initialises what they start.
Fairness ==
    /\ WF_vars(ApplicationThread)
    /\ \A n \in Block : WF_vars(receive_block(n)) /\ SF_vars(update(n))
    /\ WF_vars(write_to_disk \/ save_block \/ open_txn \/ apply_block \/ commit)

FairSpec == Spec /\ Fairness

-----------------------------------------------------------------------------
(* Properties *)

\* The types of what is on disk and in memory.
Object == [decided : BOOLEAN, written : BOOLEAN, flushed : BOOLEAN]
TypeOK ==
    /\ files \in [Block -> {"none", "torn", "whole", "hollow"}]
    /\ DOMAIN index \subseteq Block
    /\ cert \in 0..Length
    /\ setup \in Setups
    /\ starts \in 0..MaxStarts
    /\ phase \in {"down", "constructed", "loading", "replaying", "ready"}
    /\ cursor \in 1..Length + 1
    /\ DOMAIN store \subseteq 0..Length
    /\ store \in [DOMAIN store -> Object]
    /\ core \in [hqc : 0..Length, b_lock : 0..Length, b_exec : 0..Length]
    /\ task \in [pc : {"idle", "write", "save", "apply"}, n : 0..Length, at : 0..Length]
    /\ DOMAIN txn \subseteq Block
    /\ head \in 1..Length + 1
    /\ vm \in Seq(Block)
    /\ gc \in [buffer : SUBSET Block, list : SUBSET Block, want : 0..Length, job : 0..Length]
    /\ early \in BOOLEAN

\* "Honest node should have data on disk before commiting.  That way, we guarantee
\* that if the whole system crashes, we won't ever have lost data."
DataOnDisk == \A h \in DOMAIN index : files[h] = "whole"

\* Wherever the process stops, the disk is good for a restart: the index has no
\* gap, the stored certificate is on its top, and every decided block has its
\* whole file, as update writes the files before it commits the transaction.
\* (Unless a peer's copy of a decided block was let into the store before the
\* file was loaded, or update ran before init_from_disk had set b_exec.)
Recoverable == early \/ (DOMAIN index = 1..cert /\ DataOnDisk)

\* The LMDB index is a log: over all lives of the replica together its entries are
\* never lost or rewritten, and the certificate only moves up.
DecisionsDurable ==
    [][early \/ /\ cert <= cert'
                /\ \A h \in DOMAIN index : h \in DOMAIN index' /\ index'[h] = index[h]]_vars

\* No restart fails for what the code itself left on disk, and no commit meets a
\* fork: load_decided_block finds its files, get_highest_qc its certificate and
\* update its b_exec, whatever was being written when the process stopped.
\* (The other failures: nothing had been decided yet; update ran before the state
\* machine was there; a state machine or bridge that cannot do with no command.
\* What messages handled before init_from_disk was through do is DataOnDisk's case.)
FailsForAReason ==
    early \/ {"unreadable", "no certificate", "safety breached", "gap in commit log"}
             \cap failures = {}

\* The last block given to the state machine: in the middle of a commit that is
\* not the last executed one.
Applied == IF task.pc = "apply" THEN task.at - 1 ELSE core.b_exec

\* Each command of the decided chain is given to the state machine exactly once,
\* in the order of the chain, and no other: commands replayed by init_from_disk
\* are not applied again, and those whose commit was cut off are.
EachCommandOnce ==
    phase = "ready" =>
        /\ {vm[i] : i \in DOMAIN vm} = {b \in Nonempty : b <= Applied}
        /\ \A i, j \in DOMAIN vm : i < j => vm[i] < vm[j]
EachCommandOnceUnlessEarly == early \/ EachCommandOnce

\* An empty body is no command, and is just ignored, by a state machine that
\* replays the index as by one that is given decided blocks (vm_base.h:39).
EmptyBodiesIgnored == "empty body" \notin failures

\* A body is gone from memory only if it lies more than KeepDepth below the last
\* executed block, so peers less far behind can fetch it (block_store.h), and so
\* no body is gone that apply_block or write_to_disk still needs.
KeepsRecentBodies ==
    early \/ \A b \in DOMAIN store \ {0} : store[b].flushed => b + KeepDepth < core.b_exec

\* The inductive invariant behind these, for a life whose messages wait for the
\* initialisation.  What is decided is a prefix of the chain; an object that has
\* its written flag has a whole file, and so have all below it, except for the
\* path write_to_disk is on; and the transaction extends the index.
Loaded == phase \in {"replaying", "ready"}
DecidedTo == IF Loaded THEN Applied ELSE cursor - 1
Busy(pc) == task.pc = pc
AllWritten(i, j) == \A b \in i..j : store[b].written
WriteInv ==
    /\ \A b \in DOMAIN store \ {0} :
          store[b].written => files[b] = "whole" \/ (Busy("save") /\ b = task.at)
    /\ \A b \in DOMAIN store : store[b].written =>
          \/ AllWritten(0, b)
          \/ Busy("write") /\ task.at < b /\ AllWritten(task.at + 1, b)
          \/ Busy("save") /\ task.at <= b /\ AllWritten(task.at, b)
    /\ Busy("write") => AllWritten(task.at + 1, core.b_lock)
    /\ Busy("save") => AllWritten(task.at, core.b_lock) /\ ~store[task.at].decided
    /\ Busy("write") \/ Busy("save") => task.at <= core.b_lock /\ blk1(task.n) <= core.b_lock
    /\ Busy("apply") => store[blk0(task.n)].written
CommitInv ==
    /\ \A b \in DOMAIN store : store[b].decided <=> b <= DecidedTo
    /\ \A b \in DOMAIN store : store[b].decided => store[b].written
    /\ DOMAIN txn = IF Busy("apply") THEN core.b_exec + 1 .. task.at - 1 ELSE {}
    /\ Busy("apply") => core.b_exec < blk0(task.n) /\ core.b_exec < task.at
    /\ Busy("apply") /\ task.at # core.b_exec + 1 => phase = "ready"
    /\ phase # "ready" /\ cert > 0 => task = idle
    /\ head = IF phase = "ready" THEN Applied + 1 ELSE 1
LoadInv ==
    /\ core.b_exec = IF Loaded THEN cert ELSE 0
    /\ phase = "replaying" => cert > 0
    /\ Loaded => cert \in DOMAIN store
    /\ phase # "ready" => cursor <= cert + 1
    /\ ~Loaded => cursor - 1 \in DOMAIN store
    /\ ~Loaded => \A b \in DOMAIN store \cap DOMAIN index : b < cursor
    /\ phase \in {"down", "constructed"} => cursor = 1
GCInv ==
    /\ \A b \in DOMAIN store \ {0} : store[b].flushed => b + KeepDepth < core.b_exec
    /\ gc.want > 0 => gc.want + KeepDepth <= core.b_exec
    /\ gc.job > 0 => gc.job + KeepDepth <= core.b_exec
VMInv ==
    /\ {vm[i] : i \in DOMAIN vm} =
          {b \in Nonempty : b <= CASE phase = "ready" -> Applied
                                   [] phase = "replaying" -> cursor - 1
                                   [] OTHER -> 0}
    /\ \A i, j \in DOMAIN vm : i < j => vm[i] < vm[j]
StoreInv ==
    /\ 0 \in DOMAIN store /\ store[0] = genesis_object
    /\ \A b \in DOMAIN store : 0..b \subseteq DOMAIN store
    /\ core.b_lock \in DOMAIN store
    /\ task # idle => task.n \in DOMAIN store \ {0} /\ task.at \in DOMAIN store
    /\ task.pc = "idle" <=> task = idle
    /\ task # idle => blk2(task.n) # 0 /\ blk1(task.n) # 0
    /\ Busy("save") \/ Busy("apply") => task.at # 0
    /\ Busy("apply") => task.at <= blk0(task.n) + 1
IInv ==
    /\ TypeOK /\ StoreInv /\ FailsForAReason
    /\ early \/ (Recoverable /\ WriteInv /\ CommitInv /\ LoadInv /\ GCInv /\ VMInv)

\* A replica that stays up from some time on catches up: every block that the
\* chain commits is in its index in the end, although earlier lives ended in the
\* middle of writing and committing it.
CatchesUp == <>[]Running => <>(early \/ cert = blk0(Length))
=============================================================================
