--------------------------- MODULE RecoveryProofs ---------------------------
(***************************************************************************)
(* Proofs about Recovery: for a chain of any length and any number of      *)
(* crashes, the disk is good for a restart.                                *)
(***************************************************************************)
EXTENDS Recovery, TLAPS

USE DEF AtEnd, Unparsable, add_decided_block, notify_ok_to_prune_blocks

\* A certificate is on a lower block.
LEMMA JustifyBelow ==
    ASSUME NEW n \in Block
    PROVE  Justify[n] \in 0..Length /\ Justify[n] < n /\ n \in 0..Length /\ n # 0
BY RecoveryAssumption DEF Block

\* The blocks that update(n) looks at.
LEMMA ThreeBelow ==
    ASSUME NEW n \in Block, blk2(n) # 0, blk1(n) # 0
    PROVE  /\ blk2(n) \in Block /\ blk1(n) \in Block /\ blk0(n) \in 0..Length
           /\ blk0(n) < blk1(n) /\ blk1(n) < blk2(n) /\ blk2(n) < n
<1>1. blk2(n) \in Block /\ blk2(n) < n
    BY RecoveryAssumption DEF Block, blk2
<1>2. blk1(n) \in Block /\ blk1(n) < blk2(n)
    BY <1>1, RecoveryAssumption DEF Block, blk1
<1>3. blk0(n) \in 0..Length /\ blk0(n) < blk1(n)
    BY <1>2, RecoveryAssumption DEF Block, blk0
<1> QED BY <1>1, <1>2, <1>3

-----------------------------------------------------------------------------
(* Types, and the shape of the store *)

\* A process that starts or ends has the genesis block only.
LEMMA FreshTypes ==
    ASSUME TypeOK, NEW p \in {"down", "constructed"}, Fresh(p), UNCHANGED <<disk, setup, early>>,
           starts' \in 0..MaxStarts
    PROVE  TypeOK' /\ StoreInv'
<1>1. genesis_object \in Object
    BY DEF genesis_object, Object
<1>2. DOMAIN store' = {0} /\ store'[0] = genesis_object /\ store' \in [DOMAIN store' -> Object]
    BY <1>1 DEF Fresh
<1>3. vm' \in Seq(Block) /\ DOMAIN txn' = {} /\ task' = idle
    BY DEF Fresh, NoTxn
<1>4. /\ core' \in [hqc : 0..Length, b_lock : 0..Length, b_exec : 0..Length]
      /\ core'.b_lock = 0
      /\ task' \in [pc : {"idle", "write", "save", "apply"}, n : 0..Length, at : 0..Length]
      /\ gc' \in [buffer : SUBSET Block, list : SUBSET Block, want : 0..Length, job : 0..Length]
      /\ cursor' \in 1..Length + 1 /\ head' \in 1..Length + 1
    BY RecoveryAssumption DEF Fresh, idle, NoGC
<1>5. TypeOK'
    BY <1>2, <1>3, <1>4 DEF TypeOK, Fresh, disk
<1>6. StoreInv'
    BY <1>2, <1>3, <1>4 DEF StoreInv, idle, Busy
<1> QED BY <1>5, <1>6

\* insert_block keeps the store closed, and the objects that are there.
LEMMA InsertTypes ==
    ASSUME TypeOK, StoreInv, NEW n \in Block, NEW o \in Object, insert_block(n, o),
           HasPreds(n)
    PROVE  /\ DOMAIN store' = DOMAIN store \cup {n}
           /\ \A b \in DOMAIN store : store'[b] = store[b]
           /\ n \notin DOMAIN store => store'[n] = o
           /\ DOMAIN store' \subseteq 0..Length
           /\ store' \in [DOMAIN store' -> Object]
           /\ gc' \in [buffer : SUBSET Block, list : SUBSET Block, want : 0..Length, job : 0..Length]
           /\ gc'.want = gc.want /\ gc'.job = gc.job
           /\ \A b \in DOMAIN store' : 0..b \subseteq DOMAIN store'
<1>1. /\ DOMAIN store' = DOMAIN store \cup {n}
      /\ \A b \in DOMAIN store : store'[b] = store[b]
      /\ n \notin DOMAIN store => store'[n] = o
    BY DEF insert_block
<1>2. store \in [DOMAIN store -> Object] /\ DOMAIN store \subseteq 0..Length
    BY DEF TypeOK
<1>3. store' = [b \in DOMAIN store' |-> store'[b]]
    BY DEF insert_block
<1>4. \A b \in DOMAIN store' : store'[b] \in Object
    BY <1>1, <1>2
<1>5. DOMAIN store' \subseteq 0..Length
    BY <1>1, <1>2 DEF Block
<1>6. store' \in [DOMAIN store' -> Object]
    BY <1>3, <1>4
<1>7. /\ gc' \in [buffer : SUBSET Block, list : SUBSET Block, want : 0..Length, job : 0..Length]
      /\ gc'.want = gc.want /\ gc'.job = gc.job
    BY DEF insert_block, TypeOK
<1>8. ASSUME NEW b \in DOMAIN store', NEW i \in 0..b PROVE i \in DOMAIN store'
  <2>1. n - 1 \in DOMAIN store /\ \A c \in DOMAIN store : 0..c \subseteq DOMAIN store
    BY DEF HasPreds, StoreInv
  <2>2. n \in Int /\ b \in Int /\ i \in Int
    BY <1>5, <1>8 DEF Block
  <2>3. CASE b = n
    <3>1. i = n \/ i \in 0..n - 1
      BY <1>8, <2>2, <2>3
    <3> QED BY <1>1, <2>1, <3>1
  <2>4. CASE b # n
    BY <1>1, <1>8, <2>1, <2>4
  <2> QED BY <2>3, <2>4
<1> QED BY <1>1, <1>5, <1>6, <1>7, <1>8

\* The store has everything below a block it has.
LEMMA Closed ==
    ASSUME TypeOK, StoreInv, NEW b \in DOMAIN store, NEW i \in Int, 0 <= i, i <= b
    PROVE  i \in DOMAIN store /\ i \in 0..Length
<1>1. b \in 0..Length /\ Length \in Nat
    BY RecoveryAssumption DEF TypeOK
<1>2. i \in 0..b
    BY <1>1
<1> QED BY <1>1, <1>2 DEF StoreInv, TypeOK

\* The steps of the application thread.
LEMMA ApplicationTypes ==
    ASSUME TypeOK, StoreInv,
           \/ init_clean \/ init_from_disk \/ reload_state_from_index
           \/ replay_block \/ finish_init
    PROVE  TypeOK' /\ StoreInv'
<1>1. ASSUME NEW reason, fail(reason) PROVE TypeOK' /\ StoreInv'
    BY <1>1, FreshTypes DEF fail, TypeOK
<1>2. CASE init_clean
    BY <1>2 DEF init_clean, TypeOK, StoreInv, Busy, disk, ghosts
<1>3. CASE init_from_disk
    BY <1>3 DEF init_from_disk, TypeOK, StoreInv, Busy, disk, ghosts
<1>4. CASE reload_state_from_index
  <2>1. CASE cert \in DOMAIN store \ {0}
    <3>1. /\ core' = [hqc |-> Max(core.hqc, cert), b_lock |-> cert, b_exec |-> cert]
          /\ phase' = "replaying" /\ cursor' = 1
          /\ UNCHANGED <<disk, ghosts, store, task, txn, head, vm, gc>>
      BY <1>4, <2>1 DEF reload_state_from_index
    <3>2. core' \in [hqc : 0..Length, b_lock : 0..Length, b_exec : 0..Length]
      BY <3>1 DEF TypeOK, Max
    <3>3. cursor' \in 1..Length + 1 /\ core'.b_lock = cert
      BY <3>1, RecoveryAssumption
    <3> QED BY <2>1, <3>1, <3>2, <3>3 DEF TypeOK, StoreInv, Busy, disk, ghosts
  <2>2. CASE cert \notin DOMAIN store \ {0}
    BY <1>1, <1>4, <2>2 DEF reload_state_from_index
  <2> QED BY <2>1, <2>2
<1>5. CASE replay_block
  <2>1. CASE \E reason : fail(reason)
    BY <1>1, <2>1
  <2>2. CASE /\ vm' = IF BodyInFile(cursor) THEN Append(vm, cursor) ELSE vm
             /\ cursor' = cursor + 1
             /\ UNCHANGED <<disk, ghosts, phase, store, core, task, txn, head, gc>>
    <3>1. cursor \in Block
      BY <1>5 DEF replay_block, TypeOK
    <3>2. vm' \in Seq(Block)
      BY <2>2, <3>1 DEF TypeOK
    <3>3. cursor' \in 1..Length + 1
      BY <2>2, <3>1, RecoveryAssumption DEF Block
    <3> QED BY <2>2, <3>2, <3>3 DEF TypeOK, StoreInv, Busy, disk, ghosts
  <2> QED BY <1>5, <2>1, <2>2 DEF replay_block
<1>6. CASE finish_init
    BY <1>6 DEF finish_init, TypeOK, StoreInv, Busy, disk, ghosts
<1> QED BY <1>2, <1>3, <1>4, <1>5, <1>6

\* Blocks that are loaded or received.
LEMMA InsertStepTypes ==
    ASSUME TypeOK, StoreInv,
           reload_decided_block \/ \E n \in Block : receive_block(n)
    PROVE  TypeOK' /\ StoreInv'
<1>1. loaded_object \in Object /\ received_object \in Object
    BY DEF loaded_object, received_object, Object
<1>2. ASSUME NEW n \in Block, NEW o \in Object, insert_block(n, o), HasPreds(n),
             cursor' \in 1..Length + 1, early' \in BOOLEAN,
             UNCHANGED <<disk, setup, starts, phase, core, task, txn, head, vm>>
      PROVE  TypeOK' /\ StoreInv'
  <2>1. /\ DOMAIN store' = DOMAIN store \cup {n}
        /\ \A b \in DOMAIN store : store'[b] = store[b]
        /\ DOMAIN store' \subseteq 0..Length
        /\ store' \in [DOMAIN store' -> Object]
        /\ gc' \in [buffer : SUBSET Block, list : SUBSET Block, want : 0..Length, job : 0..Length]
        /\ \A b \in DOMAIN store' : 0..b \subseteq DOMAIN store'
    BY <1>2, InsertTypes
  <2>2. TypeOK'
    BY <1>2, <2>1 DEF TypeOK, disk
  <2>3. StoreInv'
    BY <1>2, <2>1 DEF StoreInv, Busy
  <2> QED BY <2>2, <2>3
<1>3. CASE reload_decided_block
  <2>1. cursor \in Block /\ cursor + 1 \in 1..Length + 1
    BY <1>3, RecoveryAssumption DEF reload_decided_block, TypeOK, Block
  <2>2. CASE Readable(cursor) /\ HasPreds(cursor)
    <3>1. early' = early /\ early \in BOOLEAN
      BY <1>3, <2>2 DEF reload_decided_block, ghosts, TypeOK
    <3> QED BY <1>1, <1>2, <1>3, <2>1, <2>2, <3>1 DEF reload_decided_block, ghosts
  <2>3. CASE ~(Readable(cursor) /\ HasPreds(cursor))
    BY <1>3, <2>3, FreshTypes DEF reload_decided_block, fail, TypeOK
  <2> QED BY <2>2, <2>3
<1>4. ASSUME NEW n \in Block, receive_block(n) PROVE TypeOK' /\ StoreInv'
  <2>1. cursor' \in 1..Length + 1 /\ early' \in BOOLEAN
    BY <1>4 DEF receive_block, TypeOK
  <2> QED BY <1>1, <1>2, <1>4, <2>1 DEF receive_block
<1> QED BY <1>3, <1>4

\* The event thread.
LEMMA EventTypes ==
    ASSUME TypeOK, StoreInv, EventThread
    PROVE  TypeOK' /\ StoreInv'
<1> DEFINE Task == [pc : {"idle", "write", "save", "apply"}, n : 0..Length, at : 0..Length]
<1>1. ASSUME NEW reason, fail(reason) PROVE TypeOK' /\ StoreInv'
    BY <1>1, FreshTypes DEF fail, TypeOK
<1>2. idle \in Task /\ \A p \in {"idle", "write", "save", "apply"}, n, at \in 0..Length :
          doing(p, n, at) \in Task
    BY RecoveryAssumption DEF idle, doing
<1>3. ASSUME NEW n \in Block, update(n) PROVE TypeOK' /\ StoreInv'
  <2>1. n \in DOMAIN store /\ ~store[blk2(n)].decided /\ n # 0 /\ n \in 0..Length
    BY <1>3 DEF update, Block
  <2>2. blk2(n) # 0
    BY <2>1 DEF StoreInv, genesis_object
  <2>3. blk2(n) \in DOMAIN store /\ blk2(n) \in Block
    BY <1>3, <2>1, <2>2, RecoveryAssumption DEF StoreInv, blk2, Block
  <2>4. blk1(n) \in DOMAIN store /\ blk1(n) \in 0..Length
    BY <2>3, RecoveryAssumption DEF StoreInv, blk1, Block
  <2>5. PICK b_lock :
          /\ b_lock = IF store[blk1(n)].decided THEN core.b_lock ELSE Max(core.b_lock, blk1(n))
          /\ core' = [core EXCEPT !.hqc = Max(@, blk2(n)), !.b_lock = b_lock]
          /\ task' = IF store[blk1(n)].decided THEN idle ELSE doing("write", n, b_lock)
    BY <1>3 DEF update
  <2>6. b_lock \in DOMAIN store /\ b_lock \in 0..Length
    BY <2>4, <2>5 DEF Max, StoreInv, TypeOK
  <2>7. /\ core' \in [hqc : 0..Length, b_lock : 0..Length, b_exec : 0..Length]
        /\ core'.b_lock = b_lock
    BY <2>3, <2>5, <2>6 DEF Max, TypeOK, Block
  <2>8. task' \in Task /\ early' \in BOOLEAN
    BY <1>2, <1>3, <2>1, <2>5, <2>6 DEF update, TypeOK
  <2>9. TypeOK'
    BY <1>3, <2>7, <2>8 DEF update, TypeOK, disk
  <2>10. task' # idle => task' = doing("write", n, b_lock) /\ blk1(n) # 0
    BY <2>5 DEF StoreInv, genesis_object
  <2>11. StoreInv'
    BY <1>3, <2>1, <2>2, <2>5, <2>6, <2>7, <2>10 DEF update, StoreInv, doing, idle, Busy
  <2> QED BY <2>9, <2>11
<1>4. CASE write_to_disk
  <2>1. task \in Task /\ task # idle /\ task.pc = "write"
    BY <1>4 DEF write_to_disk, TypeOK, idle
  <2>2. task.at \in DOMAIN store /\ task.at # 0 /\ task.at \in Block /\ task.n \in DOMAIN store \ {0}
    BY <1>4, <2>1 DEF write_to_disk, StoreInv, genesis_object, TypeOK, Block
  <2>3. task' = [task EXCEPT !.pc = "save"] /\ task' \in Task /\ task'.at = task.at
        /\ task'.n = task.n /\ task'.pc = "save"
    BY <1>4, <2>1 DEF write_to_disk
  <2>4. /\ DOMAIN store' = DOMAIN store /\ store' \in [DOMAIN store -> Object]
        /\ \A b \in DOMAIN store : b # task.at => store'[b] = store[b]
    BY <1>4, <2>2 DEF write_to_disk, TypeOK, Object
  <2>5. files' \in [Block -> {"none", "torn", "whole", "hollow"}]
    BY <1>4, <2>2 DEF write_to_disk, TypeOK
  <2>6. TypeOK'
    BY <1>4, <2>3, <2>4, <2>5 DEF write_to_disk, TypeOK, ghosts
  <2>7. StoreInv'
    BY <1>4, <2>1, <2>2, <2>3, <2>4 DEF write_to_disk, StoreInv, idle, Busy
  <2> QED BY <2>6, <2>7
<1>5. CASE save_block
  <2>1. task \in Task /\ task # idle /\ task.pc = "save"
    BY <1>5 DEF save_block, TypeOK, idle
  <2>2. task.at \in DOMAIN store /\ task.at # 0 /\ task.at \in Block /\ task.n \in DOMAIN store \ {0}
    BY <2>1 DEF StoreInv, Busy, TypeOK, Block
  <2>3. task.at - 1 \in DOMAIN store /\ task.at - 1 \in 0..Length
    BY <2>2, Closed DEF Block
  <2>4. task' = doing("write", task.n, task.at - 1) /\ task' \in Task
    BY <1>2, <1>5, <2>1, <2>3 DEF save_block
  <2>5. files' \in [Block -> {"none", "torn", "whole", "hollow"}]
    BY <1>5, <2>2 DEF save_block, TypeOK
  <2>6. TypeOK'
    BY <1>5, <2>4, <2>5 DEF save_block, TypeOK, ghosts
  <2>7. StoreInv'
    BY <1>5, <2>1, <2>2, <2>3, <2>4 DEF save_block, StoreInv, idle, doing, Busy
  <2> QED BY <2>6, <2>7
<1>6. CASE open_txn
  <2>1. task \in Task /\ task # idle /\ task.pc = "write"
    <3>1. task.pc = "write"
      BY <1>6 DEF open_txn
    <3> QED BY <3>1 DEF TypeOK, idle
  <2>2. task.n \in DOMAIN store \ {0} /\ task.n \in Block /\ blk2(task.n) # 0 /\ blk1(task.n) # 0
    BY <2>1 DEF StoreInv, TypeOK, Block
  <2>3. /\ blk2(task.n) \in Block /\ blk1(task.n) \in Block /\ blk0(task.n) \in 0..Length
        /\ blk0(task.n) < blk1(task.n) /\ blk1(task.n) < blk2(task.n) /\ blk2(task.n) < task.n
    BY <2>2, ThreeBelow
  <2>4. CASE fail("safety breached")
    BY <1>1, <2>4
  <2>5. CASE /\ task' = idle \/ (~(blk0(task.n) < core.b_exec) /\ task' = doing("apply", task.n, core.b_exec + 1))
             /\ UNCHANGED <<disk, ghosts, phase, cursor, store, core, txn, head, vm, gc>>
    <3>1. core.b_exec \in 0..Length
      BY DEF TypeOK
    <3>2. ~(blk0(task.n) < core.b_exec) =>
              /\ core.b_exec + 1 \in 0..Length /\ core.b_exec + 1 \in 0..task.n
              /\ core.b_exec + 1 <= blk0(task.n) + 1 /\ core.b_exec + 1 # 0
      BY <2>2, <2>3, <3>1, RecoveryAssumption DEF Block
    <3>3. ~(blk0(task.n) < core.b_exec) => core.b_exec + 1 \in DOMAIN store
      BY <2>2, <3>2 DEF StoreInv
    <3>4. task' \in Task
      <4>1. task.n \in 0..Length
        BY <2>1
      <4> HIDE DEF Task
      <4> QED BY <1>2, <2>5, <3>2, <4>1
    <3>5. TypeOK'
      BY <2>5, <3>4 DEF TypeOK, disk, ghosts
    <3>6. StoreInv'
      BY <2>2, <2>5, <3>2, <3>3 DEF StoreInv, idle, doing, Busy
    <3> QED BY <3>5, <3>6
  <2> QED BY <1>6, <2>4, <2>5 DEF open_txn
<1>7. CASE apply_block
  <2>1. task \in Task /\ task # idle /\ task.pc = "apply"
    <3>1. task.pc = "apply"
      BY <1>7 DEF apply_block
    <3> QED BY <3>1 DEF TypeOK, idle
  <2>2. /\ task.n \in DOMAIN store \ {0} /\ task.n \in Block /\ blk2(task.n) # 0 /\ blk1(task.n) # 0
        /\ task.at \in DOMAIN store /\ task.at # 0 /\ task.at \in Block
    BY <2>1 DEF StoreInv, TypeOK, Block, Busy
  <2>3. CASE \E reason : fail(reason)
    BY <1>1, <2>3
  <2>4. CASE ~\E reason : fail(reason)
    <3>1. PICK body :
            /\ body = (task.at \in Nonempty /\ ~store[task.at].flushed)
            /\ store' = [store EXCEPT ![task.at].decided = TRUE]
            /\ DOMAIN txn' = DOMAIN txn \cup {task.at}
            /\ vm' = IF body THEN Append(vm, task.at) ELSE vm
            /\ head' = task.at + 1
            /\ task' = [task EXCEPT !.at = task.at + 1]
            /\ UNCHANGED <<disk, ghosts, phase, cursor, core, gc>>
      BY <1>7, <2>4 DEF apply_block
    <3>2. /\ DOMAIN store' = DOMAIN store /\ store' \in [DOMAIN store -> Object]
          /\ store'[0] = store[0]
      BY <2>2, <3>1 DEF TypeOK, Object, StoreInv
    <3>3. task.at + 1 \in 0..task.n /\ task.at + 1 <= blk0(task.n) + 1
      <4>1. task.at <= blk0(task.n)
        BY <1>7 DEF apply_block
      <4> QED BY <2>2, <4>1, ThreeBelow DEF Block
    <3>4. task.at + 1 \in DOMAIN store /\ task.at + 1 \in 0..Length
      BY <2>2, <3>3, Closed DEF Block
    <3>5. /\ task' \in Task /\ task'.at = task.at + 1 /\ task'.pc = "apply" /\ task'.n = task.n
      BY <2>1, <3>1, <3>4
    <3>6. vm' \in Seq(Block) /\ head' \in 1..Length + 1 /\ DOMAIN txn' \subseteq Block
      <4>1. vm' \in Seq(Block)
        BY <2>2, <3>1 DEF TypeOK
      <4>2. head' \in 1..Length + 1
        BY <2>2, <3>1, RecoveryAssumption DEF Block
      <4>3. DOMAIN txn' \subseteq Block
        BY <2>2, <3>1 DEF TypeOK
      <4> QED BY <4>1, <4>2, <4>3
    <3>7. TypeOK'
      BY <3>1, <3>2, <3>5, <3>6 DEF TypeOK, disk, ghosts
    <3>8. task.at + 1 # 0
      BY <2>2 DEF Block
    <3>9. StoreInv'
      BY <2>1, <2>2, <3>1, <3>2, <3>3, <3>4, <3>5, <3>8 DEF StoreInv, idle, Busy
    <3> QED BY <3>7, <3>9
  <2> QED BY <2>3, <2>4
<1>8. CASE commit
  <2>1. task # idle /\ task.pc = "apply"
    BY <1>8 DEF commit, idle
  <2>2. task.n \in DOMAIN store \ {0} /\ task.n \in Block /\ blk2(task.n) # 0 /\ blk1(task.n) # 0
    BY <2>1 DEF StoreInv, TypeOK, Block
  <2>3. blk0(task.n) \in 0..Length
    BY <2>2, ThreeBelow
  <2>4. Max(0, blk0(task.n) - KeepDepth) \in 0..Length
    BY <2>3, RecoveryAssumption DEF Max
  <2>5. /\ core' \in [hqc : 0..Length, b_lock : 0..Length, b_exec : 0..Length]
        /\ core'.b_lock = core.b_lock
        /\ gc' \in [buffer : SUBSET Block, list : SUBSET Block, want : 0..Length, job : 0..Length]
    BY <1>8, <2>3, <2>4 DEF commit, TypeOK
  <2>6. DOMAIN index' \subseteq Block /\ DOMAIN txn' = {} /\ cert' \in 0..Length
    BY <1>8, <2>3 DEF commit, TypeOK, NoTxn
  <2>7. TypeOK'
    BY <1>2, <1>8, <2>5, <2>6 DEF commit, TypeOK, ghosts
  <2>8. StoreInv'
    BY <1>8, <2>5 DEF commit, StoreInv, idle, Busy
  <2> QED BY <2>7, <2>8
<1> QED BY <1>3, <1>4, <1>5, <1>6, <1>7, <1>8 DEF EventThread

\* The garbage collector.
LEMMA CollectorTypes ==
    ASSUME TypeOK, StoreInv, gc_run \/ do_gc
    PROVE  TypeOK' /\ StoreInv'
<1>1. CASE gc_run
  <2>1. gc' \in [buffer : SUBSET Block, list : SUBSET Block, want : 0..Length, job : 0..Length]
    BY <1>1, RecoveryAssumption DEF gc_run, TypeOK
  <2> QED BY <1>1, <2>1 DEF gc_run, TypeOK, StoreInv, Busy, disk, ghosts
<1>2. CASE do_gc
  <2>1. PICK old \in SUBSET gc.list :
          /\ store' = [b \in DOMAIN store |->
                          IF b \in old THEN [store[b] EXCEPT !.flushed = TRUE] ELSE store[b]]
          /\ gc' = [gc EXCEPT !.list = @ \ old, !.job = 0]
          /\ UNCHANGED <<disk, ghosts, phase, cursor, core, task, txn, head, vm>>
    BY <1>2 DEF do_gc
  <2>2. gc' \in [buffer : SUBSET Block, list : SUBSET Block, want : 0..Length, job : 0..Length]
        /\ 0 \notin old
    <3>1. gc.list \in SUBSET Block /\ 0 \notin Block /\ 0 \in 0..Length
      BY RecoveryAssumption DEF TypeOK, Block
    <3>2. gc.list \ old \in SUBSET Block /\ 0 \notin old
      BY <2>1, <3>1
    <3> QED BY <2>1, <3>1, <3>2 DEF TypeOK
  <2>3. store' \in [DOMAIN store -> Object] /\ DOMAIN store' = DOMAIN store
    BY <2>1 DEF TypeOK, Object
  <2>4. store'[0] = store[0]
    BY <2>1, <2>2 DEF StoreInv
  <2>5. TypeOK'
    BY <2>1, <2>2, <2>3 DEF TypeOK, disk, ghosts
  <2>6. StoreInv'
    BY <2>1, <2>3, <2>4 DEF StoreInv, Busy
  <2> QED BY <2>5, <2>6
<1> QED BY <1>1, <1>2

\* Types and the shape of the store, for every step.
LEMMA TypeStep ==
    ASSUME TypeOK, StoreInv, [Next]_vars
    PROVE  TypeOK' /\ StoreInv'
<1>1. CASE construct
  <2>1. starts' \in 0..MaxStarts /\ Fresh("constructed") /\ UNCHANGED <<disk, setup, early>>
    BY <1>1, RecoveryAssumption DEF construct, TypeOK
  <2> QED BY <2>1, FreshTypes
<1>2. CASE crash
    BY <1>2, FreshTypes DEF crash, ghosts, TypeOK
<1>3. CASE UNCHANGED vars
    BY <1>3 DEF vars, disk, ghosts, memory, TypeOK, StoreInv, Busy
<1> QED BY <1>1, <1>2, <1>3, ApplicationTypes, InsertStepTypes, EventTypes, CollectorTypes
        DEF Next, ApplicationThread

\* The blocks update is at work on are in the store.
LEMMA TaskBlocks ==
    ASSUME TypeOK, StoreInv, task.pc # "idle"
    PROVE  /\ task.n \in Block /\ task.at \in DOMAIN store /\ task.at \in 0..Length
           /\ blk0(task.n) \in DOMAIN store /\ blk1(task.n) \in DOMAIN store
           /\ blk0(task.n) \in 0..Length /\ blk1(task.n) \in 0..Length
           /\ blk0(task.n) < blk1(task.n)
<1>1. /\ task.n \in DOMAIN store \ {0} /\ task.at \in DOMAIN store
      /\ blk2(task.n) # 0 /\ blk1(task.n) # 0
    BY DEF StoreInv, idle
<1>2. task.n \in Block /\ task.at \in 0..Length
    BY <1>1 DEF TypeOK, Block
<1>3. /\ blk2(task.n) \in Block /\ blk1(task.n) \in Block /\ blk0(task.n) \in 0..Length
      /\ blk0(task.n) < blk1(task.n) /\ blk1(task.n) < blk2(task.n) /\ blk2(task.n) < task.n
    BY <1>1, <1>2, ThreeBelow
<1>4. blk1(task.n) \in Int /\ 0 <= blk1(task.n) /\ blk1(task.n) <= task.n
      /\ blk0(task.n) \in Int /\ 0 <= blk0(task.n) /\ blk0(task.n) <= task.n
    BY <1>2, <1>3 DEF Block
<1> QED BY <1>1, <1>2, <1>3, <1>4, Closed

-----------------------------------------------------------------------------
(* The disk *)

\* What IInv says of a life whose messages wait for the initialisation.
Good ==
    /\ DOMAIN index = 1..cert /\ DataOnDisk
    /\ WriteInv /\ CommitInv /\ LoadInv /\ GCInv /\ VMInv

\* Nothing in memory, anything on disk.
LEMMA FreshGood ==
    ASSUME TypeOK, Good, NEW p \in {"down", "constructed"}, Fresh(p), UNCHANGED disk
    PROVE  Good'
<1>1. /\ DOMAIN store' = {0} /\ store'[0] = genesis_object /\ task' = idle /\ txn' = NoTxn
      /\ core' = [hqc |-> 0, b_lock |-> 0, b_exec |-> 0] /\ phase' = p /\ cursor' = 1
      /\ head' = 1 /\ vm' = << >> /\ gc' = NoGC
      /\ files' = files /\ index' = index /\ cert' = cert
    BY DEF Fresh, disk
<1>2. cert \in Nat /\ DOMAIN NoTxn = {} /\ idle.pc = "idle"
    BY DEF TypeOK, NoTxn, idle
<1>3. DOMAIN index' = 1..cert' /\ DataOnDisk'
    BY <1>1 DEF Good, DataOnDisk
<1>4. WriteInv'
    BY <1>1, <1>2 DEF WriteInv, Busy, AllWritten, genesis_object
<1>5. CommitInv'
    BY <1>1, <1>2 DEF CommitInv, Busy, DecidedTo, Loaded, genesis_object
<1>6. LoadInv'
    BY <1>1, <1>2, <1>3 DEF LoadInv, Loaded
<1>7. GCInv'
    BY <1>1 DEF GCInv, NoGC
<1>8. VMInv'
  <2>1. {b \in Nonempty : b <= 0} = {}
    <3>1. \A b \in Nonempty : ~(b <= 0)
      BY RecoveryAssumption DEF Block
    <3> QED BY <3>1
  <2>2. DOMAIN vm' = {}
    BY <1>1
  <2> QED BY <1>1, <2>1, <2>2 DEF VMInv
<1> QED BY <1>3, <1>4, <1>5, <1>6, <1>7, <1>8 DEF Good

\* init_clean, and the call of init_from_disk.
LEMMA BeginGood ==
    ASSUME TypeOK, StoreInv, Good, init_clean \/ init_from_disk
    PROVE  Good'
<1>1. /\ phase = "constructed" /\ cursor = 1
      /\ UNCHANGED <<files, index, cert, cursor, store, core, task, txn, head, vm, gc>>
    BY DEF init_clean, init_from_disk, Good, LoadInv, disk
<1>2. /\ DOMAIN index' = 1..cert' /\ DataOnDisk' /\ WriteInv' /\ GCInv'
    BY <1>1 DEF Good, DataOnDisk, WriteInv, Busy, AllWritten, GCInv
<1>3. core.b_exec = 0
    BY <1>1 DEF Good, LoadInv, Loaded
<1>4. CASE init_from_disk
  <2>1. phase' = "loading"
    BY <1>4 DEF init_from_disk
  <2>2. CommitInv'
    BY <1>1, <2>1 DEF Good, CommitInv, Busy, DecidedTo, Loaded
  <2>3. LoadInv' /\ VMInv'
    BY <1>1, <2>1 DEF Good, LoadInv, VMInv, Loaded
  <2> QED BY <1>2, <2>2, <2>3 DEF Good
<1>5. CASE init_clean
  <2>1. phase' = "ready" /\ cert = 0
    BY <1>5 DEF init_clean, Good, TypeOK
  <2>2. Applied' = 0
    BY <1>1, <1>3, <2>1 DEF Applied, Good, CommitInv, Busy, TypeOK
  <2>3. CommitInv'
    BY <1>1, <1>3, <2>1, <2>2 DEF Good, CommitInv, Busy, DecidedTo, Loaded
  <2>4. LoadInv'
    BY <1>1, <1>3, <2>1 DEF Good, LoadInv, Loaded, StoreInv
  <2>5. VMInv'
    BY <1>1, <2>1, <2>2 DEF Good, VMInv
  <2> QED BY <1>2, <2>3, <2>4, <2>5 DEF Good
<1> QED BY <1>4, <1>5

\* Loading meets the file of every entry of the index, and both predecessors.
LEMMA LoadSucceeds ==
    ASSUME TypeOK, StoreInv, Good, phase = "loading", cursor \in DOMAIN index
    PROVE  /\ Readable(cursor) /\ HasPreds(cursor) /\ files[cursor] = "whole"
           /\ cursor \in Block /\ cursor <= cert /\ cursor \notin DOMAIN store /\ task = idle
<1>1. cursor \in Block /\ cursor \in 1..cert /\ cert \in 0..Length
    BY DEF TypeOK, Good
<1>2. files[cursor] = "whole"
    BY DEF Good, DataOnDisk
<1>3. cursor - 1 \in DOMAIN store /\ cursor \notin DOMAIN store
    BY <1>1 DEF Good, LoadInv, Loaded
<1>4. Justify[cursor] \in DOMAIN store
    BY <1>1, <1>3, JustifyBelow, Closed DEF Block
<1>5. task = idle
    BY <1>1 DEF Good, CommitInv
<1> QED BY <1>1, <1>2, <1>3, <1>4, <1>5 DEF Readable, HasPreds

\* A block is added that is neither written nor flushed, or loaded.
LEMMA InsertGood ==
    ASSUME TypeOK, StoreInv, Good, NEW n \in Block, n \notin DOMAIN store, NEW o \in Object,
           insert_block(n, o), HasPreds(n), ~o.flushed,
           o.written => files[n] = "whole" /\ n = cursor /\ phase = "loading" /\ task = idle,
           UNCHANGED <<disk, phase, core, task, txn, head, vm>>
    PROVE  WriteInv' /\ GCInv'
<1>1. /\ DOMAIN store' = DOMAIN store \cup {n}
      /\ \A b \in DOMAIN store : store'[b] = store[b]
      /\ store'[n] = o
      /\ gc'.want = gc.want /\ gc'.job = gc.job
    BY InsertTypes
<1>2. GCInv'
    BY <1>1 DEF Good, GCInv
<1>3. \A i \in Int, j \in DOMAIN store : 0 <= i /\ AllWritten(i, j) => AllWritten(i, j)'
  <2>1. ASSUME NEW i \in Int, NEW j \in DOMAIN store, 0 <= i, NEW b \in i..j PROVE b \in DOMAIN store
    BY <2>1, Closed DEF TypeOK
  <2> QED BY <1>1, <2>1 DEF AllWritten
<1>4. o.written => AllWritten(0, n)'
  <2>1. ASSUME o.written, NEW b \in 0..n PROVE store'[b].written
    <3>1. CASE b = n
      BY <1>1, <2>1, <3>1
    <3>2. CASE b # n
      <4>1. n - 1 \in DOMAIN store /\ b \in Int /\ 0 <= b /\ b <= n - 1
        BY <3>2 DEF HasPreds, Block
      <4>2. b \in DOMAIN store
        BY <4>1, Closed
      <4>3. store[b].decided
        BY <2>1, <4>1, <4>2 DEF Good, CommitInv, DecidedTo, Loaded
      <4> QED BY <1>1, <4>2, <4>3 DEF Good, CommitInv
    <3> QED BY <3>1, <3>2
  <2> QED BY <2>1 DEF AllWritten
<1>5. task.at \in Nat /\ core.b_lock \in DOMAIN store
    BY DEF TypeOK, StoreInv
<1>6. \A b \in DOMAIN store' \ {0} :
          store'[b].written => files[b] = "whole" \/ (Busy("save") /\ b = task.at)
    BY <1>1 DEF Good, WriteInv
<1>7. \A b \in DOMAIN store' : store'[b].written =>
          \/ AllWritten(0, b)'
          \/ Busy("write") /\ task.at < b /\ AllWritten(task.at + 1, b)'
          \/ Busy("save") /\ task.at <= b /\ AllWritten(task.at, b)'
  <2> SUFFICES ASSUME NEW b \in DOMAIN store', store'[b].written
               PROVE  \/ AllWritten(0, b)'
                      \/ Busy("write") /\ task.at < b /\ AllWritten(task.at + 1, b)'
                      \/ Busy("save") /\ task.at <= b /\ AllWritten(task.at, b)'
    OBVIOUS
  <2>1. CASE b = n
    BY <1>1, <1>4, <2>1
  <2>2. CASE b \in DOMAIN store
    <3>1. \/ AllWritten(0, b)
          \/ Busy("write") /\ task.at < b /\ AllWritten(task.at + 1, b)
          \/ Busy("save") /\ task.at <= b /\ AllWritten(task.at, b)
      BY <1>1, <2>2 DEF Good, WriteInv
    <3> QED BY <1>3, <1>5, <2>2, <3>1
  <2> QED BY <1>1, <2>1, <2>2
<1>8. /\ Busy("write") => AllWritten(task.at + 1, core.b_lock)'
      /\ Busy("save") => AllWritten(task.at, core.b_lock)'
    BY <1>3, <1>5 DEF Good, WriteInv
<1>9. /\ Busy("save") => ~store'[task.at].decided
      /\ Busy("apply") => store'[blk0(task.n)].written
    BY <1>1, TaskBlocks DEF Good, WriteInv, Busy
<1>10. WriteInv'
  <2>1. files' = files /\ task' = task /\ core' = core
    BY DEF disk
  <2>2. \A pc : Busy(pc)' <=> Busy(pc)
    BY <2>1 DEF Busy
  <2>3. Busy("write") \/ Busy("save") => task.at <= core.b_lock /\ blk1(task.n) <= core.b_lock
    BY DEF Good, WriteInv
  <2> QED BY <1>6, <1>7, <1>8, <1>9, <2>1, <2>2, <2>3 DEF WriteInv, AllWritten
<1> QED BY <1>2, <1>10

\* reload_decided_blocks.
LEMMA LoadGood ==
    ASSUME TypeOK, StoreInv, Good, reload_decided_block
    PROVE  Good' /\ failures' = failures
<1>1. phase = "loading" /\ cursor \in DOMAIN index
    BY DEF reload_decided_block
<1>2. /\ Readable(cursor) /\ HasPreds(cursor) /\ files[cursor] = "whole"
      /\ cursor \in Block /\ cursor <= cert /\ cursor \notin DOMAIN store /\ task = idle
    BY <1>1, LoadSucceeds
<1>3. /\ insert_block(cursor, loaded_object) /\ cursor' = cursor + 1
      /\ UNCHANGED <<disk, ghosts, phase, core, task, txn, head, vm>>
    BY <1>2 DEF reload_decided_block
<1>4. loaded_object \in Object /\ ~loaded_object.flushed /\ loaded_object.decided /\ loaded_object.written
    BY DEF loaded_object, Object
<1>5. /\ DOMAIN store' = DOMAIN store \cup {cursor}
      /\ \A b \in DOMAIN store : store'[b] = store[b]
      /\ store'[cursor] = loaded_object
    BY <1>2, <1>3, <1>4, InsertTypes
<1>6. WriteInv' /\ GCInv'
    BY <1>1, <1>2, <1>3, <1>4, InsertGood
<1>7. DOMAIN index' = 1..cert' /\ DataOnDisk'
    BY <1>3 DEF Good, DataOnDisk, disk
<1>8. cursor \in Int /\ cert \in Nat /\ \A b \in DOMAIN store' : b \in Int
    BY <1>2, <1>5 DEF TypeOK, Block
<1>9. CommitInv'
  <2>1. \A b \in DOMAIN store' : store'[b].decided <=> b <= cursor
    BY <1>1, <1>2, <1>4, <1>5, <1>8 DEF Good, CommitInv, DecidedTo, Loaded
  <2>2. DecidedTo' = cursor
    BY <1>1, <1>3, <1>8 DEF DecidedTo, Loaded
  <2>3. \A b \in DOMAIN store' : store'[b].decided => store'[b].written
    BY <1>4, <1>5 DEF Good, CommitInv
  <2> QED BY <1>1, <1>2, <1>3, <2>1, <2>2, <2>3 DEF Good, CommitInv, Busy, idle, disk
<1>10. LoadInv'
    BY <1>1, <1>2, <1>3, <1>5, <1>8 DEF Good, LoadInv, Loaded, disk
<1>11. VMInv'
    BY <1>1, <1>3 DEF Good, VMInv
<1> QED BY <1>3, <1>6, <1>7, <1>9, <1>10, <1>11 DEF Good, ghosts

\* What is decided is in the store.
LEMMA DecidedStored ==
    ASSUME TypeOK, StoreInv, Good
    PROVE  DecidedTo \in DOMAIN store /\ DecidedTo \in 0..Length
<1>1. CASE ~Loaded
    BY <1>1 DEF Good, LoadInv, DecidedTo, TypeOK
<1>2. CASE Loaded /\ task.pc = "apply"
  <2>1. task.at \in DOMAIN store /\ task.at # 0 /\ task.at \in 0..Length
    BY <1>2, TaskBlocks DEF StoreInv, Busy
  <2>2. task.at - 1 \in DOMAIN store /\ task.at - 1 \in 0..Length
    BY <2>1, Closed
  <2> QED BY <1>2, <2>2 DEF DecidedTo, Applied
<1>3. CASE Loaded /\ task.pc # "apply"
    BY <1>3 DEF Good, LoadInv, DecidedTo, Applied, TypeOK
<1> QED BY <1>1, <1>2, <1>3

\* A block that is not in the index arrives.
LEMMA ReceiveGood ==
    ASSUME TypeOK, StoreInv, Good, NEW n \in Block, receive_block(n), ~early'
    PROVE  Good'
<1>1. /\ n \notin DOMAIN store /\ n \notin DOMAIN index /\ HasPreds(n)
      /\ insert_block(n, received_object)
      /\ UNCHANGED <<disk, phase, cursor, core, task, txn, head, vm>>
    BY DEF receive_block
<1>2. received_object \in Object /\ ~received_object.flushed
      /\ ~received_object.decided /\ ~received_object.written
    BY DEF received_object, Object
<1>3. /\ DOMAIN store' = DOMAIN store \cup {n}
      /\ \A b \in DOMAIN store : store'[b] = store[b]
      /\ store'[n] = received_object
    BY <1>1, <1>2, InsertTypes
<1>4. WriteInv' /\ GCInv'
    BY <1>1, <1>2, InsertGood
<1>5. DOMAIN index' = 1..cert' /\ DataOnDisk'
    BY <1>1 DEF Good, DataOnDisk, disk
<1>6. ~(n <= DecidedTo)
  <2>1. DecidedTo \in DOMAIN store /\ n \in Int /\ 0 <= n
    BY DecidedStored DEF Block
  <2> QED BY <1>1, <2>1, Closed
<1>7. CommitInv'
  <2>1. DecidedTo' = DecidedTo
    BY <1>1 DEF DecidedTo, Loaded, Applied
  <2>2. \A b \in DOMAIN store' : store'[b].decided <=> b <= DecidedTo
    BY <1>2, <1>3, <1>6 DEF Good, CommitInv
  <2>3. \A b \in DOMAIN store' : store'[b].decided => store'[b].written
    BY <1>2, <1>3 DEF Good, CommitInv
  <2> QED BY <1>1, <2>1, <2>2, <2>3 DEF Good, CommitInv, Busy, Applied, disk
<1>8. LoadInv'
    BY <1>1, <1>3 DEF Good, LoadInv, Loaded, disk
<1>9. VMInv'
    BY <1>1 DEF Good, VMInv, Applied
<1> QED BY <1>4, <1>5, <1>7, <1>8, <1>9 DEF Good

\* The end of the index.
LEMMA CursorAtEnd ==
    ASSUME TypeOK, Good, phase \in {"loading", "replaying"}, cursor \notin DOMAIN index
    PROVE  cursor = cert + 1 /\ cert \in Nat
<1>1. cursor \in Int /\ cert \in Nat /\ cursor >= 1 /\ cursor <= cert + 1 /\ cursor \notin 1..cert
    BY DEF TypeOK, Good, LoadInv
<1> QED BY <1>1

\* reload_state_from_index.
LEMMA StateGood ==
    ASSUME TypeOK, StoreInv, Good, reload_state_from_index
    PROVE  \/ Good' /\ failures' = failures
           \/ fail("nothing decided")
<1>1. phase = "loading" /\ cursor \notin DOMAIN index
    BY DEF reload_state_from_index
<1>2. cursor = cert + 1 /\ cert \in Nat /\ cert \in DOMAIN store
    BY <1>1, CursorAtEnd DEF Good, LoadInv, Loaded
<1>3. CASE cert = 0
  <2>1. DOMAIN index = {}
    BY <1>3 DEF Good
  <2> QED BY <1>3, <2>1 DEF reload_state_from_index
<1>4. CASE cert # 0
  <2>1. /\ core' = [hqc |-> Max(core.hqc, cert), b_lock |-> cert, b_exec |-> cert]
        /\ phase' = "replaying" /\ cursor' = 1
        /\ UNCHANGED <<disk, ghosts, store, task, txn, head, vm, gc>>
    BY <1>2, <1>4 DEF reload_state_from_index
  <2>2. task = idle /\ task' = idle /\ core'.b_exec = cert /\ core.b_exec = 0
    BY <1>1, <1>2, <1>4, <2>1 DEF Good, CommitInv, LoadInv, Loaded
  <2>3. DOMAIN index' = 1..cert' /\ DataOnDisk'
    BY <2>1 DEF Good, DataOnDisk, disk
  <2>4. WriteInv'
    BY <2>1, <2>2 DEF Good, WriteInv, Busy, idle, AllWritten, disk
  <2>5. CommitInv'
    <3>1. DecidedTo' = DecidedTo
      BY <1>1, <1>2, <2>1, <2>2 DEF DecidedTo, Loaded, Applied, idle
    <3> QED BY <1>1, <2>1, <2>2, <3>1 DEF Good, CommitInv, Busy, idle, disk
  <2>6. LoadInv'
    BY <1>2, <1>4, <2>1 DEF LoadInv, Loaded, disk
  <2>7. GCInv'
    <3>1. \A b \in DOMAIN store : b \in Nat
      BY DEF TypeOK
    <3> QED BY <1>2, <2>1, <2>2, <3>1, RecoveryAssumption DEF Good, GCInv, TypeOK
  <2>8. VMInv'
    BY <1>1, <2>1 DEF Good, VMInv
  <2> QED BY <2>1, <2>3, <2>4, <2>5, <2>6, <2>7, <2>8 DEF Good, ghosts
<1> QED BY <1>3, <1>4

\* What the state machine has been given after one more block.
LEMMA VMGrows ==
    ASSUME NEW v \in Seq(Block), NEW b \in Block,
           {v[i] : i \in DOMAIN v} = {c \in Nonempty : c <= b - 1},
           \A i, j \in DOMAIN v : i < j => v[i] < v[j],
           NEW w, w = IF b \in Nonempty THEN Append(v, b) ELSE v
    PROVE  /\ {w[i] : i \in DOMAIN w} = {c \in Nonempty : c <= b}
           /\ \A i, j \in DOMAIN w : i < j => w[i] < w[j]
<1>1. b \in Int /\ \A c \in Nonempty : c \in Int
    BY RecoveryAssumption DEF Block
<1>2. CASE b \notin Nonempty
  <2>1. \A c \in Nonempty : c <= b - 1 <=> c <= b
    BY <1>1, <1>2
  <2> QED BY <1>2, <2>1
<1>3. CASE b \in Nonempty
  <2>1. /\ w = Append(v, b) /\ Len(v) \in Nat
        /\ DOMAIN w = 1..Len(v) + 1 /\ DOMAIN v = 1..Len(v)
        /\ w[Len(v) + 1] = b /\ \A i \in DOMAIN v : w[i] = v[i]
    BY <1>3
  <2>2. \A i \in DOMAIN w : i \in DOMAIN v \/ i = Len(v) + 1
    BY <2>1
  <2>3. DOMAIN v \subseteq DOMAIN w /\ Len(v) + 1 \in DOMAIN w
    BY <2>1
  <2>4. {w[i] : i \in DOMAIN w} = {v[i] : i \in DOMAIN v} \cup {b}
    BY <2>1, <2>2, <2>3
  <2>5. \A c \in Nonempty : c <= b <=> c <= b - 1 \/ c = b
    BY <1>1
  <2>6. {w[i] : i \in DOMAIN w} = {c \in Nonempty : c <= b}
    BY <1>3, <2>4, <2>5
  <2>7. \A i \in DOMAIN v : v[i] < b /\ v[i] \in Int
    <3>1. \A i \in DOMAIN v : v[i] \in {c \in Nonempty : c <= b - 1}
      OBVIOUS
    <3> QED BY <1>1, <3>1
  <2>8. ASSUME NEW i \in DOMAIN w, NEW j \in DOMAIN w, i < j PROVE w[i] < w[j]
    <3>1. i \in DOMAIN v /\ w[i] = v[i]
      BY <2>1, <2>8
    <3>2. CASE j \in DOMAIN v
      BY <2>1, <2>8, <3>1, <3>2
    <3>3. CASE j = Len(v) + 1
      BY <2>1, <2>7, <3>1, <3>3
    <3> QED BY <2>2, <3>2, <3>3
  <2> QED BY <2>6, <2>8
<1> QED BY <1>2, <1>3

\* init_from_disk of the state machine.
LEMMA ReplayGood ==
    ASSUME TypeOK, StoreInv, Good, replay_block
    PROVE  \/ Good' /\ failures' = failures
           \/ fail("empty body") /\ setup.vm = "CountingVM"
<1>1. phase = "replaying" /\ cursor \in DOMAIN index /\ cursor \in Block
    BY DEF replay_block, TypeOK
<1>2. files[cursor] = "whole" /\ cursor <= cert /\ cert \in Nat /\ cursor \in Int
    BY <1>1 DEF Good, DataOnDisk, TypeOK, Block
<1>3. Readable(cursor) /\ (BodyInFile(cursor) <=> cursor \in Nonempty)
    BY <1>2 DEF Readable, BodyInFile
<1>4. CASE fail("empty body") /\ setup.vm = "CountingVM"
    BY <1>4
<1>5. CASE /\ vm' = IF BodyInFile(cursor) THEN Append(vm, cursor) ELSE vm
           /\ cursor' = cursor + 1
           /\ UNCHANGED <<disk, ghosts, phase, store, core, task, txn, head, gc>>
  <2>1. DOMAIN index' = 1..cert' /\ DataOnDisk' /\ WriteInv' /\ GCInv'
    BY <1>5 DEF Good, DataOnDisk, WriteInv, Busy, AllWritten, GCInv, disk
  <2>2. CommitInv'
    BY <1>1, <1>5 DEF Good, CommitInv, Busy, DecidedTo, Loaded, Applied, disk
  <2>3. LoadInv'
    BY <1>1, <1>2, <1>5 DEF Good, LoadInv, Loaded, disk
  <2>4. VMInv'
    <3>1. vm' = IF cursor \in Nonempty THEN Append(vm, cursor) ELSE vm
      BY <1>3, <1>5
    <3>2. /\ {vm[i] : i \in DOMAIN vm} = {c \in Nonempty : c <= cursor - 1}
          /\ \A i, j \in DOMAIN vm : i < j => vm[i] < vm[j]
          /\ vm \in Seq(Block)
      BY <1>1 DEF Good, VMInv, TypeOK
    <3>3. /\ {vm'[i] : i \in DOMAIN vm'} = {c \in Nonempty : c <= cursor}
          /\ \A i, j \in DOMAIN vm' : i < j => vm'[i] < vm'[j]
      BY <1>1, <3>1, <3>2, VMGrows
    <3>4. cursor' - 1 = cursor /\ phase' = "replaying"
      BY <1>1, <1>2, <1>5
    <3> QED BY <3>3, <3>4 DEF VMInv
  <2> QED BY <1>5, <2>1, <2>2, <2>3, <2>4 DEF Good, ghosts
<1> QED BY <1>3, <1>4, <1>5 DEF replay_block

\* The state machine and the gadget stand where the index ends.
LEMMA FinishGood ==
    ASSUME TypeOK, StoreInv, Good, finish_init
    PROVE  Good'
<1>1. /\ phase = "replaying" /\ cursor \notin DOMAIN index /\ phase' = "ready" /\ head' = cursor
      /\ UNCHANGED <<disk, ghosts, cursor, store, core, task, txn, vm, gc>>
    BY DEF finish_init
<1>2. cursor = cert + 1 /\ cert \in Nat
    BY <1>1, CursorAtEnd
<1>3. task = idle /\ core.b_exec = cert
    BY <1>1, <1>2 DEF Good, LoadInv, CommitInv, Loaded
<1>4. Applied = cert /\ Applied' = cert
    BY <1>1, <1>3 DEF Applied, idle
<1>5. DOMAIN index' = 1..cert' /\ DataOnDisk' /\ WriteInv' /\ GCInv'
    BY <1>1 DEF Good, DataOnDisk, WriteInv, Busy, AllWritten, GCInv, disk
<1>6. CommitInv'
    BY <1>1, <1>2, <1>3, <1>4 DEF Good, CommitInv, Busy, DecidedTo, Loaded, idle, disk
<1>7. LoadInv'
    BY <1>1, <1>2 DEF Good, LoadInv, Loaded, disk
<1>8. VMInv'
    BY <1>1, <1>2, <1>4 DEF Good, VMInv
<1> QED BY <1>5, <1>6, <1>7, <1>8 DEF Good

\* The lock: what is written next lies on the path to it.
LEMMA UpdateGood ==
    ASSUME TypeOK, StoreInv, Good, NEW n \in Block, update(n), ~early'
    PROVE  Good'
<1>1. /\ task = idle /\ n \in DOMAIN store /\ ~store[blk2(n)].decided
      /\ UNCHANGED <<disk, phase, cursor, store, txn, head, vm, gc>>
      /\ phase = "ready" \/ DOMAIN index = {}
    BY DEF update
<1>2. PICK b_lock :
        /\ b_lock = IF store[blk1(n)].decided THEN core.b_lock ELSE Max(core.b_lock, blk1(n))
        /\ core' = [core EXCEPT !.hqc = Max(@, blk2(n)), !.b_lock = b_lock]
        /\ task' = IF store[blk1(n)].decided THEN idle ELSE doing("write", n, b_lock)
    BY DEF update
<1>3. core'.b_lock = b_lock /\ core'.b_exec = core.b_exec
    BY <1>2 DEF TypeOK
<1>4. blk1(n) \in Int
  <2>1. blk2(n) # 0
    BY <1>1 DEF StoreInv, genesis_object
  <2>2. blk2(n) \in Block
    BY <2>1, RecoveryAssumption DEF blk2, Block
  <2> QED BY <2>2, RecoveryAssumption DEF blk1, Block
<1>5. b_lock \in Int /\ (store[blk1(n)].decided \/ blk1(n) <= b_lock)
    BY <1>2, <1>4 DEF Max, TypeOK
<1>6. task' = idle \/ (task' = doing("write", n, b_lock) /\ blk1(n) <= b_lock)
  <2>1. CASE store[blk1(n)].decided
    BY <1>2, <2>1
  <2>2. CASE ~store[blk1(n)].decided
    BY <1>2, <1>5, <2>2
  <2> QED BY <2>1, <2>2
<1>7. DOMAIN index' = 1..cert' /\ DataOnDisk' /\ GCInv'
    BY <1>1, <1>3 DEF Good, DataOnDisk, GCInv, disk
<1>8. WriteInv'
    BY <1>1, <1>3, <1>5, <1>6 DEF Good, WriteInv, Busy, AllWritten, idle, doing, disk
<1>9. CommitInv'
  <2>1. DecidedTo' = DecidedTo /\ Applied' = Applied /\ ~Busy("apply") /\ ~Busy("apply")'
    BY <1>1, <1>3, <1>6 DEF DecidedTo, Loaded, Applied, Busy, idle, doing
  <2>2. phase # "ready" => ~(cert > 0)
    <3>1. cert > 0 => 1 \in DOMAIN index
      BY DEF Good, TypeOK
    <3> QED BY <1>1, <3>1
  <2> QED BY <1>1, <1>3, <2>1, <2>2 DEF Good, CommitInv, disk
<1>10. LoadInv'
    BY <1>1, <1>3 DEF Good, LoadInv, Loaded, disk
<1>11. VMInv'
  <2>1. Applied' = Applied
    BY <1>1, <1>3, <1>6 DEF Applied, idle, doing
  <2> QED BY <1>1, <2>1 DEF Good, VMInv
<1> QED BY <1>7, <1>8, <1>9, <1>10, <1>11 DEF Good

\* While update is at work, the index has decided blocks of the store only.
LEMMA IndexDecided ==
    ASSUME TypeOK, StoreInv, Good, task.pc # "idle", NEW b \in DOMAIN store,
           ~store[b].decided
    PROVE  b \notin DOMAIN index /\ core.b_exec < b
<1>1. ~(b <= DecidedTo) /\ b \in Nat
    BY DEF Good, CommitInv, TypeOK
<1>2. CASE Loaded
  <2>1. core.b_exec = cert /\ cert \in Nat
    BY <1>2 DEF Good, LoadInv, TypeOK
  <2>2. core.b_exec <= DecidedTo /\ DecidedTo \in Int
    <3>1. CASE task.pc = "apply"
      <4>1. core.b_exec < task.at /\ task.at \in Int
        BY <3>1 DEF Good, CommitInv, Busy, TypeOK
      <4> QED BY <1>2, <2>1, <3>1, <4>1 DEF DecidedTo, Applied
    <3>2. CASE task.pc # "apply"
      BY <1>2, <2>1, <3>2 DEF DecidedTo, Applied
    <3> QED BY <3>1, <3>2
  <2>3. core.b_exec < b
    BY <1>1, <2>1, <2>2
  <2> QED BY <1>1, <2>1, <2>3 DEF Good
<1>3. CASE ~Loaded
  <2>1. core.b_exec = 0 /\ ~(cert > 0) /\ cert \in Nat
    BY <1>3 DEF Good, LoadInv, CommitInv, Loaded, idle, TypeOK
  <2>2. b # 0
    BY DEF StoreInv, genesis_object
  <2> QED BY <1>1, <2>1, <2>2 DEF Good
<1> QED BY <1>2, <1>3

\* The file that is truncated is none the index needs.
LEMMA WriteGood ==
    ASSUME TypeOK, StoreInv, Good, write_to_disk
    PROVE  Good'
<1>1. /\ task.pc = "write" /\ ~store[task.at].written
      /\ store' = [store EXCEPT ![task.at].written = TRUE]
      /\ files' = [files EXCEPT ![task.at] = "torn"]
      /\ task' = [task EXCEPT !.pc = "save"]
      /\ UNCHANGED <<index, cert, ghosts, phase, cursor, core, txn, head, vm, gc>>
    BY DEF write_to_disk
<1>2. task.at \in DOMAIN store /\ task.at \in 0..Length
    BY <1>1, TaskBlocks
<1>3. ~store[task.at].decided
    BY <1>1, <1>2 DEF Good, CommitInv
<1>4. task.at \notin DOMAIN index
    BY <1>1, <1>2, <1>3, IndexDecided
<1>5. task'.pc = "save" /\ task'.at = task.at /\ task'.n = task.n
    BY <1>1 DEF TypeOK
<1>6. /\ DOMAIN store' = DOMAIN store /\ store'[task.at].written
      /\ \A b \in DOMAIN store :
            /\ store'[b].decided = store[b].decided /\ store'[b].flushed = store[b].flushed
            /\ b # task.at => store'[b].written = store[b].written
    BY <1>1, <1>2 DEF TypeOK, Object
<1>7. /\ \A b \in Block : b # task.at => files'[b] = files[b]
      /\ \A b \in DOMAIN store : b \in Nat /\ (b = 0 \/ b \in Block)
    BY <1>1 DEF TypeOK, Block
<1>8. DOMAIN index' = 1..cert' /\ DataOnDisk'
    BY <1>1, <1>4, <1>7 DEF Good, DataOnDisk, TypeOK
<1>9. WriteInv'
  <2>1. \A i \in Int, j \in DOMAIN store : 0 <= i /\ AllWritten(i, j) => AllWritten(i, j)'
    <3>1. ASSUME NEW i \in Int, NEW j \in DOMAIN store, 0 <= i, NEW b \in i..j PROVE b \in DOMAIN store
      BY <3>1, Closed DEF TypeOK
    <3> QED BY <1>6, <3>1 DEF AllWritten
  <2>2. \A j \in DOMAIN store : AllWritten(task.at + 1, j) => AllWritten(task.at, j)'
    <3> SUFFICES ASSUME NEW j \in DOMAIN store, AllWritten(task.at + 1, j), NEW b \in task.at..j
                 PROVE  store'[b].written
      <4>1. task' = [task EXCEPT !.pc = "save"] /\ task'.at = task.at
        BY <1>1, <1>5
      <4> QED BY <4>1 DEF AllWritten
    <3>1. CASE b = task.at
      BY <1>6, <3>1
    <3>2. CASE b # task.at
      <4>1. b \in task.at + 1..j /\ b \in Int /\ 0 <= b /\ b <= j
        BY <1>2, <1>7, <3>2
      <4>2. b \in DOMAIN store
        BY <4>1, Closed
      <4> QED BY <1>6, <3>2, <4>1, <4>2 DEF AllWritten
    <3> QED BY <3>1, <3>2
  <2>3. \A b \in DOMAIN store \ {0} : store'[b].written => files'[b] = "whole" \/ b = task.at
    BY <1>1, <1>6, <1>7 DEF Good, WriteInv, Busy
  <2>4. \A b \in DOMAIN store : store'[b].written =>
            AllWritten(0, b)' \/ (task.at <= b /\ AllWritten(task.at, b)')
    <3> SUFFICES ASSUME NEW b \in DOMAIN store, store'[b].written
                 PROVE  AllWritten(0, b)' \/ (task.at <= b /\ AllWritten(task.at, b)')
      OBVIOUS
    <3>1. CASE b = task.at
      <4>1. AllWritten(task.at + 1, task.at)
        BY <1>2 DEF AllWritten
      <4> QED BY <1>2, <2>2, <3>1, <4>1
    <3>2. CASE b # task.at
      <4>1. AllWritten(0, b) \/ (task.at < b /\ AllWritten(task.at + 1, b))
        BY <1>1, <1>6, <3>2 DEF Good, WriteInv, Busy
      <4> QED BY <1>2, <1>7, <2>1, <2>2, <4>1
    <3> QED BY <3>1, <3>2
  <2>5. AllWritten(task.at, core.b_lock)' /\ ~store'[task.at].decided
    <3>1. AllWritten(task.at, core.b_lock)'
      <4>1. PICK l : l = core.b_lock
        OBVIOUS
      <4>2. AllWritten(task.at + 1, l) /\ l \in DOMAIN store
        BY <1>1, <4>1 DEF Good, WriteInv, Busy, StoreInv
      <4>3. AllWritten(task.at, l)'
        BY <2>2, <4>2
      <4> QED BY <1>1, <4>1, <4>3 DEF AllWritten
    <3> QED BY <1>2, <1>3, <1>6, <3>1
  <2>6. task.at <= core.b_lock /\ blk1(task.n) <= core.b_lock
    BY <1>1 DEF Good, WriteInv, Busy
  <2> QED BY <1>1, <1>5, <1>6, <2>3, <2>4, <2>5, <2>6 DEF WriteInv, Busy, AllWritten
<1>10. Applied' = Applied /\ DecidedTo' = DecidedTo
    BY <1>1, <1>5 DEF DecidedTo, Loaded, Applied
<1>11. CommitInv'
  <2>1. \A b \in DOMAIN store' : store'[b].decided <=> b <= DecidedTo
    BY <1>6 DEF Good, CommitInv
  <2>2. \A b \in DOMAIN store' : store'[b].decided => store'[b].written
    BY <1>6 DEF Good, CommitInv
  <2> QED BY <1>1, <1>5, <1>10, <2>1, <2>2 DEF Good, CommitInv, Busy, idle
<1>12. LoadInv' /\ GCInv'
    BY <1>1, <1>6 DEF Good, LoadInv, Loaded, GCInv
<1>13. VMInv'
    BY <1>1, <1>10 DEF Good, VMInv
<1> QED BY <1>8, <1>9, <1>11, <1>12, <1>13 DEF Good

\* What is saved has its body still.
LEMMA SaveGood ==
    ASSUME TypeOK, StoreInv, Good, save_block
    PROVE  Good'
<1>1. /\ task.pc = "save"
      /\ files' = [files EXCEPT ![task.at] = IF store[task.at].flushed THEN "hollow" ELSE "whole"]
      /\ task' = doing("write", task.n, task.at - 1)
      /\ UNCHANGED <<index, cert, ghosts, phase, cursor, store, core, txn, head, vm, gc>>
    BY DEF save_block
<1>2. task.at \in DOMAIN store /\ task.at \in 0..Length /\ task.at # 0
    BY <1>1, TaskBlocks DEF StoreInv, Busy
<1>3. ~store[task.at].decided
    BY <1>1 DEF Good, WriteInv, Busy
<1>4. core.b_exec < task.at
    BY <1>1, <1>2, <1>3, IndexDecided
<1>5. ~store[task.at].flushed
    BY <1>2, <1>4, RecoveryAssumption DEF Good, GCInv, TypeOK
<1>6. files' = [files EXCEPT ![task.at] = "whole"] /\ task.at \in Block
    BY <1>1, <1>2, <1>5 DEF Block
<1>7. /\ \A b \in Block : files'[b] = files[b] \/ files'[b] = "whole"
      /\ files'[task.at] = "whole"
    BY <1>6 DEF TypeOK
<1>8. task'.pc = "write" /\ task'.n = task.n /\ task'.at = task.at - 1 /\ task'.at + 1 = task.at
    BY <1>1, <1>2 DEF doing
<1>9. DOMAIN index' = 1..cert' /\ DataOnDisk'
    BY <1>1, <1>7 DEF Good, DataOnDisk, TypeOK
<1>10. WriteInv'
  <2>1. \A b \in DOMAIN store \ {0} : store[b].written => files'[b] = "whole"
    <3>1. \A b \in DOMAIN store \ {0} : b \in Block
      BY DEF TypeOK, Block
    <3> QED BY <1>1, <1>7, <3>1 DEF Good, WriteInv, Busy
  <2>2. \A b \in DOMAIN store : store[b].written =>
            AllWritten(0, b) \/ (task'.at < b /\ AllWritten(task'.at + 1, b))
    <3>1. \A b \in DOMAIN store : b \in Int
      BY DEF TypeOK
    <3> QED BY <1>1, <1>2, <1>8, <3>1 DEF Good, WriteInv, Busy
  <2>3. /\ AllWritten(task'.at + 1, core.b_lock)
        /\ task'.at <= core.b_lock /\ blk1(task.n) <= core.b_lock
    <3>1. core.b_lock \in Int
      BY DEF TypeOK
    <3> QED BY <1>1, <1>2, <1>8, <3>1 DEF Good, WriteInv, Busy
  <2> QED BY <1>1, <1>8, <2>1, <2>2, <2>3 DEF WriteInv, Busy, AllWritten
<1>11. Applied' = Applied /\ DecidedTo' = DecidedTo
    BY <1>1, <1>8 DEF DecidedTo, Loaded, Applied
<1>12. CommitInv'
    BY <1>1, <1>8, <1>11 DEF Good, CommitInv, Busy, idle
<1>13. LoadInv' /\ GCInv'
    BY <1>1 DEF Good, LoadInv, Loaded, GCInv
<1>14. VMInv'
    BY <1>1, <1>11 DEF Good, VMInv
<1> QED BY <1>9, <1>10, <1>12, <1>13, <1>14 DEF Good

\* The path is written down to a block below which everything is: so is the block
\* to be committed, and b_exec does not lie above it.
LEMMA OpenGood ==
    ASSUME TypeOK, StoreInv, Good, open_txn
    PROVE  Good' /\ failures' = failures
<1> DEFINE n == task.n
<1>1. task.pc = "write" /\ store[task.at].written
    BY DEF open_txn
<1>2. /\ n \in Block /\ task.at \in DOMAIN store /\ task.at \in 0..Length
      /\ blk0(n) \in DOMAIN store /\ blk0(n) \in 0..Length /\ blk1(n) \in 0..Length
      /\ blk0(n) < blk1(n)
    BY <1>1, TaskBlocks
<1>3. core.b_exec \in Nat /\ core.b_lock \in DOMAIN store /\ \A b \in DOMAIN store : b \in Nat
    BY DEF TypeOK, StoreInv
<1>4. ~store[blk0(n)].decided => core.b_exec < blk0(n)
    BY <1>1, <1>2, IndexDecided
<1>5. /\ task' = idle \/ (core.b_exec < blk0(n) /\ task' = doing("apply", n, core.b_exec + 1))
      /\ UNCHANGED <<disk, ghosts, phase, cursor, store, core, txn, head, vm, gc>>
  <2>1. CASE store[blk0(n)].decided
    BY <2>1 DEF open_txn
  <2>2. CASE ~store[blk0(n)].decided
    <3>1. core.b_exec < blk0(n) /\ ~(blk0(n) < core.b_exec)
      BY <1>2, <1>3, <1>4, <2>2
    <3> QED BY <2>2, <3>1 DEF open_txn
  <2> QED BY <2>1, <2>2
<1>6. AllWritten(0, task.at)
    BY <1>1, <1>2, <1>3 DEF Good, WriteInv, Busy
<1>7. ASSUME NEW b \in DOMAIN store, AllWritten(task.at + 1, b) PROVE AllWritten(0, b)
  <2>1. \A i \in 0..b : i \in 0..task.at \/ i \in task.at + 1..b
    BY <1>2, <1>3
  <2> QED BY <1>6, <1>7, <2>1 DEF AllWritten
<1>8. \A b \in DOMAIN store : store[b].written => AllWritten(0, b)
    BY <1>1, <1>7 DEF Good, WriteInv, Busy
<1>9. store[blk0(n)].written
  <2>1. AllWritten(0, core.b_lock) /\ blk1(n) <= core.b_lock
    BY <1>1, <1>3, <1>7 DEF Good, WriteInv, Busy
  <2>2. blk0(n) \in 0..core.b_lock
    BY <1>2, <1>3, <2>1
  <2> QED BY <2>1, <2>2 DEF AllWritten
<1>10. /\ task'.pc = "idle" \/ task'.pc = "apply"
       /\ task'.pc = "idle" => task' = idle
       /\ task'.pc = "apply" => /\ task'.n = n /\ task'.at = core.b_exec + 1
                                 /\ core.b_exec < blk0(n)
    BY <1>5 DEF idle, doing
<1>11. DOMAIN index' = 1..cert' /\ DataOnDisk' /\ GCInv'
    BY <1>5 DEF Good, DataOnDisk, GCInv, disk
<1>12. WriteInv'
  <2>1. \A b \in DOMAIN store \ {0} : store[b].written => files[b] = "whole"
    BY <1>1 DEF Good, WriteInv, Busy
  <2> QED BY <1>5, <1>8, <1>9, <1>10, <2>1 DEF WriteInv, Busy, AllWritten, disk
<1>13. Applied' = Applied /\ DecidedTo' = DecidedTo
    BY <1>1, <1>3, <1>5, <1>10 DEF DecidedTo, Loaded, Applied
<1>14. CommitInv'
  <2>1. DOMAIN txn = {} /\ (phase # "ready" => ~(cert > 0))
    BY <1>1 DEF Good, CommitInv, Busy, idle
  <2>2. DOMAIN txn' = IF Busy("apply")' THEN core.b_exec + 1 .. task'.at - 1 ELSE {}
    BY <1>3, <1>5, <1>10, <2>1 DEF Busy
  <2>3. Busy("apply")' => /\ core.b_exec < blk0(task'.n) /\ core.b_exec < task'.at
                          /\ task'.at = core.b_exec + 1
    BY <1>3, <1>10 DEF Busy
  <2> QED BY <1>5, <1>13, <2>1, <2>2, <2>3 DEF Good, CommitInv, disk
<1>15. LoadInv'
    BY <1>5 DEF Good, LoadInv, Loaded, disk
<1>16. VMInv'
    BY <1>5, <1>13 DEF Good, VMInv
<1> QED BY <1>5, <1>11, <1>12, <1>14, <1>15, <1>16 DEF Good, ghosts

\* A decided block is written, has its body, and is the next the gadget expects.
LEMMA ApplyGood ==
    ASSUME TypeOK, StoreInv, Good, apply_block
    PROVE  \/ Good' /\ failures' = failures
           \/ fail("uninitialized vm")
           \/ fail("empty body") /\ setup.bridge # "speculative"
<1> DEFINE at == task.at
<1>1. task.pc = "apply" /\ at <= blk0(task.n)
    BY DEF apply_block
<1>2. /\ task.n \in Block /\ at \in DOMAIN store /\ at \in 0..Length /\ at # 0
      /\ blk0(task.n) \in DOMAIN store /\ blk0(task.n) \in 0..Length
    BY <1>1, TaskBlocks DEF StoreInv, Busy
<1>3. core.b_exec \in Nat /\ core.b_exec < at /\ \A b \in DOMAIN store : b \in Nat
    BY <1>1 DEF TypeOK, Good, CommitInv, Busy
<1>4. ~store[at].flushed
    BY <1>2, <1>3, RecoveryAssumption DEF Good, GCInv
<1>5. phase = "ready" => head = at
    BY <1>1, <1>2 DEF Good, CommitInv, Applied
<1>6. CASE phase # "ready"
    BY <1>6 DEF apply_block
<1>7. CASE phase = "ready" /\ fail("empty body") /\ setup.bridge # "speculative"
    BY <1>7
<1>8. CASE /\ phase = "ready"
           /\ store' = [store EXCEPT ![at].decided = TRUE]
           /\ DOMAIN txn' = DOMAIN txn \cup {at}
           /\ vm' = IF at \in Nonempty THEN Append(vm, at) ELSE vm
           /\ head' = at + 1
           /\ task' = [task EXCEPT !.at = at + 1]
           /\ UNCHANGED <<disk, ghosts, phase, cursor, core, gc>>
  <2>1. task'.pc = "apply" /\ task'.at = at + 1 /\ task'.n = task.n
    BY <1>1, <1>8 DEF TypeOK
  <2>2. /\ DOMAIN store' = DOMAIN store /\ store'[at].decided
        /\ \A b \in DOMAIN store :
              /\ store'[b].written = store[b].written /\ store'[b].flushed = store[b].flushed
              /\ b # at => store'[b].decided = store[b].decided
    BY <1>2, <1>8 DEF TypeOK, Object
  <2>3. Applied = at - 1 /\ Applied' = at /\ DecidedTo = at - 1 /\ DecidedTo' = at
    BY <1>1, <1>2, <1>8, <2>1 DEF Applied, DecidedTo, Loaded
  <2>4. DOMAIN index' = 1..cert' /\ DataOnDisk'
    BY <1>8 DEF Good, DataOnDisk, disk
  <2>5. \A b \in DOMAIN store : store[b].written => AllWritten(0, b)
    BY <1>1 DEF Good, WriteInv, Busy
  <2>6. store[at].written
    <3>1. AllWritten(0, blk0(task.n)) /\ at \in 0..blk0(task.n)
      BY <1>1, <1>2, <2>5 DEF Good, WriteInv, Busy
    <3> QED BY <3>1 DEF AllWritten
  <2>7. WriteInv'
    <3>1. \A b \in DOMAIN store : store'[b].written => AllWritten(0, b)'
      <4>1. ASSUME NEW b \in DOMAIN store, NEW i \in 0..b PROVE i \in DOMAIN store
        BY Closed DEF StoreInv
      <4> QED BY <2>2, <2>5, <4>1 DEF AllWritten
    <3>2. \A b \in DOMAIN store' \ {0} : store'[b].written => files'[b] = "whole"
      BY <1>1, <1>8, <2>2 DEF Good, WriteInv, Busy, disk
    <3>3. store'[blk0(task.n)].written
      BY <1>1, <1>2, <2>2 DEF Good, WriteInv, Busy
    <3> QED BY <2>1, <2>2, <3>1, <3>2, <3>3 DEF WriteInv, Busy
  <2>8. CommitInv'
    <3>1. \A b \in DOMAIN store' : store'[b].decided <=> b <= at
      BY <1>2, <1>3, <2>2, <2>3 DEF Good, CommitInv
    <3>2. \A b \in DOMAIN store' : store'[b].decided => store'[b].written
      BY <2>2, <2>6 DEF Good, CommitInv
    <3>3. DOMAIN txn' = core.b_exec + 1 .. task'.at - 1
      <4>1. DOMAIN txn = core.b_exec + 1 .. at - 1
        BY <1>1 DEF Good, CommitInv, Busy
      <4> QED BY <1>2, <1>3, <1>8, <2>1, <4>1
    <3>4. core.b_exec < blk0(task.n) /\ core.b_exec < task'.at
      BY <1>1, <1>2, <1>3, <2>1
    <3> QED BY <1>8, <2>1, <2>3, <3>1, <3>2, <3>3, <3>4 DEF CommitInv, Busy
  <2>9. LoadInv' /\ GCInv'
    BY <1>8, <2>2 DEF Good, LoadInv, Loaded, GCInv, disk
  <2>10. VMInv'
    <3>1. /\ {vm[i] : i \in DOMAIN vm} = {c \in Nonempty : c <= at - 1}
          /\ \A i, j \in DOMAIN vm : i < j => vm[i] < vm[j]
          /\ vm \in Seq(Block) /\ at \in Block
      BY <1>2, <1>8, <2>3 DEF Good, VMInv, TypeOK, Block
    <3>2. /\ {vm'[i] : i \in DOMAIN vm'} = {c \in Nonempty : c <= at}
          /\ \A i, j \in DOMAIN vm' : i < j => vm'[i] < vm'[j]
      <4>1. vm' = IF at \in Nonempty THEN Append(vm, at) ELSE vm
        BY <1>8
      <4> HIDE DEF at
      <4> QED BY <3>1, <4>1, VMGrows
    <3> QED BY <1>8, <2>3, <3>2 DEF VMInv
  <2> QED BY <1>8, <2>4, <2>7, <2>8, <2>9, <2>10 DEF Good, ghosts
<1> QED BY <1>4, <1>5, <1>6, <1>7, <1>8 DEF apply_block

\* The transaction takes the index from one whole prefix of the chain to another.
LEMMA CommitGood ==
    ASSUME TypeOK, StoreInv, Good, commit
    PROVE  Good'
<1> DEFINE top == blk0(task.n)
<1>1. /\ task.pc = "apply" /\ task.at > top
      /\ core' = [core EXCEPT !.b_exec = top]
      /\ index' = [h \in DOMAIN index \cup DOMAIN txn |->
                      IF h \in DOMAIN txn THEN txn[h] ELSE index[h]]
      /\ cert' = top
      /\ gc' = [gc EXCEPT !.want = Max(0, top - KeepDepth)]
      /\ txn' = NoTxn /\ task' = idle
      /\ UNCHANGED <<files, ghosts, phase, cursor, store, head, vm>>
    BY DEF commit
<1>2. /\ task.n \in Block /\ task.at \in 0..Length /\ top \in DOMAIN store /\ top \in 0..Length
      /\ task.at <= top + 1
    BY <1>1, TaskBlocks DEF StoreInv, Busy
<1>3. core.b_exec \in Nat /\ core.b_exec < top /\ core'.b_exec = top
      /\ core'.b_lock = core.b_lock
    BY <1>1 DEF TypeOK, Good, CommitInv, Busy
<1>4. task.at = top + 1
    BY <1>1, <1>2
<1>5. phase = "ready" /\ core.b_exec = cert
  <2>1. task.at # core.b_exec + 1
    BY <1>2, <1>3, <1>4
  <2> QED BY <1>1, <2>1 DEF Good, CommitInv, LoadInv, Loaded, Busy
<1>6. DOMAIN txn = core.b_exec + 1 .. top
    BY <1>1, <1>2, <1>4 DEF Good, CommitInv, Busy
<1>7. DOMAIN index' = 1..cert'
  <2>1. DOMAIN index' = (1..cert) \cup (cert + 1 .. top)
    BY <1>1, <1>5, <1>6 DEF Good
  <2> QED BY <1>1, <1>2, <1>3, <1>5, <2>1
<1>8. AllWritten(0, top) /\ \A b \in DOMAIN store : store[b].written => AllWritten(0, b)
    BY <1>1, <1>2 DEF Good, WriteInv, Busy
<1>9. DataOnDisk'
  <2> SUFFICES ASSUME NEW h \in 1..top PROVE files[h] = "whole"
    BY <1>1, <1>7 DEF DataOnDisk
  <2>1. store[h].written
    BY <1>2, <1>8 DEF AllWritten
  <2>2. h \in DOMAIN store /\ h # 0
    BY <1>2, Closed
  <2> QED BY <1>1, <2>1, <2>2 DEF Good, WriteInv, Busy
<1>10. WriteInv'
    BY <1>1, <1>8 DEF Good, WriteInv, Busy, AllWritten, idle
<1>11. Applied' = Applied /\ DecidedTo' = DecidedTo
    BY <1>1, <1>2, <1>3, <1>4, <1>5 DEF Applied, DecidedTo, Loaded, idle
<1>12. CommitInv'
    BY <1>1, <1>5, <1>11 DEF Good, CommitInv, Busy, idle, NoTxn
<1>13. LoadInv'
    BY <1>1, <1>2, <1>3, <1>5 DEF Good, LoadInv, Loaded
<1>14. GCInv'
  <2>1. \A b \in DOMAIN store : b \in Nat
    BY DEF TypeOK
  <2>2. gc'.job = gc.job /\ gc'.want = Max(0, top - KeepDepth) /\ gc.job \in Nat
    BY <1>1 DEF TypeOK
  <2>3. gc'.want > 0 => gc'.want + KeepDepth <= top
    BY <1>2, <2>2, RecoveryAssumption DEF Max
  <2>4. \A b \in DOMAIN store \ {0} : store[b].flushed => b + KeepDepth < top
    BY <1>2, <1>3, <2>1, RecoveryAssumption DEF Good, GCInv
  <2>5. gc.job > 0 => gc.job + KeepDepth <= top
    BY <1>2, <1>3, <2>2, RecoveryAssumption DEF Good, GCInv
  <2> QED BY <1>1, <1>3, <2>2, <2>3, <2>4, <2>5 DEF GCInv
<1>15. VMInv'
    BY <1>1, <1>11 DEF Good, VMInv
<1> QED BY <1>7, <1>9, <1>10, <1>12, <1>13, <1>14, <1>15 DEF Good

\* The collector flushes below the pruning height only, which b_exec has passed.
LEMMA CollectorGood ==
    ASSUME TypeOK, StoreInv, Good, gc_run \/ do_gc
    PROVE  Good'
<1>1. UNCHANGED <<files, index, cert, phase, cursor, core, task, txn, head, vm>>
    BY DEF gc_run, do_gc, disk
<1>2. DOMAIN index' = 1..cert' /\ DataOnDisk' /\ VMInv'
    BY <1>1 DEF Good, DataOnDisk, VMInv, Applied
<1>3. CASE gc_run
  <2>1. store' = store /\ gc'.want = 0 /\ gc'.job = gc.want
    BY <1>3 DEF gc_run
  <2>2. WriteInv' /\ CommitInv' /\ LoadInv'
    BY <1>1, <2>1 DEF Good, WriteInv, CommitInv, LoadInv, Busy, AllWritten, DecidedTo, Loaded, Applied
  <2>3. GCInv'
    BY <1>1, <2>1 DEF Good, GCInv
  <2> QED BY <1>2, <2>2, <2>3 DEF Good
<1>4. CASE do_gc
  <2>1. PICK old : /\ old = {b \in gc.list : b < gc.job}
                   /\ store' = [b \in DOMAIN store |->
                          IF b \in old THEN [store[b] EXCEPT !.flushed = TRUE] ELSE store[b]]
                   /\ gc' = [gc EXCEPT !.list = @ \ old, !.job = 0] /\ gc.job > 0
    BY <1>4 DEF do_gc
  <2>2. /\ DOMAIN store' = DOMAIN store
        /\ \A b \in DOMAIN store :
              /\ store'[b].written = store[b].written /\ store'[b].decided = store[b].decided
              /\ b \notin old => store'[b].flushed = store[b].flushed
    BY <2>1 DEF TypeOK, Object
  <2>3. \A i \in Int, j \in DOMAIN store : 0 <= i /\ AllWritten(i, j) => AllWritten(i, j)'
    <3>1. ASSUME NEW i \in Int, NEW j \in DOMAIN store, 0 <= i, NEW b \in i..j PROVE b \in DOMAIN store
      BY <3>1, Closed DEF TypeOK
    <3> QED BY <2>2, <3>1 DEF AllWritten
  <2>4. WriteInv'
    <3>1. task.at \in Nat /\ core.b_lock \in DOMAIN store
      BY DEF TypeOK, StoreInv
    <3>2. \A b \in DOMAIN store : store[b].written =>
              \/ AllWritten(0, b)'
              \/ Busy("write") /\ task.at < b /\ AllWritten(task.at + 1, b)'
              \/ Busy("save") /\ task.at <= b /\ AllWritten(task.at, b)'
      BY <1>1, <2>3, <3>1 DEF Good, WriteInv
    <3>3. /\ Busy("write") => AllWritten(task.at + 1, core.b_lock)'
          /\ Busy("save") => AllWritten(task.at, core.b_lock)' /\ ~store'[task.at].decided
          /\ Busy("apply") => store'[blk0(task.n)].written
      BY <1>1, <2>2, <2>3, <3>1, TaskBlocks DEF Good, WriteInv, Busy
    <3>4. /\ \A b \in DOMAIN store \ {0} :
                store[b].written => files[b] = "whole" \/ (Busy("save") /\ b = task.at)
          /\ Busy("write") \/ Busy("save") => task.at <= core.b_lock /\ blk1(task.n) <= core.b_lock
      BY DEF Good, WriteInv
    <3>5. \A pc : Busy(pc)' <=> Busy(pc)
      BY <1>1 DEF Busy
    <3> QED BY <1>1, <2>2, <3>2, <3>3, <3>4, <3>5 DEF WriteInv, AllWritten
  <2>5. CommitInv'
    <3>1. DecidedTo' = DecidedTo /\ Applied' = Applied
      BY <1>1 DEF DecidedTo, Loaded, Applied
    <3>2. \A b \in DOMAIN store' : store'[b].decided <=> b <= DecidedTo
      BY <2>2 DEF Good, CommitInv
    <3>3. \A b \in DOMAIN store' : store'[b].decided => store'[b].written
      BY <2>2 DEF Good, CommitInv
    <3> QED BY <1>1, <3>1, <3>2, <3>3 DEF Good, CommitInv, Busy
  <2>6. LoadInv'
    BY <1>1, <2>2 DEF Good, LoadInv, Loaded
  <2>7. GCInv'
    <3>1. \A b \in old : b + KeepDepth < core.b_exec
      <4>1. gc.job + KeepDepth <= core.b_exec
        BY <2>1 DEF Good, GCInv
      <4> QED BY <2>1, <4>1, RecoveryAssumption DEF TypeOK, Block
    <3>2. gc'.want = gc.want /\ gc'.job = 0
      BY <2>1 DEF TypeOK
    <3> QED BY <1>1, <2>2, <3>1, <3>2 DEF Good, GCInv
  <2> QED BY <1>2, <2>4, <2>5, <2>6, <2>7 DEF Good
<1> QED BY <1>3, <1>4

-----------------------------------------------------------------------------
(* The theorems *)

Breakdowns == {"unreadable", "no certificate", "safety breached", "gap in commit log"}

\* Every step of a life whose messages waited for the initialisation.
LEMMA GoodStep ==
    ASSUME TypeOK, StoreInv, Good, ~early', [Next]_vars
    PROVE  Good' /\ Breakdowns \cap failures' \subseteq Breakdowns \cap failures
<1>1. ASSUME NEW reason, reason \notin Breakdowns, fail(reason)
      PROVE  Good' /\ Breakdowns \cap failures' \subseteq Breakdowns \cap failures
    BY <1>1, FreshGood DEF fail
<1>2. CASE construct \/ crash
    BY <1>2, FreshGood DEF construct, crash, ghosts
<1>3. CASE init_clean \/ init_from_disk \/ finish_init
  <2>1. failures' = failures
    BY <1>3 DEF init_clean, init_from_disk, finish_init, ghosts
  <2> QED BY <1>3, <2>1, BeginGood, FinishGood
<1>4. CASE reload_decided_block
    BY <1>4, LoadGood
<1>5. CASE reload_state_from_index
    BY <1>1, <1>5, StateGood DEF Breakdowns
<1>6. CASE replay_block
    BY <1>1, <1>6, ReplayGood DEF Breakdowns
<1>7. ASSUME NEW n \in Block, receive_block(n) \/ update(n)
      PROVE  Good' /\ failures' = failures
  <2>1. failures' = failures
    BY <1>7 DEF receive_block, update
  <2> QED BY <1>7, <2>1, ReceiveGood, UpdateGood
<1>8. CASE write_to_disk \/ save_block \/ commit \/ gc_run \/ do_gc
  <2>1. failures' = failures
    BY <1>8 DEF write_to_disk, save_block, commit, gc_run, do_gc, ghosts
  <2> QED BY <1>8, <2>1, WriteGood, SaveGood, CommitGood, CollectorGood
<1>9. CASE open_txn
    BY <1>9, OpenGood
<1>10. CASE apply_block
    BY <1>1, <1>10, ApplyGood DEF Breakdowns
<1>11. CASE UNCHANGED vars
  <2>1. UNCHANGED <<files, index, cert, phase, cursor, store, core, task, txn, head, vm, gc, failures>>
    BY <1>11 DEF vars, disk, ghosts, memory
  <2>2. Applied' = Applied /\ DecidedTo' = DecidedTo
    BY <2>1 DEF Applied, DecidedTo, Loaded
  <2>3. WriteInv' /\ CommitInv'
    BY <2>1, <2>2 DEF Good, WriteInv, CommitInv, Busy, AllWritten
  <2>4. DOMAIN index' = 1..cert' /\ DataOnDisk' /\ LoadInv' /\ GCInv' /\ VMInv'
    BY <2>1, <2>2 DEF Good, DataOnDisk, LoadInv, Loaded, GCInv, VMInv
  <2> QED BY <2>1, <2>3, <2>4 DEF Good
<1> QED BY <1>2, <1>3, <1>4, <1>5, <1>6, <1>7, <1>8, <1>9, <1>10, <1>11
        DEF Next, ApplicationThread, EventThread

\* What happened early is not forgotten.
LEMMA EarlyStays ==
    ASSUME [Next]_vars
    PROVE  early => early'
<1>1. CASE \/ construct \/ crash \/ init_clean \/ init_from_disk \/ finish_init
           \/ write_to_disk \/ save_block \/ commit \/ gc_run \/ do_gc
    BY <1>1 DEF construct, crash, init_clean, init_from_disk, finish_init,
                write_to_disk, save_block, commit, gc_run, do_gc, ghosts
<1>2. CASE \/ reload_decided_block \/ reload_state_from_index \/ open_txn
           \/ replay_block \/ apply_block
  <2>1. UNCHANGED early \/ \E reason : fail(reason)
    BY <1>2 DEF reload_decided_block, reload_state_from_index, open_txn, replay_block,
                apply_block, ghosts
  <2> QED BY <2>1 DEF fail
<1>3. ASSUME NEW n \in Block, receive_block(n) \/ update(n)
      PROVE  early => early'
    BY <1>3 DEF receive_block, update
<1>4. CASE UNCHANGED vars
    BY <1>4 DEF vars, ghosts
<1> QED BY <1>1, <1>2, <1>3, <1>4 DEF Next, ApplicationThread, EventThread

\* IInv in the terms of the lemmas.
LEMMA IInvMeans ==
    IInv <=> /\ TypeOK /\ StoreInv /\ (early \/ Good)
             /\ early \/ Breakdowns \cap failures = {}
BY DEF IInv, Good, Recoverable, FailsForAReason, Breakdowns

\* The invariant is inductive, for every chain, every number of restarts and every
\* place where the process may stop.
THEOREM IInvariance == Spec => []IInv
<1>1. Init => IInv
  <2> SUFFICES ASSUME Init PROVE IInv
    OBVIOUS
  <2>1. /\ DOMAIN store = {0} /\ store[0] = genesis_object /\ task = idle /\ txn = NoTxn
        /\ core = [hqc |-> 0, b_lock |-> 0, b_exec |-> 0] /\ phase = "down" /\ cursor = 1
        /\ head = 1 /\ vm = << >> /\ gc = NoGC /\ index = NoTxn /\ cert = 0
    BY DEF Init
  <2>2. /\ DOMAIN NoTxn = {} /\ idle.pc = "idle" /\ genesis_object \in Object /\ 1..0 = {}
        /\ vm \in Seq(Block) /\ DOMAIN vm = {}
    BY <2>1 DEF NoTxn, idle, genesis_object, Object
  <2>3. TypeOK
    <3>1. /\ store \in [DOMAIN store -> Object] /\ DOMAIN store \subseteq 0..Length
          /\ task \in [pc : {"idle", "write", "save", "apply"}, n : 0..Length, at : 0..Length]
      BY <2>1, <2>2, RecoveryAssumption DEF Init, idle
    <3>2. gc \in [buffer : SUBSET Block, list : SUBSET Block, want : 0..Length, job : 0..Length]
      BY <2>1, RecoveryAssumption DEF NoGC
    <3>3. core \in [hqc : 0..Length, b_lock : 0..Length, b_exec : 0..Length]
      BY <2>1, RecoveryAssumption
    <3>4. files \in [Block -> {"none", "torn", "whole", "hollow"}] /\ starts \in 0..MaxStarts
      BY RecoveryAssumption DEF Init
    <3>5. cert \in 0..Length /\ cursor \in 1..Length + 1 /\ head \in 1..Length + 1
      BY <2>1, RecoveryAssumption
    <3>6. DOMAIN index = {} /\ DOMAIN txn = {} /\ early \in BOOLEAN /\ setup \in Setups
      BY <2>1, <2>2 DEF Init
    <3> QED BY <2>1, <2>2, <3>1, <3>2, <3>3, <3>4, <3>5, <3>6 DEF TypeOK
  <2>4. StoreInv
    BY <2>1, <2>2 DEF StoreInv, Busy
  <2>5. WriteInv
    BY <2>1, <2>2 DEF WriteInv, Busy, AllWritten, genesis_object
  <2>6. CommitInv
    BY <2>1, <2>2 DEF CommitInv, Busy, DecidedTo, Loaded, genesis_object
  <2>7. LoadInv /\ GCInv
    BY <2>1, <2>2 DEF LoadInv, Loaded, GCInv, NoGC
  <2>8. VMInv
    <3>1. \A b \in Nonempty : ~(b <= 0)
      BY RecoveryAssumption DEF Block
    <3> QED BY <2>1, <2>2, <3>1 DEF VMInv
  <2>9. Good
    BY <2>1, <2>2, <2>5, <2>6, <2>7, <2>8 DEF Good, DataOnDisk
  <2> QED BY <2>3, <2>4, <2>9, IInvMeans DEF Init
<1>2. IInv /\ [Next]_vars => IInv'
  <2> SUFFICES ASSUME IInv, [Next]_vars PROVE IInv'
    OBVIOUS
  <2>1. /\ TypeOK /\ StoreInv /\ (early \/ Good)
        /\ early \/ Breakdowns \cap failures = {}
    BY IInvMeans
  <2>2. TypeOK' /\ StoreInv'
    BY <2>1, TypeStep
  <2>3. early' \/ (Good' /\ Breakdowns \cap failures' = {})
    <3> SUFFICES ASSUME ~early' PROVE Good' /\ Breakdowns \cap failures' = {}
      OBVIOUS
    <3>1. ~early
      BY EarlyStays
    <3>2. Good /\ Breakdowns \cap failures = {}
      BY <2>1, <3>1
    <3> QED BY <2>1, <3>2, GoodStep
  <2> QED BY <2>2, <2>3 DEF IInv, Good, Recoverable, FailsForAReason, Breakdowns
<1> QED BY <1>1, <1>2, PTL DEF Spec

\* Every variable keeps its type through crashes, reloads and collections: the
\* files, the index and the certificate on disk, the block objects and what each
\* thread of the running replica holds.
THEOREM RecoveryTypeCorrect == Spec => []TypeOK
<1>1. IInv => TypeOK
    BY DEF IInv
<1> QED BY <1>1, IInvariance, PTL

\* Wherever the process stops, the index is a prefix of the chain with the
\* certificate on its top, and every decided block has its whole file (update).
THEOREM RecoverableHolds == Spec => []Recoverable
<1>1. IInv => Recoverable
    BY DEF IInv, Recoverable
<1> QED BY <1>1, IInvariance, PTL

\* A transaction adds entries above the index it finds, in whichever life it is
\* opened, and is the only thing that writes to the index (commit, open_txn).
THEOREM DecisionsDurableHolds == Spec => DecisionsDurable
<1> DEFINE Kept == early \/ /\ cert <= cert'
                            /\ \A h \in DOMAIN index : h \in DOMAIN index' /\ index'[h] = index[h]
<1>1. ASSUME IInv, [Next]_vars PROVE Kept
  <2>1. cert \in Int
    BY <1>1 DEF IInv, TypeOK
  <2>2. CASE UNCHANGED <<index, cert>>
    BY <2>1, <2>2
  <2>3. CASE commit /\ ~early
    <3>1. TypeOK /\ StoreInv /\ Good
      BY <1>1, <2>3, IInvMeans
    <3>2. /\ DOMAIN txn = core.b_exec + 1 .. task.at - 1
          /\ core.b_exec < blk0(task.n) /\ blk0(task.n) \in Int
          /\ task.at \in Int /\ task.at <= blk0(task.n) + 1 /\ blk0(task.n) < task.at
      BY <2>3, <3>1, TaskBlocks DEF commit, Good, CommitInv, StoreInv, Busy, TypeOK
    <3>3. core.b_exec = cert
      <4>1. core.b_exec \in Int
        BY <3>1 DEF TypeOK
      <4>2. task.at # core.b_exec + 1
        BY <3>2, <4>1
      <4> QED BY <2>3, <3>1, <4>2 DEF commit, Good, CommitInv, LoadInv, Loaded, Busy
    <3>4. cert' = blk0(task.n) /\ DOMAIN index = 1..cert
      BY <2>3, <3>1 DEF commit, Good
    <3>5. \A h \in DOMAIN index : h \notin DOMAIN txn
      BY <2>1, <3>2, <3>3, <3>4
    <3>6. \A h \in DOMAIN index : h \in DOMAIN index' /\ index'[h] = index[h]
      BY <2>3, <3>5 DEF commit
    <3> QED BY <2>1, <3>2, <3>3, <3>4, <3>6
  <2>4. UNCHANGED <<index, cert>> \/ commit
    <3>1. ASSUME NEW reason, fail(reason) PROVE UNCHANGED <<index, cert>>
      BY <3>1 DEF fail, disk
    <3>2. CASE UNCHANGED vars \/ construct \/ crash \/ gc_run \/ do_gc
               \/ \E n \in Block : receive_block(n)
      BY <3>2 DEF vars, construct, crash, gc_run, do_gc, receive_block, disk
    <3>3. CASE ApplicationThread
      BY <3>1, <3>3, Zenon DEF ApplicationThread, init_clean, init_from_disk, reload_decided_block,
            reload_state_from_index, replay_block, finish_init, disk
    <3>4. CASE EventThread
      BY <3>1, <3>4, Zenon DEF EventThread, update, write_to_disk, save_block, open_txn, apply_block, disk
    <3> QED BY <1>1, <3>2, <3>3, <3>4, Zenon DEF Next
  <2> QED BY <2>2, <2>3, <2>4
<1>2. IInv /\ [Next]_vars => [Kept]_vars
    BY <1>1
<1> QED BY <1>2, IInvariance, PTL DEF Spec, DecisionsDurable

\* No restart and no commit fails for what the code left on disk.
THEOREM FailsForAReasonHolds == Spec => []FailsForAReason
<1>1. IInv => FailsForAReason
    BY DEF IInv
<1> QED BY <1>1, IInvariance, PTL

\* Over all its lives together, a replica gives its state machine each command of
\* the decided chain once and in order (init_from_disk, apply_block).
THEOREM EachCommandOnceHolds == Spec => []EachCommandOnceUnlessEarly
<1>1. IInv => EachCommandOnceUnlessEarly
    BY DEF IInv, EachCommandOnceUnlessEarly, EachCommandOnce, VMInv
<1> QED BY <1>1, IInvariance, PTL

\* The collector never flushes a body that lies less than KeepDepth below b_exec.
THEOREM KeepsRecentBodiesHolds == Spec => []KeepsRecentBodies
<1>1. IInv => KeepsRecentBodies
    BY DEF IInv, KeepsRecentBodies, GCInv
<1> QED BY <1>1, IInvariance, PTL
=============================================================================
