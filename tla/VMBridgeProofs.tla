--------------------------- MODULE VMBridgeProofs ---------------------------
(***************************************************************************)
(* Proofs about VMBridge, for every buffer target and every bound: the     *)
(* inductive invariant, and from it that the gadget never has a gap, that  *)
(* no thread throws, that the VM runs ahead by no more than the target,    *)
(* and that no commitment is overwritten.                                  *)
(***************************************************************************)
EXTENDS VMBridge, TLAPS

Pair == [height : 1..TopHeight, id : Nat]

\* Appending a pair of the next height, or dropping any other, keeps the gadget
\* contiguous (add_height_pair).
LEMMA AddKeepsContiguous ==
    ASSUME NEW h \in 1..TopHeight, NEW id \in Nat,
           GadgetType, SpeculationContiguous, add_height_pair(h, id)
    PROVE  /\ GadgetType'
           /\ highest_committed' = highest_committed
           /\ SpeculationContiguous'
           /\ height_map # << >> => height_map' # << >>
           /\ h = highest_committed + 1 => height_map' # << >>
  <1>. USE BridgeAssumption
  <1>0. /\ height_map \in Seq(Pair)
        /\ speculation_head \in 1..(TopHeight + 1)
        /\ highest_committed \in 0..TopHeight
    BY DEF GadgetType, Pair
  <1>1. CASE h = speculation_head
    <2>1. [height |-> h, id |-> id] \in Pair
      BY DEF Pair
    <2>2. /\ height_map' = Append(height_map, [height |-> h, id |-> id])
          /\ speculation_head' = h + 1
          /\ highest_committed' = highest_committed
      BY <1>1 DEF add_height_pair
    <2>3. /\ height_map' \in Seq(Pair)
          /\ Len(height_map') = Len(height_map) + 1
          /\ \A i \in 1..Len(height_map) : height_map'[i] = height_map[i]
          /\ height_map'[Len(height_map) + 1] = [height |-> h, id |-> id]
          /\ height_map' # << >>
      BY <1>0, <2>1, <2>2
    <2>4. ASSUME NEW i \in 1..Len(height_map')
          PROVE  height_map'[i].height = highest_committed' + i
      <3>1. CASE i \in 1..Len(height_map)
        BY <2>2, <2>3, <3>1 DEF SpeculationContiguous
      <3>2. CASE i = Len(height_map) + 1
        BY <1>0, <1>1, <2>2, <2>3, <3>2 DEF SpeculationContiguous
      <3>. QED
        BY <1>0, <2>3, <3>1, <3>2
    <2>5. GadgetType'
      BY <1>0, <2>2, <2>3 DEF GadgetType, Pair
    <2>. QED
      BY <1>0, <1>1, <2>2, <2>3, <2>4, <2>5 DEF SpeculationContiguous
  <1>2. CASE h # speculation_head
    <2>1. UNCHANGED <<height_map, speculation_head, highest_committed>>
      BY <1>2 DEF add_height_pair
    <2>2. h = highest_committed + 1 => height_map # << >>
      BY <1>0, <1>2 DEF SpeculationContiguous
    <2>. QED
      BY <2>1, <2>2 DEF SpeculationContiguous, GadgetType
  <1>. QED
    BY <1>1, <1>2

\* Taking the front pair out keeps the gadget contiguous (on_commit_hotstuff).
LEMMA CommitKeepsContiguous ==
    ASSUME GadgetType, height_map # << >>,
           SpeculationContiguous,
           highest_committed + 1 \in 0..TopHeight,
           height_map' = Tail(height_map),
           highest_committed' = highest_committed + 1,
           UNCHANGED speculation_head
    PROVE  GadgetType' /\ SpeculationContiguous'
  <1>. USE BridgeAssumption
  <1>1. /\ height_map' \in Seq(Pair)
        /\ Len(height_map') = Len(height_map) - 1
        /\ \A i \in 1..Len(height_map') : height_map'[i] = height_map[i + 1]
        /\ Len(height_map) \in Nat \ {0}
        /\ highest_committed \in Nat
    BY DEF GadgetType, Pair
  <1>2. speculation_head' = highest_committed' + 1 + Len(height_map')
    BY <1>1 DEF SpeculationContiguous
  <1>3. ASSUME NEW i \in 1..Len(height_map')
        PROVE  height_map'[i].height = highest_committed' + i
    <2>1. i + 1 \in 1..Len(height_map)
      BY <1>1
    <2>2. height_map[i + 1].height = highest_committed + (i + 1)
      BY <2>1 DEF SpeculationContiguous
    <2>. QED
      BY <1>1, <2>2
  <1>. QED
    BY <1>1, <1>2, <1>3 DEF SpeculationContiguous, GadgetType, Pair

\* The bridge starts in the invariant, clean or reloaded (init_clean,
\* init_from_disk).
LEMMA InitIInv == Init => IInv
  <1>. USE BridgeAssumption
  <1>1. SUFFICES ASSUME NEW c \in 0..TopHeight, NEW v \in 0..c, InitAt(c, v)
                 PROVE  IInv
    BY DEF Init
  <1>2. is_proposer \in BOOLEAN
    BY <1>1, Zenon DEF InitAt
  <1>3. GadgetType /\ ControlType /\ MachineType /\ ThreadType
    BY <1>1 DEF InitAt, GadgetType, ControlType, MachineType, ThreadType, NoBlock
  <1>. QED
    BY <1>1, <1>2, <1>3
    DEF InitAt, IInv, TypeOK, SpeculationContiguous, NeverThrows, BufferBounded,
        LockDiscipline, CommitPending, NoBlock

\* A round of the VM thread (run).
LEMMA RunStep == ASSUME IInv, run PROVE IInv'
  <1>. USE BridgeAssumption
  <1>1. PICK trace \in [0..Len(blocks_to_validate) ->
                          state..(state + Len(blocks_to_validate))] :
            make_proposal(trace[Len(blocks_to_validate)])
    BY DEF run
  <1>2. PICK s : s = trace[Len(blocks_to_validate)]
    OBVIOUS
  <1>3. s \in Nat
    BY <1>2 DEF IInv, TypeOK, ControlType, MachineType
  <1>4. /\ make_proposal(s) /\ pass_commitment /\ blocks_to_validate' = << >>
        /\ UNCHANGED <<height_map, speculation_head, highest_committed, spec_mtx,
                       is_proposer, target, user, event>>
    BY <1>1, <1>2 DEF run, gadget
  <1>5. UNCHANGED threw
    BY <1>4 DEF make_proposal, IInv, TypeOK, ControlType, LockDiscipline
  <1>6. ControlType' /\ MachineType' /\ BufferBounded' /\ (requests' > 0 => requests > 0)
    <2>1. highest_committed_id' \in Nat /\ last_committed_state' \in Nat
      BY <1>4 DEF pass_commitment, IInv, TypeOK, ControlType, MachineType, NoBlock
    <2>2. CASE requests > 0 /\ is_proposer
      <3>1. /\ state' = s + 1
            /\ proposal_buffer' = Append(proposal_buffer, s + 1)
            /\ requests' = requests - 1
        BY <1>4, <2>2 DEF make_proposal
      <3>. QED
        BY <1>3, <1>4, <2>1, <2>2, <3>1
        DEF IInv, TypeOK, ControlType, MachineType, BufferBounded
    <2>3. CASE ~(requests > 0 /\ is_proposer)
      <3>1. state' = s /\ UNCHANGED <<proposal_buffer, requests>>
        BY <1>4, <2>3 DEF make_proposal
      <3>. QED
        BY <1>3, <1>4, <2>1, <3>1
        DEF IInv, TypeOK, ControlType, MachineType, BufferBounded
    <2>. QED
      BY <2>2, <2>3
  <1>7. highest_committed_id' = NoBlock
    BY <1>4 DEF pass_commitment
  <1>. QED
    BY <1>4, <1>5, <1>6, <1>7
    DEF IInv, TypeOK, GadgetType, ThreadType, SpeculationContiguous, NeverThrows,
        LockDiscipline, CommitPending

\* Taking the oldest buffered VM block keeps the gadget contiguous and the buffer
\* within its target (take_proposal).
LEMMA TakeKeeps ==
    ASSUME GadgetType, ControlType, SpeculationContiguous, BufferBounded,
           NEW h \in 1..TopHeight, proposal_buffer # << >>, take_proposal(h)
    PROVE  /\ GadgetType' /\ ControlType' /\ SpeculationContiguous' /\ BufferBounded'
           /\ height_map # << >> => height_map' # << >>
           /\ UNCHANGED <<highest_committed, highest_committed_id, is_proposer>>
  <1>. USE BridgeAssumption
  <1>1. /\ Head(proposal_buffer) \in Nat
        /\ Tail(proposal_buffer) \in Seq(Nat)
        /\ Len(Tail(proposal_buffer)) = Len(proposal_buffer) - 1
        /\ Len(proposal_buffer) \in Nat \ {0}
    BY DEF ControlType
  <1>2. /\ GadgetType' /\ SpeculationContiguous'
        /\ height_map # << >> => height_map' # << >>
        /\ highest_committed' = highest_committed
    BY <1>1, AddKeepsContiguous DEF take_proposal
  <1>3. /\ requests' \in 0..BufferTarget
        /\ Len(proposal_buffer') + requests' <= BufferTarget
    BY <1>1 DEF take_proposal, refill, ControlType, BufferBounded
  <1>4. ControlType'
    BY <1>1, <1>3 DEF take_proposal, ControlType
  <1>. QED
    BY <1>2, <1>3, <1>4 DEF take_proposal, BufferBounded

\* The application thread asks for a proposal (get_and_apply_next_proposal).
LEMMA GetStep ==
    ASSUME IInv, NEW h \in highest_committed + 1 .. TopHeight,
           get_and_apply_next_proposal(h)
    PROVE  IInv'
  <1>. USE BridgeAssumption
  <1>1. /\ h \in 1..TopHeight /\ NoBlock \in Nat
        /\ GadgetType /\ ControlType /\ SpeculationContiguous /\ BufferBounded
        /\ MachineType /\ ThreadType /\ is_proposer \in BOOLEAN
        /\ UNCHANGED <<machine, event, threw>> /\ user.pc = "idle" /\ spec_mtx = "free"
    BY DEF IInv, TypeOK, GadgetType, NoBlock, get_and_apply_next_proposal
  <1>2. MachineType' /\ NeverThrows'
    BY <1>1 DEF machine, MachineType, NeverThrows, IInv
  <1>3. CASE add_height_pair(h, NoBlock) /\ UNCHANGED <<spec_mtx, control, user>>
    <2>1. /\ GadgetType' /\ SpeculationContiguous'
          /\ height_map # << >> => height_map' # << >>
          /\ highest_committed' = highest_committed
      BY <1>1, <1>3, AddKeepsContiguous
    <2>2. ControlType' /\ ThreadType' /\ BufferBounded'
      BY <1>1, <1>3 DEF control, ControlType, ThreadType, BufferBounded
    <2>3. is_proposer' \in BOOLEAN
      BY <1>1, <1>3 DEF control
    <2>4. LockDiscipline' /\ CommitPending'
      BY <1>1, <1>3, <2>1 DEF control, LockDiscipline, CommitPending, IInv
    <2>. QED
      BY <1>2, <2>1, <2>2, <2>3, <2>4 DEF IInv, TypeOK
  <1>4. CASE /\ is_proposer /\ proposal_buffer # << >>
             /\ take_proposal(h) /\ UNCHANGED <<spec_mtx, user>>
    <2>1. /\ GadgetType' /\ ControlType' /\ SpeculationContiguous' /\ BufferBounded'
          /\ height_map # << >> => height_map' # << >>
          /\ UNCHANGED <<highest_committed, highest_committed_id, is_proposer>>
      BY <1>1, <1>4, TakeKeeps
    <2>2. ThreadType'
      BY <1>1, <1>4 DEF ThreadType
    <2>3. LockDiscipline' /\ CommitPending'
      BY <1>1, <1>4, <2>1 DEF LockDiscipline, CommitPending, IInv
    <2>. QED
      BY <1>1, <1>2, <2>1, <2>2, <2>3 DEF IInv, TypeOK
  <1>5. CASE is_proposer /\ proposal_buffer = << >> /\ target > 0 /\ await_proposal(h)
    <2>1. GadgetType' /\ SpeculationContiguous'
      BY <1>1, <1>5 DEF await_proposal, gadget, GadgetType, SpeculationContiguous
    <2>2. ControlType' /\ BufferBounded'
      BY <1>1, <1>5 DEF await_proposal, ControlType, BufferBounded
    <2>3. ThreadType'
      <3>1. [pc |-> "waiting", height |-> h] \in
              [pc : {"idle", "waiting"}, height : 0..TopHeight]
        BY <1>1
      <3>2. user' = [pc |-> "waiting", height |-> h] /\ spec_mtx' = "user"
        BY <1>5 DEF await_proposal
      <3>. QED
        BY <1>1, <3>1, <3>2 DEF ThreadType
    <2>4. is_proposer' = is_proposer /\ is_proposer
      BY <1>5 DEF await_proposal
    <2>5. LockDiscipline' /\ CommitPending'
      BY <1>1, <1>5, <2>4
      DEF await_proposal, gadget, LockDiscipline, CommitPending, IInv
    <2>. QED
      BY <1>1, <1>2, <2>1, <2>2, <2>3, <2>4, <2>5 DEF IInv, TypeOK
  <1>. QED
    BY <1>3, <1>4, <1>5 DEF get_and_apply_next_proposal

\* The application thread gets what it waited for (got_proposal).
LEMMA GotStep == ASSUME IInv, got_proposal PROVE IInv'
  <1>. USE BridgeAssumption
  <1>1. /\ GadgetType /\ ControlType /\ SpeculationContiguous /\ BufferBounded
        /\ MachineType /\ ThreadType /\ is_proposer \in BOOLEAN
        /\ UNCHANGED <<machine, event, threw>>
        /\ user.pc = "waiting" /\ spec_mtx = "user" /\ is_proposer
        /\ spec_mtx' = "free" /\ user' = [pc |-> "idle", height |-> 0]
    BY DEF IInv, TypeOK, LockDiscipline, got_proposal
  <1>2. MachineType' /\ NeverThrows' /\ ThreadType'
    BY <1>1 DEF machine, MachineType, ThreadType, NeverThrows, IInv
  <1>3. /\ GadgetType' /\ ControlType' /\ SpeculationContiguous' /\ BufferBounded'
        /\ height_map # << >> => height_map' # << >>
        /\ UNCHANGED <<highest_committed, highest_committed_id, is_proposer>>
    <2>1. user.height \in 0..TopHeight
      BY <1>1 DEF ThreadType
    <2>2. user.height > 0
      BY <1>1 DEF LockDiscipline, IInv
    <2>3. user.height \in 1..TopHeight
      BY <2>1, <2>2
    <2>. QED
      BY <1>1, <2>3, TakeKeeps DEF got_proposal
  <1>4. LockDiscipline' /\ CommitPending'
    BY <1>1, <1>3 DEF LockDiscipline, CommitPending, IInv
  <1>. QED
    BY <1>1, <1>2, <1>3, <1>4 DEF IInv, TypeOK

\* A decided block is compared with what the VM speculated on (apply_block).
LEMMA ApplyStep ==
    ASSUME IInv, highest_committed < TopHeight, NEW v \in VMBlockID,
           apply_block(highest_committed + 1, v)
    PROVE  IInv'
  <1>. USE BridgeAssumption
  <1>. DEFINE h == highest_committed + 1
  <1>1. /\ h \in 1..TopHeight /\ v \in Nat
        /\ GadgetType /\ ControlType /\ SpeculationContiguous /\ BufferBounded
        /\ MachineType /\ ThreadType /\ is_proposer \in BOOLEAN
        /\ UNCHANGED <<control, machine, user, threw>>
        /\ event.pc = "idle" /\ spec_mtx = "free" /\ user.pc # "waiting"
    BY DEF IInv, TypeOK, GadgetType, VMBlockID, LockDiscipline, apply_block
  <1>2. MachineType' /\ ControlType' /\ NeverThrows' /\ BufferBounded'
    BY <1>1
    DEF machine, control, MachineType, ControlType, NeverThrows, BufferBounded, IInv
  <1>3. UNCHANGED <<is_proposer, requests, highest_committed_id>>
    BY <1>1 DEF control
  <1>4. GadgetType' /\ SpeculationContiguous'
    BY <1>1, AddKeepsContiguous
    DEF apply_block, gadget, GadgetType, SpeculationContiguous
  <1>5. PICK pc \in {"notify", "relock", "submit"} : event' = [pc |-> pc, height |-> h, id |-> v]
    BY DEF apply_block
  <1>6. ThreadType'
    <2>1. spec_mtx' \in {"free", "event"}
      BY <1>1 DEF apply_block
    <2>2. event' \in [pc : {"idle", "submit", "notify", "wait", "log", "relock", "dead"},
                      height : 0..TopHeight, id : Nat]
      BY <1>1, <1>5
    <2>. QED
      BY <1>1, <2>1, <2>2 DEF ThreadType
  <1>7. CommitPending'
    <2>1. event'.pc \in {"submit", "notify"} =>
            height_map' # << >> /\ highest_committed' = highest_committed
      BY <1>1, <1>5, AddKeepsContiguous DEF apply_block, gadget
    <2>. QED
      BY <1>5, <2>1 DEF CommitPending
  <1>8. LockDiscipline'
    BY <1>1, <1>3, <1>5 DEF apply_block, LockDiscipline, IInv
  <1>. QED
    BY <1>1, <1>2, <1>3, <1>4, <1>6, <1>7, <1>8 DEF IInv, TypeOK

\* The decided block is queued for the VM thread (submit_block_for_exec).
LEMMA SubmitStep == ASSUME IInv, submit_block_for_exec PROVE IInv'
  <1>. USE BridgeAssumption
  <1>1. /\ GadgetType /\ ControlType /\ MachineType /\ ThreadType
        /\ event.pc = "submit" /\ spec_mtx = "event" /\ user.pc # "waiting"
        /\ event' = [event EXCEPT !.pc = "notify"]
    BY DEF IInv, TypeOK, LockDiscipline, submit_block_for_exec
  <1>2. /\ event' \in [pc : {"notify"}, height : 0..TopHeight, id : Nat]
        /\ event'.height = event.height /\ event.id \in Nat
    BY <1>1 DEF ThreadType
  <1>3. GadgetType' /\ MachineType' /\ ThreadType' /\ NeverThrows'
    BY <1>1, <1>2
    DEF submit_block_for_exec, gadget, machine, GadgetType, MachineType, ThreadType,
        NeverThrows, IInv
  <1>4. ControlType' /\ BufferBounded'
    BY <1>1, <1>2 DEF submit_block_for_exec, ControlType, BufferBounded
  <1>5. SpeculationContiguous' /\ CommitPending'
    BY <1>1, <1>2
    DEF submit_block_for_exec, gadget, SpeculationContiguous, CommitPending, IInv
  <1>6. is_proposer' \in BOOLEAN
    BY Zenon DEF submit_block_for_exec
  <1>7. LockDiscipline'
    BY <1>1, <1>2 DEF submit_block_for_exec, LockDiscipline
  <1>. QED
    BY <1>3, <1>4, <1>5, <1>6, <1>7 DEF IInv, TypeOK

\* The committed pair leaves the gadget (on_commit_hotstuff).
LEMMA CommitStep == ASSUME IInv, on_commit_hotstuff PROVE IInv'
  <1>. USE BridgeAssumption
  <1>1. /\ GadgetType /\ ControlType /\ MachineType /\ ThreadType
        /\ SpeculationContiguous /\ is_proposer \in BOOLEAN
        /\ event.pc = "notify" /\ spec_mtx = "free" /\ user.pc # "waiting"
        /\ height_map # << >> /\ event.height = highest_committed + 1
        /\ UNCHANGED <<spec_mtx, control, machine, user>>
    BY DEF IInv, TypeOK, LockDiscipline, CommitPending, on_commit_hotstuff
  <1>2. CommitFits(event.height) /\ Head(height_map).id \in Nat
    <2>1. height_map \in Seq(Pair)
      BY <1>1 DEF GadgetType, Pair
    <2>2. /\ 1 \in 1..Len(height_map) /\ Head(height_map) = height_map[1]
          /\ height_map[1] \in Pair
      BY <1>1, <2>1
    <2>3. height_map[1].height = event.height
      BY <1>1, <2>2 DEF SpeculationContiguous, GadgetType
    <2>. QED
      BY <1>1, <2>2, <2>3 DEF CommitFits, Pair
  <1>3. /\ event' = [event EXCEPT !.pc = "wait", !.id = Head(height_map).id]
        /\ height_map' = Tail(height_map)
        /\ highest_committed' = highest_committed + 1
        /\ UNCHANGED <<speculation_head, threw>>
    BY <1>1, <1>2 DEF on_commit_hotstuff
  <1>4. GadgetType' /\ SpeculationContiguous'
    BY <1>1, <1>3, CommitKeepsContiguous DEF ThreadType
  <1>5. ThreadType' /\ event'.pc = "wait"
    BY <1>1, <1>2, <1>3 DEF ThreadType
  <1>6. MachineType' /\ ControlType' /\ NeverThrows' /\ BufferBounded'
    BY <1>1, <1>3
    DEF machine, control, MachineType, ControlType, NeverThrows, BufferBounded, IInv
  <1>7. UNCHANGED <<is_proposer, requests>>
    BY <1>1 DEF control
  <1>8. LockDiscipline' /\ CommitPending'
    BY <1>1, <1>5, <1>7 DEF LockDiscipline, CommitPending, IInv
  <1>. QED
    BY <1>1, <1>4, <1>5, <1>6, <1>7, <1>8 DEF IInv, TypeOK

\* The steps that touch only one piece of state: the VM's proposer mode, the
\* buffer target, the wait for the VM thread and the id left
\* for it.
LEMMA SmallSteps ==
    ASSUME IInv,
           \/ put_vm_in_proposer_mode \/ stop_proposals
           \/ wait_for_async_task \/ log_commitment
    PROVE  IInv'
  <1>. USE BridgeAssumption
  <1>. USE DEF gadget, control, machine, threads
  <1>1. /\ GadgetType /\ ControlType /\ MachineType /\ ThreadType
        /\ is_proposer \in BOOLEAN /\ SpeculationContiguous /\ NeverThrows
        /\ BufferBounded /\ LockDiscipline /\ CommitPending
    BY DEF IInv, TypeOK
  <1>2. CASE put_vm_in_proposer_mode
    <2>1. is_proposer' \in BOOLEAN
      BY <1>2, Zenon DEF put_vm_in_proposer_mode
    <2>2. GadgetType' /\ ControlType' /\ MachineType' /\ ThreadType'
      BY <1>1, <1>2
      DEF put_vm_in_proposer_mode, GadgetType, ControlType, MachineType, ThreadType
    <2>3. SpeculationContiguous' /\ NeverThrows' /\ BufferBounded' /\ CommitPending'
      BY <1>1, <1>2
      DEF put_vm_in_proposer_mode, SpeculationContiguous, NeverThrows, BufferBounded,
          CommitPending
    <2>4. LockDiscipline'
      BY <1>1, <1>2 DEF put_vm_in_proposer_mode, LockDiscipline
    <2>. QED
      BY <2>1, <2>2, <2>3, <2>4 DEF IInv, TypeOK
  <1>3. CASE stop_proposals
    <2>1. GadgetType' /\ ControlType' /\ MachineType' /\ ThreadType' /\ is_proposer' \in BOOLEAN
      BY <1>1, <1>3
      DEF stop_proposals, GadgetType, ControlType, MachineType, ThreadType
    <2>2. /\ SpeculationContiguous' /\ NeverThrows' /\ BufferBounded'
          /\ LockDiscipline' /\ CommitPending'
      BY <1>1, <1>3
      DEF stop_proposals, SpeculationContiguous, NeverThrows, BufferBounded,
          LockDiscipline, CommitPending
    <2>. QED
      BY <2>1, <2>2 DEF IInv, TypeOK
  <1>4. CASE wait_for_async_task
    <2>1. ThreadType' /\ event'.pc = "log" /\ highest_committed_id' = NoBlock
      BY <1>1, <1>4 DEF wait_for_async_task, exists_work_to_do, ThreadType
    <2>2. GadgetType' /\ ControlType' /\ MachineType' /\ is_proposer' \in BOOLEAN
      BY <1>1, <1>4 DEF wait_for_async_task, GadgetType, ControlType, MachineType
    <2>3. SpeculationContiguous' /\ NeverThrows' /\ BufferBounded' /\ LockDiscipline'
      BY <1>1, <1>4, <2>1
      DEF wait_for_async_task, SpeculationContiguous, NeverThrows, BufferBounded,
          LockDiscipline
    <2>. QED
      BY <2>1, <2>2, <2>3 DEF IInv, TypeOK, CommitPending
  <1>5. CASE log_commitment
    <2>1. ThreadType' /\ event'.pc = "idle" /\ event.id \in Nat
      BY <1>1, <1>5 DEF log_commitment, ThreadType
    <2>2. GadgetType' /\ ControlType' /\ MachineType' /\ is_proposer' \in BOOLEAN
      BY <1>1, <1>5, <2>1
      DEF log_commitment, GadgetType, ControlType, MachineType
    <2>3. SpeculationContiguous' /\ NeverThrows' /\ BufferBounded' /\ LockDiscipline'
      BY <1>1, <1>5, <2>1
      DEF log_commitment, SpeculationContiguous, NeverThrows, BufferBounded,
          LockDiscipline
    <2>. QED
      BY <2>1, <2>2, <2>3 DEF IInv, TypeOK, CommitPending
  <1>. QED
    BY <1>2, <1>3, <1>4, <1>5

\* An empty proposal is logged as speculated (make_empty_proposal).
LEMMA EmptyStep ==
    ASSUME IInv, NEW h \in highest_committed + 1 .. TopHeight, make_empty_proposal(h)
    PROVE  IInv'
  <1>. USE BridgeAssumption
  <1>1. /\ h \in 1..TopHeight /\ NoBlock \in Nat
        /\ GadgetType /\ ControlType /\ MachineType /\ ThreadType
        /\ is_proposer \in BOOLEAN /\ SpeculationContiguous
        /\ add_height_pair(h, NoBlock) /\ UNCHANGED <<spec_mtx, control, machine, threads>>
    BY DEF IInv, TypeOK, GadgetType, NoBlock, make_empty_proposal
  <1>2. /\ GadgetType' /\ SpeculationContiguous'
        /\ height_map # << >> => height_map' # << >>
        /\ highest_committed' = highest_committed
    BY <1>1, AddKeepsContiguous
  <1>3. ControlType' /\ MachineType' /\ ThreadType' /\ is_proposer' \in BOOLEAN
    BY <1>1 DEF control, machine, threads, ControlType, MachineType, ThreadType
  <1>4. NeverThrows' /\ BufferBounded' /\ LockDiscipline' /\ CommitPending'
    BY <1>1, <1>2
    DEF control, threads, NeverThrows, BufferBounded, LockDiscipline, CommitPending, IInv
  <1>. QED
    BY <1>2, <1>3, <1>4 DEF IInv, TypeOK

\* Every step of the application thread, the event thread and the VM thread keeps
\* the invariant.
LEMMA StepIInv == IInv /\ [Next]_vars => IInv'
  <1>. SUFFICES ASSUME IInv, [Next]_vars
                PROVE  IInv'
    OBVIOUS
  <1>1. CASE run
    BY <1>1, RunStep
  <1>2. CASE \/ put_vm_in_proposer_mode \/ stop_proposals
             \/ wait_for_async_task \/ log_commitment
    BY <1>2, SmallSteps
  <1>3. ASSUME NEW h \in highest_committed + 1 .. TopHeight,
               make_empty_proposal(h) \/ get_and_apply_next_proposal(h)
        PROVE  IInv'
    BY <1>3, EmptyStep, GetStep
  <1>4. CASE got_proposal
    BY <1>4, GotStep
  <1>5. ASSUME NEW v \in VMBlockID, highest_committed < TopHeight,
               apply_block(highest_committed + 1, v)
        PROVE  IInv'
    BY <1>5, ApplyStep
  <1>6. CASE submit_block_for_exec
    BY <1>6, SubmitStep
  <1>7. CASE on_commit_hotstuff
    BY <1>7, CommitStep
  <1>8. CASE UNCHANGED vars
    <2>. USE <1>8 DEF vars, gadget, control, machine, threads
    <2>1. TypeOK'
      <3>1. GadgetType' /\ ControlType' /\ MachineType' /\ ThreadType'
        BY DEF IInv, TypeOK, GadgetType, ControlType, MachineType, ThreadType
      <3>2. is_proposer' \in BOOLEAN
        BY Zenon DEF IInv, TypeOK
      <3>. QED
        BY <3>1, <3>2, Zenon DEF TypeOK
    <2>2. SpeculationContiguous' /\ NeverThrows' /\ BufferBounded'
      BY DEF IInv, SpeculationContiguous, NeverThrows, BufferBounded
    <2>3. LockDiscipline' /\ CommitPending'
      BY DEF IInv, LockDiscipline, CommitPending
    <2>. QED
      BY <2>1, <2>2, <2>3 DEF IInv
  <1>. QED
    BY <1>1, <1>2, <1>3, <1>4, <1>5, <1>6, <1>7, <1>8 DEF Next

\* The invariant of the bridge holds for every buffer target and every bound.
THEOREM BridgeInvariance == Spec => []IInv
  <1>1. Init => IInv
    BY InitIInv
  <1>2. IInv /\ [Next]_vars => IInv'
    BY StepIInv
  <1>. QED
    BY <1>1, <1>2, PTL DEF Spec

\* Every variable of the bridge keeps its type.
THEOREM BridgeTypeCorrect == Spec => []TypeOK
  <1>1. IInv => TypeOK
    BY DEF IInv
  <1>. QED
    BY <1>1, BridgeInvariance, PTL

\* The heights speculated on never have a gap, whatever heights do_propose and
\* update() hand to the gadget.
THEOREM SpeculationContiguousHolds == Spec => []SpeculationContiguous
  <1>1. IInv => SpeculationContiguous
    BY DEF IInv
  <1>. QED
    BY <1>1, BridgeInvariance, PTL

\* on_commit_hotstuff finds the committed height in front of a nonempty map, and
\* the VM thread never wakes to proposal requests outside proposer mode.
THEOREM NeverThrowsHolds == Spec => []NeverThrows
  <1>1. IInv => NeverThrows
    BY DEF IInv
  <1>. QED
    BY <1>1, BridgeInvariance, PTL

\* get_proposal never lets the VM run ahead further than the configured target.
THEOREM BufferBoundedHolds == Spec => []BufferBounded
  <1>1. IInv => BufferBounded
    BY DEF IInv
  <1>. QED
    BY <1>1, BridgeInvariance, PTL

\* log_commitment never overwrites a commitment the VM has yet to be told, from
\* the part of the invariant about the end of its wait.
THEOREM NoCommitmentSkippedHolds == Spec => NoCommitmentSkipped
  <1>. DEFINE Kept == highest_committed_id # NoBlock =>
                          highest_committed_id' \in {NoBlock, highest_committed_id}
  <1>1. IInv /\ [Next]_vars => [Kept]_vars
    <2>. SUFFICES ASSUME IInv, Next
                  PROVE  Kept
      OBVIOUS
    <2>1. CASE log_commitment
      BY <2>1 DEF log_commitment, IInv, CommitPending
    <2>2. CASE run
      BY <2>2 DEF run, pass_commitment
    <2>3. CASE ~log_commitment /\ ~run
      BY <2>3
      DEF Next, control, put_vm_in_proposer_mode, stop_proposals, make_empty_proposal,
          get_and_apply_next_proposal, take_proposal, await_proposal, got_proposal,
          apply_block, submit_block_for_exec, on_commit_hotstuff, wait_for_async_task
    <2>. QED
      BY <2>1, <2>2, <2>3
  <1>. QED
    BY <1>1, BridgeInvariance, PTL DEF Spec, NoCommitmentSkipped
=============================================================================
