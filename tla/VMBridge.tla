------------------------------ MODULE VMBridge ------------------------------
(***************************************************************************)
(* The speculative state-machine side of one replica: HotstuffVMBridge,    *)
(* its SpeculativeExecGadget (which heights the VM has run ahead on) and   *)
(* its VMControlInterface (the buffers between consensus and the VM), with *)
(* CountingVM as the machine.  Three threads share it:                     *)
(*   - the application thread, inside do_propose (variable user);          *)
(*   - the event-queue thread, inside update(), which for every decided    *)
(*     block calls apply_block and then notify_vm_of_commitment (event);   *)
(*   - the VM thread, which runs VMControlInterface::run.                  *)
(* The mutex of the gadget (spec_mtx) is held across waits, so it is a     *)
(* variable.  The mutex of the control interface protects regions without  *)
(* waits in between; each such region is one step.                         *)
(*                                                                         *)
(* A VM block is its CountingVM value and its own id; NoBlock is the id of *)
(* an empty or unparsable body.  Consensus is left open: it may ask for a  *)
(* proposal at any undecided height and decide any body, height by height. *)
(***************************************************************************)
EXTENDS Integers, Sequences

CONSTANTS
    BufferTarget,    \* HotstuffConfigs::proposal_buffer_target
    Refill,          \* HotstuffConfigs::immediately_refill_proposal_buffer
    TopHeight,       \* bound: no block is proposed or decided above this height
    TopValue         \* bound: no VM block is asked for, or decided, above this value

ASSUME BridgeAssumption ==
    /\ BufferTarget \in Nat
    /\ Refill \in BOOLEAN
    /\ TopHeight \in Nat
    /\ TopValue \in Nat

VARIABLES
    height_map,           \* gadget: speculated (height, VM block id) pairs
    speculation_head,     \* gadget: the height the next pair must have
    highest_committed,    \* gadget: the height committed last
    spec_mtx,             \* gadget: which thread holds its mutex
    blocks_to_validate,   \* control: decided blocks the VM has yet to execute
    proposal_buffer,      \* control: VM blocks nobody has proposed yet
    requests,             \* control: additional_proposal_requests
    is_proposer,          \* control: proposer mode
    target,               \* control: PROPOSAL_BUFFER_TARGET
    highest_committed_id, \* control: commitment the VM has yet to be told
    state,                \* CountingVM: speculative counter
    last_committed_state, \* CountingVM: committed counter
    user,                 \* application thread: [pc, height]
    event,                \* event thread: [pc, height, id]
    threw                 \* the runtime_errors thrown so far

gadget == <<height_map, speculation_head, highest_committed>>
control == <<blocks_to_validate, proposal_buffer, requests, is_proposer, target,
             highest_committed_id>>
machine == <<state, last_committed_state>>
threads == <<user, event, threw>>
vars == <<gadget, spec_mtx, control, machine, threads>>

NoBlock == 0
VMBlockID == 0..(TopValue + BufferTarget)

-----------------------------------------------------------------------------
(* SpeculativeExecGadget *)

\* mutant: the pair is recorded whatever its height.
add_height_pair_anywhere(h, id) ==
    /\ height_map' = Append(height_map, [height |-> h, id |-> id])
    /\ speculation_head' = h + 1
    /\ UNCHANGED highest_committed

\* A pair that does not continue the speculated heights is dropped with a warning.
add_height_pair(h, id) ==
    /\ IF h = speculation_head
       THEN /\ height_map' = Append(height_map, [height |-> h, id |-> id])
            /\ speculation_head' = h + 1
       ELSE UNCHANGED <<height_map, speculation_head>>
    /\ UNCHANGED highest_committed

\* on_commit_hotstuff throws on an empty map and on a gap.
CommitFits(h) == height_map # << >> /\ Head(height_map).height = h

-----------------------------------------------------------------------------
(* VMControlInterface and CountingVM *)

exists_work_to_do ==
    \/ blocks_to_validate # << >>
    \/ requests > 0 /\ is_proposer
    \/ highest_committed_id # NoBlock

exec_block(s, v) == IF v = s + 1 THEN s + 1 ELSE s

\* mutant: the loop starts at the second queued block.
ExecTrace_skips_first(trace) ==
    /\ trace[0] = state
    /\ \A i \in 1..Len(blocks_to_validate) :
          trace[i] = IF i = 1 \/ blocks_to_validate[i] = NoBlock THEN trace[i - 1]
                     ELSE exec_block(trace[i - 1], blocks_to_validate[i])

\* The counters the loop over the queued blocks goes through; a null block, one
\* whose body did not parse, is not executed.
ExecTrace(trace) ==
    /\ trace[0] = state
    /\ \A i \in 1..Len(blocks_to_validate) :
          trace[i] = IF blocks_to_validate[i] = NoBlock THEN trace[i - 1]
                     ELSE exec_block(trace[i - 1], blocks_to_validate[i])

\* The bridge with the blocks up to height c decided and v the last VM block
\* among them: init_clean with zeros, init_from_disk (which clears the gadget and
\* has CountingVM execute the decided blocks again) with what the index holds.
InitAt(c, v) ==
    /\ height_map = << >> /\ speculation_head = c + 1 /\ highest_committed = c
    /\ spec_mtx = "free"
    /\ blocks_to_validate = << >> /\ proposal_buffer = << >> /\ requests = 0
    /\ is_proposer = FALSE /\ target = BufferTarget
    /\ highest_committed_id = NoBlock
    /\ state = v /\ last_committed_state = v
    /\ user = [pc |-> "idle", height |-> 0]
    /\ event = [pc |-> "idle", height |-> 0, id |-> NoBlock]
    /\ threw = {}

Init == \E c \in 0..TopHeight : \E v \in 0..c : InitAt(c, v)

\* mutant: the commitment stays pending after the VM has been told.
pass_commitment_keep ==
    /\ UNCHANGED highest_committed_id
    /\ last_committed_state' = IF highest_committed_id = NoBlock
                               THEN last_committed_state ELSE highest_committed_id

\* A pending commitment is passed to the VM, once.
pass_commitment ==
    /\ highest_committed_id' = NoBlock
    /\ last_committed_state' = IF highest_committed_id = NoBlock
                               THEN last_committed_state ELSE highest_committed_id

\* At most one proposal per round, on top of the counter s.
make_proposal(s) ==
    \/ /\ requests > 0 /\ is_proposer
       /\ state' = s + 1
       /\ proposal_buffer' = Append(proposal_buffer, s + 1)
       /\ requests' = requests - 1
       /\ UNCHANGED threw
    \/ /\ ~(requests > 0 /\ is_proposer)
       /\ state' = s
       /\ threw' = IF requests > 0 THEN threw \cup {"vm thread woke up early"} ELSE threw
       /\ UNCHANGED <<proposal_buffer, requests>>

\* One round of the VM thread, under the control interface's mutex: execute
\* what was decided, pass on a commitment, then propose.
run ==
    LET n == Len(blocks_to_validate)
    IN /\ exists_work_to_do
       /\ "vm thread woke up early" \notin threw
       /\ \E trace \in [0..n -> state..(state + n)] : ExecTrace(trace) /\ make_proposal(trace[n])
       /\ pass_commitment
       /\ blocks_to_validate' = << >>
       /\ UNCHANGED <<gadget, spec_mtx, is_proposer, target, user, event>>

-----------------------------------------------------------------------------
(* The application thread *)

put_vm_in_proposer_mode ==
    /\ is_proposer' = TRUE
    /\ UNCHANGED <<gadget, spec_mtx, blocks_to_validate, proposal_buffer, requests,
                   target, highest_committed_id, machine, threads>>

stop_proposals ==
    /\ target' = 0
    /\ UNCHANGED <<gadget, spec_mtx, blocks_to_validate, proposal_buffer, requests,
                   is_proposer, highest_committed_id, machine, threads>>

make_empty_proposal(h) ==
    /\ user.pc = "idle"
    /\ spec_mtx = "free"
    /\ add_height_pair(h, NoBlock)
    /\ UNCHANGED <<spec_mtx, control, machine, threads>>

\* mutant: the blocks still buffered are not counted against the target.
refill_full(rest) == IF Refill THEN target ELSE requests

\* How many requests get_proposal leaves outstanding when rest stays buffered.
refill(rest) ==
    IF ~Refill THEN requests
    ELSE IF Len(rest) > target THEN 0 ELSE target - Len(rest)

\* mutant: the newest buffered block is taken, as NonspeculativeVMBridge would.
take_proposal_newest(h) ==
    /\ add_height_pair(h, proposal_buffer[Len(proposal_buffer)])
    /\ proposal_buffer' = SubSeq(proposal_buffer, 1, Len(proposal_buffer) - 1)
    /\ requests' = refill(Tail(proposal_buffer))
    /\ UNCHANGED <<blocks_to_validate, is_proposer, target, highest_committed_id>>

\* get_proposal returns the oldest buffered VM block, and the bridge logs it as
\* speculated at height h.
take_proposal(h) ==
    /\ add_height_pair(h, Head(proposal_buffer))
    /\ proposal_buffer' = Tail(proposal_buffer)
    /\ requests' = refill(Tail(proposal_buffer))
    /\ UNCHANGED <<blocks_to_validate, is_proposer, target, highest_committed_id>>

\* mutant: the gadget's mutex is released while waiting.
await_proposal_unlocked(h) ==
    /\ requests' = IF requests < target THEN target ELSE requests
    /\ user' = [pc |-> "waiting", height |-> h]
    /\ UNCHANGED <<gadget, spec_mtx, blocks_to_validate, proposal_buffer, is_proposer,
                   target, highest_committed_id>>

\* mutant: the application thread waits without having asked.
await_proposal_unasked(h) ==
    /\ user' = [pc |-> "waiting", height |-> h]
    /\ spec_mtx' = "user"
    /\ UNCHANGED <<gadget, control>>

\* With an empty buffer the VM thread is asked for proposals, and the application
\* thread waits with the gadget's mutex held.
await_proposal(h) ==
    /\ requests' = IF requests < target THEN target ELSE requests
    /\ user' = [pc |-> "waiting", height |-> h]
    /\ spec_mtx' = "user"
    /\ UNCHANGED <<gadget, blocks_to_validate, proposal_buffer, is_proposer,
                   target, highest_committed_id>>

\* get_and_apply_next_proposal: an empty proposal outside proposer mode and, once
\* proposals are stopped, from an empty buffer; else a buffered block or a wait.
get_and_apply_next_proposal(h) ==
    /\ user.pc = "idle"
    /\ spec_mtx = "free"
    /\ \/ /\ ~is_proposer \/ (proposal_buffer = << >> /\ target = 0)
          /\ add_height_pair(h, NoBlock)
          /\ UNCHANGED <<spec_mtx, control, user>>
       \/ /\ is_proposer /\ proposal_buffer # << >>
          /\ take_proposal(h)
          /\ UNCHANGED <<spec_mtx, user>>
       \/ /\ is_proposer /\ proposal_buffer = << >> /\ target > 0
          /\ await_proposal(h)
    /\ UNCHANGED <<machine, event, threw>>

\* The wait in get_proposal is over.
got_proposal ==
    /\ user.pc = "waiting"
    /\ proposal_buffer # << >>
    /\ take_proposal(user.height)
    /\ spec_mtx' = "free"
    /\ user' = [pc |-> "idle", height |-> 0]
    /\ UNCHANGED <<machine, event, threw>>

-----------------------------------------------------------------------------
(* The event thread *)

\* apply_block with a body of id v, decided at height h.  If the VM
\* has speculated, and on this very block, there is nothing to execute.  If it
\* has speculated on another block the bridge clears the gadget: clear() locks
\* the mutex that apply_block already holds, and a std::mutex never comes back.
apply_block(h, v) ==
    /\ event.pc = "idle"
    /\ spec_mtx = "free"
    /\ \/ /\ height_map # << >> /\ Head(height_map).id = v
          /\ event' = [pc |-> "notify", height |-> h, id |-> v]
          /\ UNCHANGED <<gadget, spec_mtx>>
       \/ /\ height_map # << >> /\ Head(height_map).id # v
          /\ event' = [pc |-> "relock", height |-> h, id |-> v]
          /\ spec_mtx' = "event"
          /\ UNCHANGED gadget
       \/ /\ height_map = << >>
          /\ add_height_pair(h, v)
          /\ event' = [pc |-> "submit", height |-> h, id |-> v]
          /\ spec_mtx' = "event"
    /\ UNCHANGED <<control, machine, user, threw>>

\* submit_block_for_exec waits until the VM thread has nothing to do; then the
\* replica is no proposer any more and the block is queued for the VM.
submit_block_for_exec ==
    /\ event.pc = "submit"
    /\ ~exists_work_to_do
    /\ is_proposer' = FALSE
    /\ proposal_buffer' = << >>
    /\ requests' = 0
    /\ blocks_to_validate' = Append(blocks_to_validate, event.id)
    /\ spec_mtx' = "free"
    /\ event' = [event EXCEPT !.pc = "notify"]
    /\ UNCHANGED <<gadget, target, highest_committed_id, machine, user, threw>>

\* notify_vm_of_commitment first takes the pair of the decided height out of the
\* gadget ...
on_commit_hotstuff ==
    /\ event.pc = "notify"
    /\ spec_mtx = "free"
    /\ IF CommitFits(event.height)
       THEN /\ event' = [event EXCEPT !.pc = "wait", !.id = Head(height_map).id]
            /\ height_map' = Tail(height_map)
            /\ highest_committed' = event.height
            /\ UNCHANGED <<speculation_head, threw>>
       ELSE /\ event' = [event EXCEPT !.pc = "dead"]
            /\ threw' = threw \cup {"gap in commit log"}
            /\ UNCHANGED gadget
    /\ UNCHANGED <<spec_mtx, control, machine, user>>

\* mutant: log_commitment does not wait for the VM thread.
wait_for_nothing ==
    /\ event.pc = "wait"
    /\ event' = [event EXCEPT !.pc = "log"]
    /\ UNCHANGED <<gadget, spec_mtx, control, machine, user, threw>>

\* ... then waits until the VM thread has nothing to do, and, holding no lock
\* in between, ...
wait_for_async_task ==
    /\ event.pc = "wait"
    /\ ~exists_work_to_do
    /\ event' = [event EXCEPT !.pc = "log"]
    /\ UNCHANGED <<gadget, spec_mtx, control, machine, user, threw>>

\* ... leaves the id for the VM thread.
log_commitment ==
    /\ event.pc = "log"
    /\ highest_committed_id' = IF event.id # NoBlock THEN event.id
                               ELSE highest_committed_id
    /\ event' = [event EXCEPT !.pc = "idle"]
    /\ UNCHANGED <<gadget, spec_mtx, blocks_to_validate, proposal_buffer, requests,
                   is_proposer, target, machine, user, threw>>

-----------------------------------------------------------------------------
Next ==
    \/ run
    \/ put_vm_in_proposer_mode
    \/ stop_proposals
    \/ \E h \in highest_committed + 1 .. TopHeight :
          \/ make_empty_proposal(h)
          \/ state < TopValue /\ get_and_apply_next_proposal(h)
    \/ got_proposal
    \/ /\ highest_committed < TopHeight
       /\ \E v \in VMBlockID : apply_block(highest_committed + 1, v)
    \/ submit_block_for_exec
    \/ on_commit_hotstuff
    \/ wait_for_async_task
    \/ log_commitment

Spec == Init /\ [][Next]_vars

\* No thread stops forever at a step it could take: the operating system runs
\* every thread, and a condition variable is notified on every change.
Fairness ==
    /\ WF_vars(run)
    /\ WF_vars(got_proposal)
    /\ WF_vars(submit_block_for_exec)
    /\ WF_vars(on_commit_hotstuff)
    /\ WF_vars(wait_for_async_task)
    /\ WF_vars(log_commitment)

FairSpec == Spec /\ Fairness

-----------------------------------------------------------------------------
(* Properties *)

\* The type of the state, component by component.
GadgetType ==
    /\ height_map \in Seq([height : 1..TopHeight, id : Nat])
    /\ speculation_head \in 1..(TopHeight + 1)
    /\ highest_committed \in 0..TopHeight
ControlType ==
    /\ blocks_to_validate \in Seq(Nat)
    /\ proposal_buffer \in Seq(Nat)
    /\ requests \in 0..BufferTarget
    /\ target \in {0, BufferTarget}
    /\ highest_committed_id \in Nat
MachineType == state \in Nat /\ last_committed_state \in Nat
ThreadType ==
    /\ spec_mtx \in {"free", "user", "event"}
    /\ user \in [pc : {"idle", "waiting"}, height : 0..TopHeight]
    /\ event \in [pc : {"idle", "submit", "notify", "wait", "log", "relock", "dead"},
                  height : 0..TopHeight, id : Nat]
    /\ threw \subseteq {"vm thread woke up early", "gap in commit log"}
TypeOK ==
    GadgetType /\ ControlType /\ is_proposer \in BOOLEAN /\ MachineType /\ ThreadType

\* The gadget speculates on consecutive heights, the first of them right above
\* the last committed one, whatever heights consensus proposes at.
SpeculationContiguous ==
    /\ speculation_head = highest_committed + 1 + Len(height_map)
    /\ \A i \in 1..Len(height_map) : height_map[i].height = highest_committed + i

\* Neither "gap in commit log!" nor "committing on empty map" (on_commit_hotstuff)
\* nor "vm thread woke up early" (run) is ever thrown.
NeverThrows == threw = {}

\* get_proposal never has more VM blocks made ahead than the configured target,
\* buffered or requested, whatever refills and stops happen and however often the
\* replica changes from leading to following.
BufferBounded == Len(proposal_buffer) + requests <= BufferTarget

\* log_commitment never overwrites a commitment that run() has yet to pass on,
\* although the comment above it deems that possible.
NoCommitmentSkipped ==
    [][highest_committed_id # NoBlock =>
           highest_committed_id' \in {NoBlock, highest_committed_id}]_vars

\* do_propose never hangs in get_proposal: the event thread cannot clear the
\* proposal requests the application thread is waiting for.
ProposalServed == user.pc = "waiting" ~> user.pc = "idle"

\* Once apply_block has got past the comparison with the speculated block, the
\* commitment reaches the VM thread.  The event thread waits for a VM thread with
\* nothing to do: it gets there if the application, here by the bounds, does not keep
\* asking for proposals, and if a mutex that is free again and again is got at last.
CommitmentDelivered == event.pc \in {"submit", "notify"} ~> event.pc = "idle"

\* Which thread holds the gadget's mutex where, and who may want proposals.
LockDiscipline ==
    /\ user.pc = "waiting" => spec_mtx = "user" /\ is_proposer /\ user.height > 0
    /\ event.pc = "submit" => spec_mtx = "event"
    /\ requests > 0 => is_proposer

\* A decided block keeps its place at the front of the gadget until it is
\* committed, and its id finds the slot for the VM thread empty.
CommitPending ==
    /\ event.pc \in {"submit", "notify"} =>
          height_map # << >> /\ event.height = highest_committed + 1
    /\ event.pc = "log" => highest_committed_id = NoBlock

\* The inductive invariant of the bridge: no step of the application thread, the
\* event thread or the VM thread breaks it.
IInv ==
    /\ TypeOK
    /\ SpeculationContiguous
    /\ NeverThrows
    /\ BufferBounded
    /\ LockDiscipline
    /\ CommitPending

\* What hotstuff_vm_bridge.h says of apply_block: a block that does not match the
\* speculated one makes the VM rewind, and then commits like any other.
ApplyFinishes == event.pc # "idle" ~> event.pc = "idle"
=============================================================================
