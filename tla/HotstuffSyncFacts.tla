------------------------- MODULE HotstuffSyncFacts --------------------------
(***************************************************************************)
(* Facts about the VM of a replica that only follows, which every step     *)
(* keeps in step with consensus whatever the peers propose; about what a   *)
(* lone leader that waits for the certificate of each proposal proposes;   *)
(* and about what being in step means for either.                          *)
(***************************************************************************)
EXTENDS HotstuffAppSteps

-----------------------------------------------------------------------------
(* A follower *)

\* Where only consensus moves, a block the VM keeps step with stays one.
LEMMA InStepKept ==
    ASSUME AppInv, AppInv', [AppNext]_all_vars, NEW b \in Blocks, InStep(b), UNCHANGED vm_vars
    PROVE  InStep(b)'
<1>1. Parent(b) \in Blocks
    BY TreeFacts DEF AppInv, IInv
<1>2. PICK c : c = IF Owed THEN Parent(b) ELSE b
    OBVIOUS
<1>3. c \in Blocks /\ Counter(c)' = Counter(c)
    BY <1>1, <1>2, CounterStable
<1>4. Parent(b)' = Parent(b) /\ Value(b)' = Value(b)
    BY ChainStable
<1>5. Owed' = Owed
    BY DEF Owed, vm_vars
<1>6. c = IF Owed' THEN Parent(b)' ELSE b
    BY <1>2, <1>4, <1>5
<1>7. state' = Counter(c)'
    BY <1>2, <1>3 DEF InStep, vm_vars
<1> QED BY <1>4, <1>5, <1>6, <1>7 DEF InStep, vm_vars

\* Consensus decides nothing at the heights the gadget has been through.
LEMMA FollowCore ==
    ASSUME AppInv, AppInv', FaultsTolerated, [AppNext]_all_vars, FollowInv, UNCHANGED vm_vars
    PROVE  FollowInv'
<1> DEFINE top == highest_committed + Len(height_map)
<1>1. ASSUME NEW b \in decided'[self], Height(b)' = top
      PROVE  b \in decided[self]
  <2>1. CASE decided'[self] = decided[self]
    BY <1>1, <2>1
  <2>2. ASSUME NEW m \in proposals, handle_proposal(m)
        PROVE  b \in decided[self]
    <3>1. Ready
        BY <2>2 DEF handle_proposal
    <3>2. Done = highest_committed /\ Len(commit_queue) = 0 /\ Len(height_map) = 0
        BY <3>1 DEF Ready, FollowInv, Done
    <3>3. highest_committed \in Nat
        BY CommittedBelowLeaf
    <3>4. Height(b_exec[self]) = top
        BY <3>2, <3>3 DEF AppInv, QueueInv
    <3>5. decided[self] \subseteq decided'[self]
        BY <2>2 DEF handle_proposal, on_receive_proposal, update, commit, AppInv, IInv, TypeOK
    <3>6. b_exec[self] \in decided[self] /\ b_exec[self] \in Blocks
        BY DecidedFacts
    <3>7. PICK e : e = b_exec[self]
        OBVIOUS
    <3>8. e \in decided'[self] /\ Height(e)' = Height(b)'
        BY <1>1, <3>4, <3>5, <3>6, <3>7, ChainStable
    <3>9. b = e
        <4>1. PICK d : d = b_exec'[self]
            OBVIOUS
        <4>2. decided'[self] = Anc(d)' /\ d \in Blocks' /\ e \in Blocks'
            BY <3>6, <3>7, <4>1, AppAssumption, ChainStable DEF AppInv, IInv, ReplicaInv, TypeOK,
               Anc
        <4>3. Anc(e)' = {c \in Anc(d)' : Height(c)' <= Height(e)'}
            BY <3>8, <4>2 DEF AppInv, IInv, TreeInv, WellPlaced
        <4>4. Height(e)' \in Nat
            BY <3>4, <3>6, <3>7, ChainStable, TreeFacts DEF AppInv, IInv
        <4>5. b \in Anc(e)'
            BY <1>1, <3>8, <4>2, <4>3, <4>4
        <4>6. b # e => Height(b)' < Height(e)'
            BY <4>2, <4>5 DEF AppInv, IInv, TreeInv, WellPlaced
        <4> QED BY <3>8, <4>4, <4>6
    <3> QED BY <3>6, <3>7, <3>9
  <2> QED BY <2>1, <2>2, SelfDecides
<1>2. ASSUME NEW b \in decided'[self], Height(b)' = top
      PROVE  InStep(b)'
  <2>1. b \in decided[self] /\ b \in Blocks
    BY <1>1, <1>2, DecidedFacts
  <2>2. Height(b) = top
    BY <1>2, <2>1, ChainStable
  <2>3. InStep(b)
    BY <2>1, <2>2 DEF FollowInv
  <2> QED BY <2>1, <2>3, InStepKept
<1>3. top' = top
    BY DEF vm_vars
<1> QED BY <1>2, <1>3 DEF FollowInv, vm_vars

\* Where only the VM and the bridge move, the chain stands still.
LEMMA ChainStill ==
    ASSUME UNCHANGED <<vars, body>>
    PROVE  /\ Blocks' = Blocks /\ decided' = decided /\ b_exec' = b_exec
           /\ \A b : /\ Height(b)' = Height(b) /\ Parent(b)' = Parent(b) /\ Anc(b)' = Anc(b)
                     /\ Value(b)' = Value(b) /\ Counter(b)' = Counter(b)
BY DEF vars, Blocks, Height, Parent, Anc, Value, Counter, Path

\* The front of a sequence.
LEMMA HeadFirst ==
    ASSUME NEW S, NEW q \in Seq(S), q # << >> \/ Len(q) # 0
    PROVE  /\ q # << >> /\ Len(q) \in Nat /\ Len(q) # 0 /\ Head(q) = q[1] /\ 1 \in 1..Len(q)
OBVIOUS

\* The types of the gadget, and where it stands.
LEMMA GadgetFacts ==
    ASSUME AppInv
    PROVE  /\ highest_committed \in Nat /\ Len(height_map) \in Nat
           /\ height_map \in Seq([height : 1..MaxHeight, id : Nat])
           /\ speculation_head = highest_committed + 1 + Len(height_map)
           /\ \A i \in 1..Len(height_map) : height_map[i].height = highest_committed + i
           /\ event.pc \in {"idle", "submit", "notify", "wait", "log", "relock", "dead"}
           /\ blocks_to_validate \in Seq(Nat) /\ proposal_buffer \in Seq(Nat) /\ state \in Nat
<1>1. /\ height_map \in Seq([height : 1..MaxHeight, id : Nat]) /\ highest_committed \in 0..MaxHeight
    BY DEF AppInv, VM!IInv, VM!TypeOK, VM!GadgetType
<1>2. Len(height_map) \in Nat /\ highest_committed \in Nat
    BY <1>1, ConstantsAssumption
<1> QED BY <1>1, <1>2, Zenon DEF AppInv, VM!IInv, VM!TypeOK, VM!ThreadType, VM!ControlType,
           VM!MachineType,
                          VM!SpeculationContiguous

\* The next decided block: its parent was decided at the height committed last.
LEMMA NextInLine ==
    ASSUME AppInv, commit_queue # << >>, event.pc = "idle",
           NEW b \in decided[self], Height(b) = highest_committed + 1
    PROVE  /\ b = Head(commit_queue) /\ b # Genesis
           /\ Parent(b) \in decided[self] /\ Height(Parent(b)) = highest_committed
<1>1. commit_queue \in Seq(decided[self])
    BY DEF AppInv, QueueInv
<1>2. Head(commit_queue) \in decided[self]
    BY <1>1
<1>3. Height(Head(commit_queue)) = highest_committed + 1 /\ highest_committed \in Nat
    BY NextDecided, CommittedBelowLeaf
<1>4. b = Head(commit_queue)
    BY <1>2, <1>3, DecidedFacts
<1>5. b # Genesis
    BY <1>3, DecidedFacts
<1>6. Parent(b) \in decided[self] /\ Height(b) = Height(Parent(b)) + 1
    BY <1>5, DecidedFacts
<1>7. Height(Parent(b)) \in Nat
    BY <1>6, DecidedFacts
<1> QED BY <1>3, <1>4, <1>5, <1>6, <1>7

\* A decided block goes to the gadget, which is empty, and waits for the VM.
LEMMA FollowApply ==
    ASSUME AppInv, FollowInv, apply_next
    PROVE  FollowInv'
<1>1. PICK c : c = Head(commit_queue)
    OBVIOUS
<1>2. /\ commit_queue # << >> /\ event.pc = "idle" /\ VM!apply_block(Height(c), Value(c))
      /\ UNCHANGED <<vars, body>>
    BY <1>1 DEF apply_next, app_vars, VM!apply_block
<1>3. height_map = << >> /\ Len(height_map) = 0
    BY <1>2, GadgetFacts DEF FollowInv
<1>4. Height(c) = speculation_head /\ highest_committed \in Nat /\ Height(c) = highest_committed + 1
    BY <1>1, <1>2, <1>3, NextDecided, GadgetFacts
<1>5. /\ VM!add_height_pair(Height(c), Value(c))
      /\ event' = [pc |-> "submit", height |-> Height(c), id |-> Value(c)]
      /\ UNCHANGED <<blocks_to_validate, proposal_buffer, requests, user, state>>
    BY <1>2, <1>3 DEF VM!apply_block, VM!control, VM!machine
<1>6. /\ height_map' = Append(<< >>, [height |-> Height(c), id |-> Value(c)])
      /\ UNCHANGED highest_committed
    BY <1>3, <1>4, <1>5 DEF VM!add_height_pair
<1>7. Len(height_map') = 1 /\ height_map'[1].id = Value(c)
    BY <1>6
<1>8. event'.pc = "submit" /\ event'.id = Value(c) /\ Owed'
    BY <1>5 DEF Owed
<1>9. ~Owed /\ blocks_to_validate = << >>
    BY <1>2 DEF Owed, FollowInv
<1>10. ASSUME NEW b \in decided'[self], Height(b)' = highest_committed' + Len(height_map')
       PROVE  InStep(b)'
  <2>1. b \in decided[self] /\ Height(b) = highest_committed + 1
    BY <1>2, <1>6, <1>7, <1>10, ChainStill
  <2>2. b = c /\ b # Genesis /\ Parent(b) \in decided[self] /\ Height(Parent(b)) = highest_committed
    BY <1>1, <1>2, <2>1, NextInLine
  <2>3. InStep(Parent(b))
    BY <1>3, <1>4, <2>2 DEF FollowInv
  <2>4. PICK p : p = Parent(b)
    OBVIOUS
  <2>5. p \in Blocks /\ state' = Counter(p)'
    BY <1>2, <1>5, <1>9, <2>2, <2>3, <2>4, ChainStill, DecidedFacts, SMTT(20) DEF InStep
  <2>6. Parent(b)' = p /\ Value(b)' = Value(c)
    BY <1>2, <2>2, <2>4, ChainStill
  <2> QED BY <1>5, <1>7, <1>8, <1>9, <2>2, <2>5, <2>6 DEF InStep
<1> QED BY <1>5, <1>7, <1>8, <1>9, <1>10 DEF FollowInv

\* The event thread hands the block to the VM and takes it out of the gadget.
LEMMA FollowPass ==
    ASSUME AppInv, FollowInv, pass_on \/ passed_on
    PROVE  FollowInv'
<1>1. UNCHANGED <<vars, body>>
    BY DEF pass_on, passed_on, app_vars
<1>2. /\ UNCHANGED <<user, state>> /\ proposal_buffer' = << >> /\ requests' = 0
    BY Zenon DEF pass_on, passed_on, FollowInv, VM!submit_block_for_exec, VM!on_commit_hotstuff,
           VM!wait_for_async_task, VM!log_commitment, VM!control, VM!machine
<1>3. CASE VM!submit_block_for_exec
  <2>1. /\ event.pc = "submit" /\ event'.pc = "notify" /\ UNCHANGED <<height_map, highest_committed>>
        /\ blocks_to_validate = << >> /\ blocks_to_validate' = Append(blocks_to_validate, event.id)
    BY <1>3, Zenon DEF VM!submit_block_for_exec, VM!gadget, FollowInv, AppInv, VM!IInv,
       VM!TypeOK, VM!ThreadType
  <2>2. Owed /\ Owed' /\ blocks_to_validate' = <<event.id>>
    BY <2>1 DEF Owed
  <2>3. ASSUME NEW b \in decided'[self], Height(b)' = highest_committed' + Len(height_map')
        PROVE  InStep(b)'
    <3>1. InStep(b)
        BY <1>1, <2>1, <2>3, ChainStill, Zenon DEF FollowInv
    <3>2. PICK p : p = Parent(b)
        OBVIOUS
    <3>3. Blocks' = Blocks /\ Parent(b)' = p /\ Counter(p)' = Counter(p) /\ Value(b)' = Value(b)
        BY <1>1, <3>2, ChainStill
    <3> QED BY <1>2, <2>1, <2>2, <3>1, <3>2, <3>3 DEF InStep
  <2> QED BY <1>2, <2>1, <2>3 DEF FollowInv
<1>4. CASE VM!on_commit_hotstuff
  <2>1. event.pc = "notify" /\ Len(height_map) = 1 /\ event.height = highest_committed + 1
    BY <1>4, Zenon DEF VM!on_commit_hotstuff, FollowInv, AppInv, VM!IInv, VM!CommitPending
  <2>2. /\ height_map \in Seq([height : 1..MaxHeight, id : Nat]) /\ highest_committed \in Nat
        /\ height_map[1].height = highest_committed + 1
    BY <2>1, GadgetFacts
  <2>3. height_map # << >> /\ Head(height_map) = height_map[1]
    <3>1. PICK S : height_map \in Seq(S)
        BY <2>2
    <3>2. Len(height_map) # 0
        BY <2>1
    <3> QED BY <3>1, <3>2, HeadFirst
  <2>4. VM!CommitFits(event.height)
    BY <2>1, <2>2, <2>3 DEF VM!CommitFits
  <2>5. /\ event' = [event EXCEPT !.pc = "wait", !.id = Head(height_map).id]
        /\ height_map' = Tail(height_map) /\ highest_committed' = event.height
        /\ UNCHANGED blocks_to_validate
    BY <1>4, <2>4 DEF VM!on_commit_hotstuff, VM!control
  <2>6. event'.pc = "wait"
    BY <2>5, Zenon DEF AppInv, VM!IInv, VM!TypeOK, VM!ThreadType
  <2>7. /\ Len(height_map') = 0 /\ height_map' = << >>
        /\ highest_committed' + Len(height_map') = highest_committed + Len(height_map)
    BY <2>1, <2>2, <2>5
  <2>8. Owed' = Owed
    BY <2>1, <2>5, <2>6 DEF Owed
  <2>9. ASSUME NEW b \in decided'[self], Height(b)' = highest_committed' + Len(height_map')
        PROVE  InStep(b)'
    <3>1. InStep(b)
        BY <1>1, <2>7, <2>9, ChainStill DEF FollowInv
    <3>2. PICK c : c = IF Owed THEN Parent(b) ELSE b
        OBVIOUS
    <3>3. /\ Blocks' = Blocks /\ Parent(b)' = Parent(b) /\ Counter(c)' = Counter(c)
          /\ Value(b)' = Value(b)
        BY <1>1, ChainStill
    <3>4. c = IF Owed' THEN Parent(b)' ELSE b
        BY <2>8, <3>2, <3>3
    <3> QED BY <1>2, <2>5, <2>6, <2>7, <2>8, <3>1, <3>2, <3>3, <3>4 DEF InStep
  <2> QED BY <1>2, <2>6, <2>7, <2>9 DEF FollowInv
<1>5. CASE VM!wait_for_async_task \/ VM!log_commitment
  <2>1. /\ event.pc \in {"wait", "log"} /\ event'.pc \in {"log", "idle"}
        /\ UNCHANGED <<height_map, highest_committed, blocks_to_validate>>
    BY <1>5, Zenon DEF VM!wait_for_async_task, VM!log_commitment, VM!gadget, VM!control, AppInv,
       VM!IInv,
                VM!TypeOK, VM!ThreadType
  <2>2. blocks_to_validate = << >>
    BY <1>5 DEF VM!wait_for_async_task, VM!log_commitment, VM!exists_work_to_do, FollowInv
  <2>3. ~Owed /\ ~Owed'
    BY <2>1, <2>2 DEF Owed
  <2>4. ASSUME NEW b \in decided'[self], Height(b)' = highest_committed' + Len(height_map')
        PROVE  InStep(b)'
    <3>1. InStep(b)
        BY <1>1, <2>1, <2>4, ChainStill DEF FollowInv
    <3>2. Blocks' = Blocks /\ Counter(b)' = Counter(b) /\ Value(b)' = Value(b)
        BY <1>1, ChainStill
    <3> QED BY <1>2, <2>1, <2>2, <2>3, <3>1, <3>2, SMTT(20) DEF InStep
  <2> QED BY <1>2, <2>1, <2>2, <2>4 DEF FollowInv
<1> QED BY <1>3, <1>4, <1>5 DEF pass_on, passed_on

\* The VM executes the block it owes, or skips it, as any VM would that came this way.
LEMMA FollowRun ==
    ASSUME AppInv, FollowInv, vm_thread
    PROVE  FollowInv'
<1>1. VM!run /\ UNCHANGED <<vars, body>>
    BY DEF vm_thread, app_vars
<1>2. /\ blocks_to_validate' = << >> /\ UNCHANGED <<height_map, highest_committed, user, event>>
    BY <1>1, RunFacts
<1>3. requests = 0 /\ proposal_buffer = << >>
    BY DEF FollowInv
<1>4. PICK t \in Nat :
         /\ blocks_to_validate = << >> => t = state
         /\ blocks_to_validate # << >> =>
               t = IF blocks_to_validate[1] = VM!NoBlock THEN state
                   ELSE VM!exec_block(state, blocks_to_validate[1])
         /\ state' = t /\ UNCHANGED <<proposal_buffer, requests>>
    BY <1>1, <1>3, RunFacts
<1>5. ASSUME NEW b \in decided'[self], Height(b)' = highest_committed' + Len(height_map')
      PROVE  InStep(b)'
  <2>1. InStep(b) /\ b \in Blocks
    BY <1>1, <1>2, <1>5, ChainStill, DecidedFacts, Zenon DEF FollowInv
  <2>2. /\ Blocks' = Blocks /\ Value(b)' = Value(b) /\ Parent(b)' = Parent(b)
        /\ Counter(b)' = Counter(b)
    BY <1>1, ChainStill
  <2>3. CASE blocks_to_validate = << >>
    <3>1. Owed' = Owed /\ state' = state
        BY <1>2, <1>4, <2>3 DEF Owed
    <3>2. PICK c : c = IF Owed THEN Parent(b) ELSE b
        BY Zenon
    <3>3. Counter(c)' = Counter(c) /\ c = IF Owed' THEN Parent(b)' ELSE b
        BY <1>1, <2>2, <3>1, <3>2, ChainStill, Zenon
    <3> QED BY <1>2, <2>1, <2>2, <3>1, <3>2, <3>3, SMTT(20) DEF InStep
  <2>4. CASE blocks_to_validate # << >>
    <3>1. Owed /\ event.pc # "submit" /\ ~Owed'
        BY <1>2, <2>4 DEF Owed, FollowInv
    <3>2. PICK p : p = Parent(b)
        OBVIOUS
    <3>3. /\ b # Genesis /\ blocks_to_validate[1] = Value(b) /\ p \in Blocks
          /\ state = Counter(p) /\ Counter(p) \in Nat
          /\ Counter(b) = VM!exec_block(Counter(p), Value(b))
        <4>1. b # Genesis /\ blocks_to_validate[1] = Value(b)
            BY <2>1, <2>4, <3>1 DEF InStep
        <4>2. /\ p \in Blocks /\ Counter(p) \in Nat
              /\ Counter(b) = VM!exec_block(Counter(p), Value(b))
            BY <2>1, <3>2, <4>1, CounterStep
        <4>3. state = Counter(p)
            BY <2>1, <3>1, <3>2, <4>2 DEF InStep
        <4> QED BY <4>1, <4>2, <4>3
    <3>4. state' = Counter(b)
        BY <1>4, <2>4, <3>3 DEF VM!exec_block, VM!NoBlock
    <3> QED BY <1>2, <2>1, <2>2, <3>1, <3>4 DEF InStep
  <2> QED BY <2>3, <2>4
<1> QED BY <1>2, <1>4, <1>5 DEF FollowInv

\* Neither is a follower's VM disturbed by the application's orders.
LEMMA FollowOrders ==
    ASSUME AppInv, [AppNext]_all_vars, FollowInv, vm_orders
    PROVE  FollowInv'
<1>1. /\ UNCHANGED <<vars, body>>
      /\ UNCHANGED <<height_map, highest_committed, blocks_to_validate, proposal_buffer, requests,
                     state, user, event>>
    BY DEF vm_orders, app_vars, VM!put_vm_in_proposer_mode, VM!stop_proposals, VM!gadget,
       VM!machine,
           VM!threads
<1>2. ASSUME NEW b \in decided'[self], Height(b)' = highest_committed' + Len(height_map')
      PROVE  InStep(b)'
  <2>1. InStep(b)
    BY <1>1, <1>2, ChainStill, Zenon DEF FollowInv
  <2>2. PICK c : c = IF Owed THEN Parent(b) ELSE b
    BY Zenon
  <2>3. /\ Owed' = Owed /\ Parent(b)' = Parent(b) /\ Counter(c)' = Counter(c)
        /\ Blocks' = Blocks /\ Value(b)' = Value(b)
    BY <1>1, ChainStill, Zenon DEF Owed
  <2>4. c = IF Owed' THEN Parent(b)' ELSE b
    BY <2>2, <2>3
  <2> QED BY <1>1, <2>1, <2>2, <2>3, <2>4, SMTT(20) DEF InStep
<1> QED BY <1>1, <1>2 DEF FollowInv

\* A replica that does not propose keeps its VM in step with what is decided.
LEMMA FollowStep ==
    ASSUME FaultsTolerated, AppInv, AppInv', [AppNext]_all_vars, self \notin Proposers,
           FollowInv
    PROVE  FollowInv'
<1>1. ~do_propose_next /\ ~do_empty_propose /\ ~finish_propose
    BY Zenon DEF do_propose_next, do_empty_propose, propose, finish_propose, VM!got_proposal,
       FollowInv
<1>2. CASE own_event \/ peer_event
    BY <1>2, HandlerKeepsTree, FollowCore
<1>3. ASSUME NEW r \in Replica \ {self}, peer(r) PROVE FollowInv'
  <2>1. UNCHANGED vm_vars
    BY <1>3 DEF peer
  <2> QED BY <1>3, <2>1, FollowCore, SMTT(20)
<1>4. CASE \/ wait_for_qc \/ cancel_wait_for_new_qc \/ get_last_proposer \/ set_self_as_proposer
           \/ (\E m \in proposals : network_event(m)) \/ UNCHANGED all_vars
  <2>1. UNCHANGED vm_vars
    BY <1>4 DEF wait_for_qc, cancel_wait_for_new_qc, get_last_proposer, set_self_as_proposer,
                network_event, all_vars
  <2> QED BY <2>1, FollowCore
<1>5. CASE apply_next \/ pass_on \/ passed_on \/ vm_thread \/ vm_orders
    BY <1>5, FollowApply, FollowPass, FollowRun, FollowOrders
<1> QED BY <1>1, <1>2, <1>3, <1>4, <1>5, SMTT(20) DEF AppNext

-----------------------------------------------------------------------------
(* What the only leader proposes *)

\* All blocks lie below b_leaf, one per height, and are stored.
LEMMA LeadChain ==
    ASSUME AppInv, LeadInv
    PROVE  /\ b_leaf[self] \in Blocks /\ hqc[self] \in Blocks /\ Genesis \in Blocks
           /\ Height(Genesis) = 0 /\ Height(hqc[self]) <= Height(b_leaf[self])
           /\ \A a \in Blocks : Height(a) \in Nat /\ Height(a) <= Height(b_leaf[self])
           /\ \A a, c \in Blocks : Height(a) = Height(c) => a = c
           /\ Blocks \subseteq DOMAIN store
<1>1. TypeOK /\ TreeInv
    BY DEF AppInv, IInv
<1>2. b_leaf[self] \in Blocks /\ hqc[self] \in Blocks /\ Genesis \in Blocks
    BY <1>1, AppAssumption DEF TypeOK
<1>3. \A a \in Blocks : Height(a) \in Nat /\ Height(a) <= Height(b_leaf[self])
    BY <1>1, <1>2, AncestorFacts DEF LeadInv
<1>4. \A a, c \in Blocks : Height(a) = Height(c) => a = c
    BY <1>1, <1>2, OnePerHeight DEF LeadInv
<1>5. Blocks \subseteq DOMAIN store
    BY <1>2 DEF LeadInv, AppInv, StoreComplete
<1> QED BY <1>1, <1>2, <1>3, <1>4, <1>5, TreeFacts

\* What do_propose of the only leader comes to: a wait for the VM, or a new block
\* with no VM block or the oldest buffered one, recorded in the gadget.
LEMMA LeadProposes ==
    ASSUME AppInv, LeadInv, AheadInv, do_propose_next \/ do_empty_propose \/ finish_propose
    PROVE  /\ pacer.pc = "propose"
           /\ UNCHANGED <<highest_committed, blocks_to_validate, state, event>>
           /\ \/ /\ UNCHANGED <<vars, app_vars, height_map, proposal_buffer>>
                 /\ user'.pc = "waiting" /\ user'.height = Height(b_leaf[self]) + 1
              \/ \E x \in VM!VMBlockID :
                    /\ mint(x) /\ user'.pc = "idle"
                    /\ height_map' = Append(height_map, [height |-> Height(b_leaf[self]) + 1, id |-> x])
                    /\ \/ x = VM!NoBlock /\ UNCHANGED proposal_buffer
                       \/ /\ proposal_buffer # << >> /\ x = Head(proposal_buffer)
                          /\ proposal_buffer' = Tail(proposal_buffer)
<1> DEFINE h == Height(b_leaf[self]) + 1
<1>1. h = speculation_head
    BY GadgetFacts DEF AheadInv
<1>2. ASSUME NEW x, VM!add_height_pair(h, x)
      PROVE  height_map' = Append(height_map, [height |-> h, id |-> x]) /\ UNCHANGED highest_committed
    BY <1>1, <1>2 DEF VM!add_height_pair
<1>3. VM!NoBlock \in VM!VMBlockID
    BY AppAssumption DEF VM!NoBlock, VM!VMBlockID
<1>4. proposal_buffer # << >> => Head(proposal_buffer) \in VM!VMBlockID
  <2>1. proposal_buffer # << >> =>
          1 \in 1..Len(proposal_buffer) /\ Head(proposal_buffer) = proposal_buffer[1]
    BY GadgetFacts, HeadFirst
  <2> QED BY <2>1 DEF AppInv, ValueInv
<1> HIDE DEF h
<1>5. CASE finish_propose
  <2>1. VM!got_proposal /\ mint(Head(proposal_buffer))
    BY <1>5 DEF finish_propose
  <2>2. /\ user.pc = "waiting" /\ proposal_buffer # << >> /\ VM!take_proposal(user.height)
        /\ user' = [pc |-> "idle", height |-> 0] /\ UNCHANGED <<state, event>>
    BY <2>1 DEF VM!got_proposal, VM!machine
  <2>3. pacer.pc = "propose" /\ user.height = h
    BY <2>2, Zenon DEF LeadInv, h
  <2>4. /\ VM!add_height_pair(h, Head(proposal_buffer)) /\ proposal_buffer' = Tail(proposal_buffer)
        /\ UNCHANGED blocks_to_validate
    BY <2>2, <2>3 DEF VM!take_proposal
  <2>5. user'.pc = "idle"
    BY <2>2
  <2> QED BY <1>2, <1>4, <2>1, <2>2, <2>3, <2>4, <2>5, Zenon DEF h
<1>6. ASSUME NEW supported, propose(supported)
      PROVE  /\ pacer.pc = "propose"
             /\ UNCHANGED <<highest_committed, blocks_to_validate, state, event>>
             /\ \/ /\ UNCHANGED <<vars, app_vars, height_map, proposal_buffer>>
                   /\ user'.pc = "waiting" /\ user'.height = h
                \/ \E x \in VM!VMBlockID :
                      /\ mint(x) /\ user'.pc = "idle"
                      /\ height_map' = Append(height_map, [height |-> h, id |-> x])
                      /\ \/ x = VM!NoBlock /\ UNCHANGED proposal_buffer
                         \/ /\ proposal_buffer # << >> /\ x = Head(proposal_buffer)
                            /\ proposal_buffer' = Tail(proposal_buffer)
  <2>1. pacer.pc = "propose" /\ user.pc = "idle"
    BY <1>6 DEF propose
  <2>2. CASE VM!make_empty_proposal(h) /\ mint(VM!NoBlock)
    <3>1. /\ VM!add_height_pair(h, VM!NoBlock)
          /\ UNCHANGED <<blocks_to_validate, proposal_buffer, state, event, user>>
        BY <2>2 DEF VM!make_empty_proposal, VM!control, VM!machine, VM!threads
    <3> QED BY <1>2, <1>3, <2>1, <2>2, <3>1, Zenon
  <2>3. PICK ready : ready = IF is_proposer /\ proposal_buffer # << >>
                             THEN Head(proposal_buffer) ELSE VM!NoBlock
    OBVIOUS
  <2>4. CASE /\ VM!get_and_apply_next_proposal(h)
             /\ IF user'.pc = "waiting" THEN UNCHANGED <<vars, app_vars>> ELSE mint(ready)
    <3>1. UNCHANGED <<state, event>>
        BY <2>4 DEF VM!get_and_apply_next_proposal, VM!machine
    <3>2. CASE /\ ~is_proposer \/ (proposal_buffer = << >> /\ target = 0)
               /\ VM!add_height_pair(h, VM!NoBlock)
               /\ UNCHANGED <<spec_mtx, VM!control, user>>
        <4>1. ready = VM!NoBlock /\ user'.pc = "idle"
            BY <2>1, <2>3, <3>2
        <4> QED BY <1>2, <1>3, <2>1, <2>4, <3>1, <3>2, <4>1, Zenon DEF VM!control
    <3>3. CASE /\ is_proposer /\ proposal_buffer # << >> /\ VM!take_proposal(h)
               /\ UNCHANGED <<spec_mtx, user>>
        <4>1. ready = Head(proposal_buffer) /\ user'.pc = "idle"
            BY <2>1, <2>3, <3>3
        <4>2. /\ VM!add_height_pair(h, ready) /\ proposal_buffer' = Tail(proposal_buffer)
              /\ UNCHANGED blocks_to_validate
            BY <3>3, <4>1 DEF VM!take_proposal
        <4> QED BY <1>2, <1>4, <2>1, <2>4, <3>1, <3>3, <4>1, <4>2, Zenon
    <3>4. CASE VM!await_proposal(h)
        <4>1. /\ UNCHANGED <<height_map, highest_committed, blocks_to_validate, proposal_buffer>>
              /\ user' = [pc |-> "waiting", height |-> h]
            BY <3>4 DEF VM!await_proposal, VM!gadget
        <4>2. user'.pc = "waiting" /\ user'.height = h
            BY <4>1
        <4> QED BY <2>1, <2>4, <3>1, <4>1, <4>2
    <3> QED BY <2>4, <3>2, <3>3, <3>4, Zenon DEF VM!get_and_apply_next_proposal
  <2> QED BY <1>6, <2>2, <2>3, <2>4, Zenon DEF propose, h
<1> QED BY <1>5, <1>6, Zenon DEF do_propose_next, do_empty_propose, h

\* The block the only leader mints is new, on top of all others.
LEMMA LeadNewBlock ==
    ASSUME AppInv, LeadInv, NEW x \in VM!VMBlockID, mint(x),
           NEW b, b = Hash(b_leaf[self], hqc[self], x)
    PROVE  /\ b \notin Blocks /\ b_leaf'[self] = b /\ hqc'[self] = hqc[self]
           /\ Blocks' = Blocks \cup {b}
<1>1. self \in Replica /\ b_leaf \in [Replica -> Blocks] /\ do_propose(self, x)
    BY AppAssumption, Zenon DEF AppInv, IInv, TypeOK, mint
<1>2. b \in Blocks => Height(b) = Height(b_leaf[self]) + 1
    BY <1>1, MintedAgain, Zenon
<1>3. b \notin Blocks
    BY <1>2, LeadChain
<1>4. record(b, x)
    BY DEF mint
<1>5. Blocks' = Blocks \cup {b}
    BY <1>1, <1>4, MintedBody, SMTT(20) DEF AppInv
<1> QED BY <1>1, <1>3, <1>5, SMTT(20) DEF do_propose

\* A new block awaits its certificate, and the pacemaker expects it.
LEMMA LeadMint ==
    ASSUME AppInv, AppInv', BodyOrder, LeadInv, [AppNext]_all_vars, Pacing = "wait",
           NEW x \in VM!VMBlockID, mint(x), x \in {VM!NoBlock, NextValue(b_leaf[self])},
           pacer.pc = "propose", user'.pc = "idle"
    PROVE  LeadInv'
<1>1. PICK b, p, q : b = Hash(b_leaf[self], hqc[self], x) /\ p = b_leaf[self] /\ q = hqc[self]
    BY Zenon
<1>2. /\ b \notin Blocks /\ b_leaf'[self] = b /\ hqc'[self] = q /\ Blocks' = Blocks \cup {b}
    BY <1>1, LeadNewBlock, Zenon
<1>3. /\ do_propose(self, x) /\ record(b, x) /\ insert_block(b, self) /\ self \in Replica
      /\ UNCHANGED <<self_qc, latest_new_qc, cancel_wait, votes>>
      /\ pacer' = [pc |-> "wait", expected |-> b, proposer |-> self]
    BY <1>1, AppAssumption, Zenon DEF mint, do_propose
<1>4. /\ Justify(b)' = q /\ Height(b)' = Height(p) + 1 /\ Anc(b)' = Anc(p) \cup {b}
    BY <1>1, <1>2, <1>3, MintedBlock, Zenon
<1>5. p = q /\ latest_new_qc = {} /\ Anc(p) = Blocks /\ p \in Blocks /\ Height(p) \in Nat
    BY <1>1, LeadChain, Zenon DEF LeadInv
<1>6. Height(q)' = Height(q)
    BY <1>5, ChainStable
<1>7. Anc(b)' = Blocks' /\ Height(b)' <= Height(q)' + 1
    BY <1>2, <1>4, <1>5, <1>6, SMTT(20)
<1>8. /\ store'[b] = self /\ \A c \in Blocks : store'[c] = store[c]
    BY <1>2, <1>3, LeadChain, Inserted, SMTT(20) DEF insert_block, AppInv, BodyType
<1>9. ASSUME NEW c \in Blocks' \ {Genesis}
      PROVE  /\ store'[c] = self
             /\ Height(Justify(c))' <= Height(q)'
             /\ Height(c)' <= Height(q)' => Counted(c)'
  <2>1. CASE c = b
    <3>1. Height(Justify(c))' = Height(q)'
        BY <1>4, <2>1 DEF Height
    <3>2. Height(c)' = Height(q) + 1
        BY <1>4, <1>5, <2>1
    <3> QED BY <1>5, <1>6, <1>8, <2>1, <3>1, <3>2
  <2>2. CASE c \in Blocks
    <3>1. store[c] = self /\ Height(Justify(c)) <= Height(q) /\ (Height(c) <= Height(q) => Counted(c))
        BY <1>1, <1>9, <2>2 DEF LeadInv
    <3>2. Justify(c) \in Blocks
        BY <2>2, TreeFacts DEF AppInv, IInv
    <3>3. PICK j : j = Justify(c)
        OBVIOUS
    <3>4. Justify(c)' = j /\ Height(j)' = Height(j) /\ Height(c)' = Height(c)
        BY <2>2, <3>2, <3>3, ChainStable
    <3>5. Height(Justify(c))' = Height(j)'
        BY <3>4, SMTT(20) DEF Height
    <3>6. Counted(c)' = Counted(c)
        BY <1>3, Zenon DEF Counted, signed, has_quorum, nmajority, nfaulty
    <3> QED BY <1>6, <1>8, <2>2, <3>1, <3>3, <3>4, <3>5, <3>6
  <2> QED BY <1>2, <2>1, <2>2
<1>10. pacer'.pc = "wait" /\ pacer'.expected = b
    BY <1>3, SMTT(20)
<1>11. /\ \A v \in votes' : v.block # Genesis
       /\ ~cancel_wait' /\ latest_new_qc' = {}
    BY <1>3, <1>5, Zenon DEF LeadInv
<1>12. Anc(b_leaf[self])' = Blocks' /\ Height(b_leaf[self])' <= Height(hqc[self])' + 1
    BY <1>2, <1>7, Zenon DEF Anc, Height
<1>13. Height(hqc[self])' = Height(q)'
    BY <1>2 DEF Height
<1> QED BY <1>2, <1>9, <1>10, <1>11, <1>12, <1>13, Zenon DEF LeadInv

-----------------------------------------------------------------------------
(* The VM in step with consensus *)

\* Every block the gadget has committed is decided, and so is the one on its way.
LEMMA CommittedDecided ==
    ASSUME AppInv
    PROVE  /\ highest_committed \in Nat /\ highest_committed <= Height(b_exec[self])
           /\ event.pc \in {"submit", "notify"} => highest_committed + 1 <= Height(b_exec[self])
           /\ \A h \in 0..Height(b_exec[self]) : \E d \in decided[self] : Height(d) = h
           /\ \A h \in 1..highest_committed : \A d \in decided[self] :
                 Height(d) = h => Ran(h) = Value(d)
<1>1. highest_committed \in Nat /\ Height(b_exec[self]) \in Nat /\ b_exec[self] \in Blocks
      /\ decided[self] = Anc(b_exec[self])
    BY CommittedBelowLeaf, DecidedFacts
<1>2. /\ Done + Len(commit_queue) = Height(b_exec[self]) /\ Len(commit_queue) \in Nat
      /\ event.pc # "idle" => Len(commit_queue) > 0
  <2>1. commit_queue \in Seq(decided[self]) /\ (event.pc # "idle" => commit_queue # << >>)
    BY DEF AppInv, QueueInv
  <2>2. Len(commit_queue) \in Nat /\ (commit_queue # << >> => Len(commit_queue) > 0)
    BY <2>1
  <2> QED BY <2>1, <2>2 DEF AppInv, QueueInv
<1>3. /\ highest_committed <= Height(b_exec[self])
      /\ event.pc \in {"submit", "notify"} => highest_committed + 1 <= Height(b_exec[self])
    BY <1>1, <1>2 DEF Done
<1>4. \A h \in 0..Height(b_exec[self]) : \E d \in decided[self] : Height(d) = h
    BY <1>1 DEF AppInv, IInv, TreeInv, WellPlaced
<1>5. ASSUME NEW h \in 1..highest_committed, NEW d \in decided[self], Height(d) = h
      PROVE  Ran(h) = Value(d)
  <2>1. PICK c : c = CHOOSE b \in decided[self] : Height(b) = h
    OBVIOUS
  <2>2. c \in decided[self] /\ Height(c) = h
    BY <1>5, <2>1
  <2>3. c = d
    BY <1>5, <2>2, DecidedFacts
  <2>4. h <= highest_committed
    BY <1>1
  <2> QED BY <2>1, <2>3, <2>4, Zenon DEF Ran
<1> QED BY <1>1, <1>3, <1>4, <1>5

\* If the heights the bridge has been through are those of the blocks below t, the
\* VM blocks are the values below t, in order.
LEMMA RanInOrder ==
    ASSUME AppInv, BodyOrder, NEW t \in Blocks, Height(t) = highest_committed + Len(height_map),
           \A h \in 1..Height(t) : \A a \in Anc(t) : Height(a) = h => Ran(h) = Value(a)
    PROVE  /\ {Ran(h) : h \in RanHeights} = 1..(NextValue(t) - 1)
           /\ Cardinality({Ran(h) : h \in RanHeights}) = NextValue(t) - 1
           /\ \A g, h \in RanHeights : g < h => Ran(g) < Ran(h)
<1>1. TypeOK /\ TreeInv /\ Height(t) \in Nat /\ NextValue(t) \in Nat \ {0}
    BY TreeFacts, NextValueType DEF AppInv, IInv
<1>2. RanHeights = {h \in 1..Height(t) : Ran(h) # VM!NoBlock}
    BY DEF RanHeights, RanTop
<1>3. ASSUME NEW h \in RanHeights
      PROVE  \E a \in Anc(t) : /\ Height(a) = h /\ Value(a) = Ran(h) /\ a \in Blocks
                               /\ Value(a) # VM!NoBlock /\ a # Genesis
  <2>1. h \in 1..Height(t) /\ h \in 0..Height(t) /\ Ran(h) # VM!NoBlock
    BY <1>1, <1>2
  <2>2. PICK a \in Anc(t) : Height(a) = h
    BY <1>1, <2>1 DEF TreeInv, WellPlaced
  <2>3. Value(a) = Ran(h) /\ a \in Blocks
    BY <1>1, <2>1, <2>2, AncestorFacts
  <2> QED BY <2>1, <2>2, <2>3 DEF BodyOrder
<1>4. {Ran(h) : h \in RanHeights} \subseteq Below(t)
    BY <1>3 DEF Below
<1>5. ASSUME NEW v \in Below(t) PROVE v \in {Ran(h) : h \in RanHeights}
  <2>1. PICK a \in Anc(t) : v = Value(a) /\ v # VM!NoBlock
    BY <1>5 DEF Below
  <2>2. a \in Blocks /\ Height(a) \in Nat /\ Height(a) <= Height(t)
    BY <1>1, AncestorFacts
  <2>3. Height(a) # 0
    BY <1>1, <2>1, <2>2, TreeFacts DEF BodyOrder
  <2>4. Height(a) \in 1..Height(t)
    BY <1>1, <2>2, <2>3
  <2>5. Ran(Height(a)) = v
    BY <2>1, <2>4
  <2> QED BY <1>2, <2>1, <2>4, <2>5
<1>6. {Ran(h) : h \in RanHeights} = 1..(NextValue(t) - 1)
    BY <1>4, <1>5, Zenon DEF BodyOrder
<1>7. Cardinality({Ran(h) : h \in RanHeights}) = NextValue(t) - 1
  <2>1. NextValue(t) - 1 \in Nat
    BY <1>1
  <2> QED BY <1>6, <2>1, Counting, Zenon
<1>8. ASSUME NEW g \in RanHeights, NEW h \in RanHeights, g < h
      PROVE  Ran(g) < Ran(h)
  <2>1. PICK a \in Anc(t) : Height(a) = g /\ Value(a) = Ran(g) /\ a \in Blocks /\ Value(a) # VM!NoBlock
    BY <1>3
  <2>2. PICK c \in Anc(t) : /\ Height(c) = h /\ Value(c) = Ran(h) /\ c \in Blocks
                            /\ Value(c) # VM!NoBlock /\ c # Genesis
    BY <1>3
  <2>3. g \in Nat /\ h \in Nat
    BY <1>1, <1>2
  <2>4. a \in Anc(c)
    <3>1. Anc(c) = {d \in Anc(t) : Height(d) <= Height(c)}
        BY <1>1 DEF TreeInv, WellPlaced
    <3> QED BY <1>8, <2>1, <2>2, <2>3, <3>1
  <2>5. a # c
    BY <1>8, <2>1, <2>2, <2>3
  <2>6. a \in Anc(Parent(c))
    BY <1>1, <2>2, <2>4, <2>5 DEF TreeInv, WellPlaced
  <2>7. /\ Parent(c) \in Blocks /\ Value(c) = NextValue(Parent(c)) /\ NextValue(Parent(c)) \in Nat \ {0}
    BY <2>2, NextAfterParent
  <2>8. Value(a) \in 1..(NextValue(Parent(c)) - 1)
    <3>1. Value(a) \in Below(Parent(c))
        BY <2>1, <2>6 DEF Below
    <3> QED BY <2>7, <3>1 DEF BodyOrder
  <2> QED BY <2>1, <2>2, <2>7, <2>8
<1> QED BY <1>6, <1>7, <1>8

\* The invariant says that the VM of a leader that is alone is in sync.
LEMMA LeaderInSync ==
    ASSUME SyncInv, LeadsAlone
    PROVE  VMInSync
<1> DEFINE n == Cardinality({Ran(h) : h \in RanHeights})
<1>0. AppInv /\ BodyOrder
    BY DEF SyncInv
<1>1. LeadInv /\ AheadInv
    BY DEF SyncInv
<1>2. PICK t : t = b_leaf[self]
    OBVIOUS
<1>3. t \in Blocks /\ Height(t) = highest_committed + Len(height_map) /\ NextValue(t) \in Nat \ {0}
    BY <1>0, <1>1, <1>2, LeadChain, NextValueType DEF AheadInv
<1>4. ASSUME NEW h \in 1..Height(t), NEW a \in Anc(t), Height(a) = h
      PROVE  Ran(h) = Value(a)
  <2>1. /\ highest_committed \in Nat /\ Len(height_map) \in Nat /\ a \in Blocks
        /\ Height(b_exec[self]) \in Nat /\ highest_committed <= Height(b_exec[self])
    BY <1>0, <1>1, <1>2, GadgetFacts, CommittedDecided, DecidedFacts, TreeFacts, Zenon
       DEF LeadInv, AppInv, IInv
  <2>2. CASE h <= highest_committed
    <3>1. h \in 1..highest_committed /\ h \in 0..Height(b_exec[self])
        BY <1>3, <2>1, <2>2
    <3>2. PICK d \in decided[self] : Height(d) = h
        BY <1>0, <3>1, CommittedDecided, SMTT(20)
    <3>3. d = a
        BY <1>0, <1>1, <1>4, <2>1, <3>2, DecidedFacts, LeadChain
    <3> QED BY <1>0, <3>1, <3>2, <3>3, CommittedDecided, Zenon
  <2>3. CASE h > highest_committed
    <3>1. PICK i : i = h - highest_committed
        OBVIOUS
    <3>2. i \in 1..Len(height_map) /\ Height(a) = highest_committed + i /\ ~(h <= highest_committed)
        BY <1>3, <1>4, <2>1, <2>3, <3>1, SMTT(20)
    <3>3. height_map[i].id = Value(a)
        BY <1>1, <2>1, <3>2 DEF AheadInv
    <3> QED BY <3>1, <3>2, <3>3 DEF Ran
  <2> QED BY <1>3, <2>1, <2>2, <2>3, SMTT(20)
<1>5. /\ {Ran(h) : h \in RanHeights} = 1..n /\ n = NextValue(t) - 1
      /\ \A g, h \in RanHeights : g < h => Ran(g) < Ran(h)
    BY <1>0, <1>3, <1>4, RanInOrder, Zenon
<1>6. /\ state = n + Len(proposal_buffer)
      /\ \A i \in 1..Len(proposal_buffer) : proposal_buffer[i] = n + i
    BY <1>1, <1>2, <1>5, Zenon DEF AheadInv
<1> QED BY <1>5, <1>6, Zenon DEF VMInSync

\* The invariant says that a follower's VM is where the decided bodies lead.
LEMMA FollowerReplays ==
    ASSUME SyncInv, Follows
    PROVE  VMReplays
<1>0. AppInv
    BY DEF SyncInv
<1>1. FollowInv
    BY DEF SyncInv
<1>2. /\ highest_committed \in Nat /\ Len(height_map) \in {0, 1} /\ Height(b_exec[self]) \in Nat
      /\ highest_committed + Len(height_map) <= Height(b_exec[self])
  <2>1. /\ highest_committed \in Nat /\ highest_committed <= Height(b_exec[self])
        /\ event.pc \in {"submit", "notify"} => highest_committed + 1 <= Height(b_exec[self])
    BY <1>0, CommittedDecided
  <2>2. Height(b_exec[self]) \in Nat
    BY <1>0, DecidedFacts
  <2>3. Len(height_map) = IF event.pc \in {"submit", "notify"} THEN 1 ELSE 0
    BY <1>1 DEF FollowInv
  <2> QED BY <2>1, <2>2, <2>3
<1>3. PICK t \in decided[self] : Height(t) = highest_committed + Len(height_map)
  <2>1. highest_committed + Len(height_map) \in 0..Height(b_exec[self])
    BY <1>2
  <2> QED BY <1>0, <2>1, CommittedDecided
<1>4. InStep(t) /\ t \in Blocks /\ Anc(t) \subseteq decided[self] /\ t \in Anc(t)
  <2>1. t \in Blocks /\ t \in Anc(b_exec[self]) /\ b_exec[self] \in Blocks /\ TypeOK /\ TreeInv
    BY <1>0, <1>3, DecidedFacts DEF AppInv, IInv
  <2>2. Anc(t) \subseteq Anc(b_exec[self]) /\ t \in Anc(t)
    BY <2>1, AncestorFacts, TreeFacts
  <2> QED BY <1>0, <1>1, <1>3, <2>1, <2>2, DecidedFacts, SMTT(20) DEF FollowInv
<1>5. ASSUME NEW h \in 1..Height(t), NEW a \in Anc(t), Height(a) = h
      PROVE  Ran(h) = Value(a)
  <2>1. a \in decided[self]
    BY <1>4
  <2>2. CASE h <= highest_committed
    <3>1. h \in 1..highest_committed
        BY <1>2, <1>3, <2>2
    <3> QED BY <1>0, <1>5, <2>1, <3>1, CommittedDecided
  <2>3. CASE h > highest_committed
    <3>1. Len(height_map) = 1 /\ h = highest_committed + 1 /\ h - highest_committed = 1
          /\ ~(h <= highest_committed)
        <4>1. h \in Nat /\ h <= highest_committed + Len(height_map)
            BY <1>2, <1>3
        <4>2. PICK k \in Nat : k = highest_committed
            BY <1>2
        <4>3. CASE Len(height_map) = 0
            BY <2>3, <4>1, <4>2, <4>3
        <4>4. CASE Len(height_map) = 1
            <5>1. h \in Nat /\ h > k /\ h <= k + 1
                BY <2>3, <4>1, <4>2, <4>4
            <5> QED BY <4>2, <4>4, <5>1
        <4> QED BY <1>2, <4>3, <4>4
    <3>2. a = t
        BY <1>0, <1>3, <1>5, <2>1, <3>1, DecidedFacts
    <3>3. height_map # << >>
        <4>1. PICK S : height_map \in Seq(S)
            BY <1>0, GadgetFacts
        <4>2. Len(height_map) # 0
            BY <3>1
        <4> QED BY <4>1, <4>2, HeadFirst, SMTT(20)
    <3>4. height_map[1].id = Value(t)
        BY <1>4, <3>3 DEF InStep
    <3> QED BY <3>1, <3>2, <3>4 DEF Ran
  <2> QED BY <1>2, <1>3, <2>2, <2>3
<1>6. [h \in 1..RanTop |-> Ran(h)] = Path(t)
  <2>1. /\ Path(t) \in Seq(Nat) /\ Len(Path(t)) = Height(t) /\ Height(t) \in Nat
        /\ \A a \in Anc(t) : Height(a) # 0 => Path(t)[Height(a)] = Value(a)
        /\ \A h \in 1..Height(t) : \E a \in Anc(t) : Height(a) = h
    BY <1>0, <1>4, PathFacts DEF PathsLead, Leads
  <2>2. ASSUME NEW h \in 1..Height(t) PROVE Ran(h) = Path(t)[h]
    <3>1. PICK a \in Anc(t) : Height(a) = h /\ Height(a) # 0
        BY <2>1
    <3> QED BY <1>5, <2>1, <3>1
  <2>3. RanTop = Height(t)
    BY <1>3 DEF RanTop
  <2> QED BY <2>1, <2>2, <2>3
<1>7. NothingOwed => state = Counter(t)
    BY <1>4 DEF NothingOwed, InStep, Owed
<1> QED BY <1>6, <1>7, Zenon DEF VMReplays, Counter

=============================================================================
