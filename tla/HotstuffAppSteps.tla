-------------------------- MODULE HotstuffAppSteps --------------------------
(***************************************************************************)
(* More facts about HotstuffApp: every step keeps the store complete,      *)
(* every certificate a certificate of the core, and every value of the VM  *)
(* in its range; and the VM blocks along the chain come in order.          *)
(***************************************************************************)
EXTENDS HotstuffAppFacts

-----------------------------------------------------------------------------
(* The store and the certificates *)

\* What moves self's pointers: its own proposal, a proposal it handles, or a vote
\* that completes a certificate.
LEMMA SelfMoves ==
    ASSUME AppInv, FaultsTolerated, [AppNext]_all_vars
    PROVE  \/ \E x \in VM!VMBlockID : mint(x)
           \/ \E m \in proposals : handle_proposal(m)
           \/ \E b \in Blocks :
                 /\ on_receive_vote(self, b) /\ latest_new_qc' = {b}
                 /\ [block |-> b, proposer |-> self] \in proposals
           \/ /\ hqc'[self] = hqc[self] /\ b_leaf'[self] = b_leaf[self]
              /\ b_lock'[self] = b_lock[self] /\ b_exec'[self] = b_exec[self]
              /\ latest_new_qc' \subseteq latest_new_qc
<1>1. CASE do_propose_next \/ do_empty_propose \/ finish_propose
    BY <1>1, Proposes, Zenon DEF vars, app_vars
<1>2. ASSUME NEW b, NEW voter, handle_vote(b, voter),
             [voter |-> voter, block |-> b, to |-> self] \in votes
      PROVE  \/ b \in Blocks /\ on_receive_vote(self, b) /\ latest_new_qc' = {b}
                /\ [block |-> b, proposer |-> self] \in proposals
             \/ UNCHANGED vars /\ UNCHANGED latest_new_qc
  <2>1. PICK v \in votes : v = [voter |-> voter, block |-> b, to |-> self]
    BY <1>2
  <2>2. [block |-> b, proposer |-> self] \in proposals
    BY <2>1, SMTT(20) DEF AppInv, OwnInv
  <2> QED BY <1>2, <2>2, VoteCounted
<1>3. CASE own_event
  <2>1. CASE Head(events).op = "proposal"
    <3>1. PICK m : m = [block |-> Head(events).block, proposer |-> self]
        BY Zenon
    <3>2. m \in proposals
        BY <1>3, <2>1, <3>1, FirstEvent DEF own_event
    <3>3. handle_proposal(m)
        BY <1>3, <2>1, <3>1 DEF own_event
    <3> QED BY <3>2, <3>3, SMTT(20)
  <2>2. CASE Head(events).op = "vote"
    <3>1. /\ handle_vote(Head(events).block, self)
          /\ [voter |-> self, block |-> Head(events).block, to |-> self] \in votes
        BY <1>3, <2>2, FirstEvent DEF own_event
    <3> QED BY <1>2, <3>1, Zenon DEF vars
  <2> QED BY <1>3, <2>1, <2>2, Zenon DEF own_event
<1>4. CASE peer_event
  <2>1. ASSUME NEW v \in votes, v.to = self, handle_vote(v.block, v.voter)
        PROVE  \/ v.block \in Blocks /\ on_receive_vote(self, v.block) /\ latest_new_qc' = {v.block}
                  /\ [block |-> v.block, proposer |-> self] \in proposals
               \/ UNCHANGED vars /\ UNCHANGED latest_new_qc
    <3>1. v = [voter |-> v.voter, block |-> v.block, to |-> self]
        BY <2>1 DEF AppInv, IInv, TypeOK
    <3> QED BY <1>2, <2>1, <3>1
  <2> QED BY <1>4, <2>1, Zenon DEF peer_event, vars
<1>5. ASSUME NEW r \in Replica \ {self}, peer(r)
      PROVE  /\ hqc'[self] = hqc[self] /\ b_leaf'[self] = b_leaf[self]
             /\ b_lock'[self] = b_lock[self] /\ b_exec'[self] = b_exec[self]
             /\ latest_new_qc' \subseteq latest_new_qc
    BY <1>5, PeerKeepsSelf, Zenon DEF peer
<1>6. CASE \/ wait_for_qc \/ cancel_wait_for_new_qc \/ get_last_proposer \/ set_self_as_proposer
           \/ (\E m \in proposals : network_event(m)) \/ apply_next \/ pass_on \/ passed_on
           \/ vm_thread \/ vm_orders \/ UNCHANGED all_vars
    BY <1>6 DEF wait_for_qc, cancel_wait_for_new_qc, get_last_proposer, set_self_as_proposer,
                network_event, apply_next, pass_on, passed_on, vm_thread, vm_orders, vars,
                app_vars, all_vars
<1> QED BY <1>1, <1>3, <1>4, <1>5, <1>6, Zenon DEF AppNext

\* Where a handled proposal leaves the pointers (update).
LEMMA HandledPointers ==
    ASSUME TypeOK, TreeInv, NEW n \in Blocks, update(self, n)
    PROVE  /\ hqc'[self] \in {hqc[self], Justify(n)}
           /\ b_leaf'[self] \in {b_leaf[self], Justify(n)}
           /\ b_lock'[self] \in {b_lock[self], Justify(Justify(n))}
           /\ b_exec'[self] \in {b_exec[self], Justify(Justify(Justify(n)))}
           /\ Height(hqc[self]) <= Height(hqc'[self])
           /\ b_exec'[self] # b_exec[self] => Height(Justify(n)) <= Height(hqc'[self])
<1> DEFINE b2 == Justify(n)
           b1 == Justify(b2)
           b0 == Justify(b1)
<1>1. /\ self \in Replica /\ hqc[self] \in Blocks
      /\ hqc \in [Replica -> Blocks] /\ b_leaf \in [Replica -> Blocks]
      /\ b_lock \in [Replica -> Blocks] /\ b_exec \in [Replica -> Blocks]
    BY AppAssumption DEF TypeOK
<1>2. Height(hqc[self]) \in Nat /\ b2 \in Blocks /\ Height(b2) \in Nat
    BY <1>1, TreeFacts
<1>3. b_lock'[self] \in {b_lock[self], b1}
    BY <1>1 DEF update, lock
<1>4. /\ b_exec'[self] \in {b_exec[self], b0}
      /\ b_exec'[self] # b_exec[self] => Certifies(self, n)
    BY <1>1, SMTT(20) DEF update, commit, Commits, Locks
<1>5. /\ hqc'[self] \in {hqc[self], b2} /\ b_leaf'[self] \in {b_leaf[self], b2}
      /\ Height(hqc[self]) <= Height(hqc'[self])
      /\ Certifies(self, n) => Height(b2) <= Height(hqc'[self])
  <2>1. CASE Certifies(self, n)
    <3>1. CASE Height(b2) > Height(hqc[self])
        BY <1>1, <1>2, <2>1, <3>1 DEF update, update_hqc
    <3>2. CASE ~ (Height(b2) > Height(hqc[self]))
        BY <1>1, <1>2, <2>1, <3>2 DEF update, update_hqc
    <3> QED BY <3>1, <3>2
  <2>2. CASE ~ Certifies(self, n)
    BY <1>1, <1>2, <2>2 DEF update
  <2> QED BY <2>1, <2>2, SMTT(20)
<1> QED BY <1>3, <1>4, <1>5

\* The block a justification names is a predecessor (WellPlaced).
LEMMA JustifyBelow ==
    ASSUME TypeOK, TreeInv, NEW b \in Blocks
    PROVE  Justify(b) \in Anc(b)
<1>1. CASE b = Genesis
    BY <1>1, TreeFacts
<1>2. CASE b # Genesis
    BY <1>2 DEF TreeInv, WellPlaced
<1> QED BY <1>1, <1>2

\* The store stays closed under predecessors, and self's pointers stay in it.
LEMMA StoreStep ==
    ASSUME AppInv, FaultsTolerated, [AppNext]_all_vars
    PROVE  StoreComplete'
<1>1. /\ TypeOK /\ TreeInv /\ BodyType /\ OwnInv /\ StoreComplete /\ self \in Replica
    BY AppAssumption DEF AppInv, IInv
<1>2. [Next]_vars
    BY CoreStep
<1>3. DOMAIN store \subseteq DOMAIN store'
    BY OwnStep
<1>4. \A b \in Blocks : b \in Blocks' /\ Anc(b)' = Anc(b)
    BY <1>1, <1>2, StepStable DEF Anc
<1>5. \A b \in DOMAIN store : b \in Blocks /\ Anc(b) \subseteq DOMAIN store
    BY <1>1 DEF BodyType, StoreComplete
<1>6. {hqc[self], b_leaf[self], b_lock[self], b_exec[self]} \subseteq DOMAIN store
    BY <1>1 DEF StoreComplete
<1>7. ASSUME NEW x \in VM!VMBlockID, mint(x)
      PROVE  StoreComplete'
  <2>1. PICK b : b = Hash(b_leaf[self], hqc[self], x)
    BY Zenon
  <2>2. /\ do_propose(self, x) /\ insert_block(b, self)
    BY <1>7, <2>1, Zenon DEF mint
  <2>3. DOMAIN store' = DOMAIN store \cup {b}
    BY <1>1, <2>2, Inserted, SMTT(20)
  <2>4. Anc(b)' = Anc(b_leaf[self]) \cup {b}
    BY <2>1, <2>2, SMTT(20) DEF do_propose, mint_block, Anc, Blocks
  <2>5. b_leaf'[self] = b /\ UNCHANGED <<hqc, b_lock, b_exec>>
    BY <1>1, <2>1, <2>2, Zenon DEF do_propose, TypeOK
  <2>6. \A c \in DOMAIN store' : Anc(c)' \subseteq DOMAIN store'
    BY <1>4, <1>5, <1>6, <2>3, <2>4, Zenon
  <2> QED BY <1>6, <2>3, <2>5, <2>6 DEF StoreComplete
<1>8. ASSUME NEW m \in proposals, network_event(m)
      PROVE  StoreComplete'
  <2>1. /\ m.block \in Blocks /\ m.proposer \in Replica /\ insert_block(m.block, m.proposer)
        /\ m.block \notin DOMAIN store /\ Parent(m.block) \in DOMAIN store
        /\ UNCHANGED vars
    BY <1>1, <1>8 DEF network_event, TypeOK
  <2>2. DOMAIN store' = DOMAIN store \cup {m.block}
    BY <1>1, <2>1, Inserted, Zenon
  <2>3. m.block # Genesis
    BY <1>1, <1>5, <1>6, <2>1, TreeFacts, Zenon
  <2>4. Anc(m.block) = Anc(Parent(m.block)) \cup {m.block}
    BY <1>1, <2>1, <2>3, Zenon DEF TreeInv, WellPlaced
  <2>5. \A c \in DOMAIN store' : Anc(c)' \subseteq DOMAIN store'
    BY <1>4, <1>5, <2>1, <2>2, <2>4
  <2> QED BY <1>6, <2>1, <2>2, <2>5, SMTT(20) DEF StoreComplete, vars
<1>9. ASSUME UNCHANGED store,
             {hqc'[self], b_leaf'[self], b_lock'[self], b_exec'[self]} \subseteq DOMAIN store
      PROVE  StoreComplete'
    BY <1>4, <1>5, <1>9, SMTT(20) DEF StoreComplete
<1>10. ASSUME NEW m \in proposals, handle_proposal(m)
       PROVE  StoreComplete'
  <2>1. /\ m.block \in Blocks /\ m.block \in DOMAIN store /\ update(self, m.block)
        /\ UNCHANGED store
    BY <1>1, <1>10, Zenon DEF handle_proposal, on_receive_proposal, TypeOK
  <2>2. \A b \in DOMAIN store : Justify(b) \in DOMAIN store
    BY <1>1, <1>5, JustifyBelow, SMTT(20)
  <2>3. {hqc'[self], b_leaf'[self], b_lock'[self], b_exec'[self]} \subseteq DOMAIN store
    BY <1>1, <1>6, <2>1, <2>2, HandledPointers
  <2> QED BY <1>9, <2>1, <2>3, SMTT(20)
<1>11. \/ UNCHANGED store \/ (\E x \in VM!VMBlockID : mint(x))
       \/ (\E m \in proposals : network_event(m))
  <2>1. CASE do_propose_next \/ do_empty_propose \/ finish_propose
    BY <2>1, Proposes DEF app_vars
  <2>2. CASE \/ wait_for_qc \/ cancel_wait_for_new_qc \/ get_last_proposer \/ set_self_as_proposer
             \/ own_event \/ peer_event \/ apply_next \/ pass_on \/ passed_on \/ vm_thread
             \/ vm_orders \/ (\E r \in Replica : peer(r)) \/ UNCHANGED all_vars
    BY <2>2 DEF wait_for_qc, cancel_wait_for_new_qc, get_last_proposer, set_self_as_proposer,
                own_event, peer_event, handle_proposal, handle_vote, peer,
                apply_next, pass_on, passed_on, vm_thread, vm_orders, app_vars, all_vars
  <2> QED BY <2>1, <2>2 DEF AppNext
<1>12. ASSUME NEW b \in Blocks, on_receive_vote(self, b), UNCHANGED store,
              [block |-> b, proposer |-> self] \in proposals
       PROVE  StoreComplete'
  <2>1. PICK m \in proposals : m = [block |-> b, proposer |-> self]
    BY <1>12
  <2>2. b \in DOMAIN store
    BY <1>1, <2>1, SMTT(20) DEF OwnInv
  <2>3. /\ hqc'[self] \in {hqc[self], b} /\ b_leaf'[self] \in {b_leaf[self], b}
        /\ UNCHANGED <<b_lock, b_exec>>
    BY <1>1, <1>12, Zenon DEF on_receive_vote, update_hqc, TypeOK
  <2> QED BY <1>6, <1>9, <1>12, <2>2, <2>3
<1>13. CASE UNCHANGED store
    BY <1>6, <1>7, <1>9, <1>10, <1>12, <1>13, SelfMoves, Zenon
<1> QED BY <1>7, <1>8, <1>11, <1>13

\* Certificates only move up, with the decision and the pacemaker's announcement
\* below them.
LEMMA CertificateStep ==
    ASSUME AppInv, FaultsTolerated, [AppNext]_all_vars
    PROVE  CertificateInv'
<1>1. /\ TypeOK /\ TreeInv /\ CertificateInv /\ BodyType /\ StoreComplete /\ self \in Replica
      /\ hqc[self] \in Blocks /\ b_exec[self] \in Blocks
    BY AppAssumption DEF AppInv, IInv, TypeOK
<1>2. [Next]_vars
    BY CoreStep
<1>3. /\ \A b \in Blocks : b \in Blocks' /\ Height(b)' = Height(b) /\ Height(b) \in Nat
      /\ TypeOK'
    BY <1>1, <1>2, StepStable, TypeStep, TreeFacts DEF Height
<1>4. PICK h : h = hqc'[self]
    OBVIOUS
<1>5. PICK e : e = b_exec'[self]
    OBVIOUS
<1> DEFINE Certificates == /\ e \in Blocks /\ h \in Blocks
                           /\ Height(e) <= Height(h)
                           /\ \A b \in latest_new_qc' : b \in Blocks /\ Height(b) <= Height(h)
<1>6. Certificates
  <2>1. CASE \E x \in VM!VMBlockID : mint(x)
    BY <1>1, <1>4, <1>5, <2>1, Zenon DEF mint, do_propose, CertificateInv
  <2>2. ASSUME NEW m \in proposals, handle_proposal(m)
        PROVE  Certificates
    <3>1. m.block \in Blocks /\ update(self, m.block) /\ UNCHANGED latest_new_qc
        BY <1>1, <2>2, Zenon DEF handle_proposal, on_receive_proposal, TypeOK
    <3>2. PICK n : n = m.block
        BY Zenon
    <3>3. /\ Justify(n) \in Blocks /\ Justify(Justify(n)) \in Blocks
          /\ Justify(Justify(Justify(n))) \in Blocks
          /\ Height(Justify(Justify(Justify(n)))) <= Height(Justify(n))
        BY <1>1, <1>3, <3>1, <3>2, TreeFacts, SMTT(20)
    <3>4. /\ h \in {hqc[self], Justify(n)}
          /\ e \in {b_exec[self], Justify(Justify(Justify(n)))}
          /\ Height(hqc[self]) <= Height(h)
          /\ e # b_exec[self] => Height(Justify(n)) <= Height(h)
        BY <1>1, <1>4, <1>5, <3>1, <3>2, HandledPointers, Zenon
    <3>5. e \in Blocks /\ h \in Blocks /\ Height(e) <= Height(h)
        BY <1>1, <1>3, <3>3, <3>4 DEF CertificateInv
    <3> QED BY <1>1, <1>3, <3>1, <3>4, <3>5, SMTT(20) DEF CertificateInv
  <2>3. ASSUME NEW b \in Blocks, on_receive_vote(self, b), latest_new_qc' = {b}
        PROVE  Certificates
    <3>1. /\ h = (IF Height(b) > Height(hqc[self]) THEN b ELSE hqc[self])
          /\ e = b_exec[self]
        BY <1>1, <1>4, <1>5, <2>3 DEF on_receive_vote, update_hqc, TypeOK
    <3> QED BY <1>1, <1>3, <2>3, <3>1, SMTT(20) DEF CertificateInv
  <2>4. CASE /\ hqc'[self] = hqc[self] /\ b_exec'[self] = b_exec[self]
             /\ latest_new_qc' \subseteq latest_new_qc
    BY <1>1, <1>4, <1>5, <2>4, SMTT(20) DEF CertificateInv
  <2> QED BY <2>1, <2>2, <2>3, <2>4, SelfMoves, Zenon
<1>7. /\ (Height(b_exec[self]) <= Height(hqc[self]))'
      /\ (\A b \in latest_new_qc : b \in Blocks /\ Height(b) <= Height(hqc[self]))'
  <2>1. Height(e)' = Height(e) /\ Height(h)' = Height(h)
    BY <1>3, <1>6
  <2>2. Height(b_exec[self])' = Height(e)' /\ Height(hqc[self])' = Height(h)'
    BY <1>4, <1>5 DEF Height
  <2>3. ASSUME NEW b \in latest_new_qc'
        PROVE  b \in Blocks' /\ Height(b)' <= Height(hqc[self])'
    BY <1>3, <1>6, <2>1, <2>2, <2>3
  <2> QED BY <1>6, <2>1, <2>2, <2>3, Zenon
<1> DEFINE Proposer == Replica \cup {UNKNOWN_REPLICA}
<1>8. /\ (pacer \in [pc : {"propose", "wait", "defer"}, expected : Blocks, proposer : Proposer])'
      /\ (Pacing = "eager" => pacer.pc = "propose")'
  <2> DEFINE Pacer(B) == [pc : {"propose", "wait", "defer"}, expected : B, proposer : Proposer]
  <2>1. /\ pacer \in Pacer(Blocks) /\ Pacer(Blocks) \subseteq Pacer(Blocks')
        /\ Pacing = "eager" => pacer.pc = "propose"
    BY <1>1, <1>3 DEF CertificateInv
  <2>2. CASE UNCHANGED pacer
    BY <2>1, <2>2
  <2>3. CASE \E x \in VM!VMBlockID : mint(x)
    <3>1. PICK x \in VM!VMBlockID : mint(x)
        BY <2>3, SMTT(20)
    <3>2. PICK b : b = Hash(b_leaf[self], hqc[self], x)
        OBVIOUS
    <3>3. /\ b \in Blocks'
          /\ pacer' = [pc |-> IF Pacing = "eager" THEN "propose" ELSE "wait",
                       expected |-> b, proposer |-> self]
        BY <3>1, <3>2 DEF mint, do_propose, Blocks
    <3> QED BY <1>1, <3>3
  <2>4. CASE wait_for_qc
    <3>1. /\ pacer.pc = "wait"
          /\ pacer' = [pacer EXCEPT !.pc = "propose"] \/ pacer' = [pacer EXCEPT !.pc = "defer"]
        BY <2>4 DEF wait_for_qc
    <3> QED BY <2>1, <3>1
  <2>5. CASE get_last_proposer
    <3>1. store[hqc[self]] \in Proposer
        BY <1>1 DEF BodyType, StoreComplete
    <3>2. pacer' = [pacer EXCEPT !.pc = "propose", !.proposer = store[hqc[self]]]
        BY <2>5 DEF get_last_proposer
    <3> QED BY <2>1, <3>1, <3>2, Zenon
  <2>6. CASE set_self_as_proposer
    BY <1>1, <2>1, <2>6 DEF set_self_as_proposer
  <2>7. CASE do_propose_next \/ do_empty_propose \/ finish_propose
    BY <2>2, <2>3, <2>7, Proposes DEF app_vars
  <2>8. CASE \/ cancel_wait_for_new_qc \/ (\E m \in proposals : network_event(m))
             \/ own_event \/ peer_event \/ apply_next \/ pass_on \/ passed_on \/ vm_thread
             \/ vm_orders \/ (\E r \in Replica : peer(r)) \/ UNCHANGED all_vars
    <3>1. UNCHANGED pacer
        BY <2>8, Zenon DEF cancel_wait_for_new_qc, network_event,
                own_event, peer_event, handle_proposal, handle_vote, peer,
                apply_next, pass_on, passed_on, vm_thread, vm_orders, app_vars, all_vars
    <3> QED BY <2>2, <3>1, SMTT(20)
  <2> QED BY <2>4, <2>5, <2>6, <2>7, <2>8 DEF AppNext
<1> QED BY <1>7, <1>8 DEF CertificateInv

-----------------------------------------------------------------------------
(* The values of the VM *)

\* A step that leaves the VM's buffers and counters alone.
LEMMA ValueFrame ==
    ASSUME ValueInv, UNCHANGED <<state, blocks_to_validate, proposal_buffer, requests, user>>,
           event'.pc = "submit" => event'.id \in VM!VMBlockID
    PROVE  ValueInv'
BY DEF ValueInv, VM!VMBlockID

\* One round of VMControlInterface::run.
LEMMA ValueRun ==
    ASSUME AppInv, VM!run
    PROVE  ValueInv'
<1> DEFINE n == Len(blocks_to_validate)
           top == TopValue + BufferTarget
<1>1. /\ top \in Nat /\ VM!VMBlockID = 0..top /\ state \in Nat /\ requests \in Nat
      /\ blocks_to_validate \in Seq(Nat) /\ proposal_buffer \in Seq(Nat)
      /\ n \in {0, 1} /\ ValueInv /\ TopValue \in Nat
      /\ requests > 0 => is_proposer = TRUE
  <2>1. TopValue \in Nat /\ BufferTarget \in Nat /\ requests \in 0..BufferTarget
    BY ValueFacts
  <2>2. top \in Nat /\ requests \in Nat
    BY <2>1
  <2> QED BY <2>1, <2>2, ValueFacts, Zenon DEF AppInv
<1>2. PICK trace \in [0..n -> state..(state + n)] :
         VM!ExecTrace(trace) /\ VM!make_proposal(trace[n])
    BY Zenon DEF VM!run
<1>3. /\ blocks_to_validate' = << >> /\ UNCHANGED <<user, event>>
    BY Zenon DEF VM!run
<1>4. PICK t : t = trace[n]
    OBVIOUS
<1>5. t \in Nat /\ t <= state + n
    BY <1>1, <1>2, <1>4
<1>6. t \in 0..top
  <2>1. state \in 0..top
    BY <1>1 DEF ValueInv
  <2>2. CASE n = 0
    BY <1>1, <1>2, <1>4, <2>1, <2>2 DEF VM!ExecTrace
  <2>3. CASE n = 1
    <3>1. blocks_to_validate[1] \in 0..top
        BY <1>1, <2>3 DEF ValueInv
    <3>2. t = (IF blocks_to_validate[1] = VM!NoBlock THEN state
               ELSE VM!exec_block(state, blocks_to_validate[1]))
        BY <1>1, <1>2, <1>4, <2>3 DEF VM!ExecTrace
    <3> QED BY <2>1, <3>1, <3>2 DEF VM!exec_block
  <2> QED BY <1>1, <2>2, <2>3
<1>7. Len(blocks_to_validate') = 0
    BY <1>3
<1>8. CASE requests > 0
  <2>1. /\ state' = t + 1 /\ proposal_buffer' = Append(proposal_buffer, t + 1)
        /\ requests' = requests - 1
    BY <1>1, <1>2, <1>4, <1>8, Zenon DEF VM!make_proposal
  <2>2. state + n + requests <= top
    BY <1>1, <1>8 DEF ValueInv
  <2>3. t + 1 \in 0..top /\ state' + requests' <= top
    BY <1>1, <1>5, <1>8, <2>1, <2>2
  <2>4. /\ Len(proposal_buffer') = Len(proposal_buffer) + 1
        /\ \A i \in 1..Len(proposal_buffer) : proposal_buffer'[i] = proposal_buffer[i]
        /\ proposal_buffer'[Len(proposal_buffer) + 1] = t + 1
        /\ Len(proposal_buffer) \in Nat
    BY <1>1, <1>5, <2>1
  <2>5. \A i \in 1..Len(proposal_buffer') : proposal_buffer'[i] \in 0..top
    <3>1. \A i \in 1..Len(proposal_buffer) : proposal_buffer[i] \in 0..top
        BY <1>1 DEF ValueInv
    <3> HIDE DEF top
    <3> QED BY <2>3, <2>4, <3>1
  <2>6. user.pc = "waiting" => state' - Len(proposal_buffer') < TopValue
    BY <1>1, <1>5, <2>1, <2>4 DEF ValueInv
  <2>7. event.pc = "submit" => event.id \in 0..top
    BY <1>1 DEF ValueInv
  <2>8. state' \in 0..top /\ state' + 0 + requests' <= top
    BY <1>1, <1>5, <2>1, <2>3
  <2>9. user'.pc = "waiting" => state' + 0 - Len(proposal_buffer') < TopValue
    BY <1>1, <1>3, <1>5, <2>1, <2>4, <2>6
  <2> QED BY <1>1, <1>3, <1>7, <2>5, <2>7, <2>8, <2>9 DEF ValueInv, VM!VMBlockID
<1>9. CASE ~ (requests > 0)
  <2>1. state' = t /\ UNCHANGED <<proposal_buffer, requests>>
    BY <1>1, <1>2, <1>4, <1>9 DEF VM!make_proposal
  <2>2. user'.pc = "waiting" => state' + 0 - Len(proposal_buffer') < TopValue
    <3>1. user.pc = "waiting" => state + n - Len(proposal_buffer) < TopValue
        BY <1>1 DEF ValueInv
    <3>2. Len(proposal_buffer) \in Nat
        BY <1>1
    <3> QED BY <1>1, <1>3, <1>5, <2>1, <3>1, <3>2
  <2>3. \A i \in 1..Len(proposal_buffer) : proposal_buffer[i] \in 0..top
    BY <1>1 DEF ValueInv
  <2>4. event.pc = "submit" => event.id \in 0..top
    BY <1>1 DEF ValueInv
  <2> QED BY <1>1, <1>3, <1>6, <1>7, <1>9, <2>1, <2>2, <2>3, <2>4 DEF ValueInv, VM!VMBlockID
<1> QED BY <1>8, <1>9

\* A proposal taken from the buffer: the requests that refill it stay within bounds.
LEMMA ValueTake ==
    ASSUME AppInv, NEW h, VM!take_proposal(h), proposal_buffer # << >>, UNCHANGED <<state, event>>,
           user'.pc = "idle",
           state + Len(blocks_to_validate) - Len(proposal_buffer) < TopValue
    PROVE  ValueInv'
<1> DEFINE n == Len(blocks_to_validate)
           top == TopValue + BufferTarget
           rest == Tail(proposal_buffer)
<1>1. /\ TopValue \in Nat /\ BufferTarget \in Nat /\ VM!VMBlockID = 0..top /\ state \in Nat
      /\ requests \in 0..BufferTarget /\ target \in 0..BufferTarget
      /\ proposal_buffer \in Seq(Nat) /\ n \in Nat
    BY ValueFacts
<1>2. ValueInv
    BY DEF AppInv
<1>3. /\ Len(rest) = Len(proposal_buffer) - 1 /\ Len(rest) \in Nat
      /\ \A i \in 1..Len(rest) : i + 1 \in 1..Len(proposal_buffer) /\ rest[i] = proposal_buffer[i + 1]
    BY <1>1
<1>4. /\ proposal_buffer' = rest /\ requests' = VM!refill(rest)
      /\ UNCHANGED blocks_to_validate
    BY DEF VM!take_proposal
<1>5. requests' > 0 => state + n + requests' <= top
  <2>1. CASE ~Refill
    BY <1>2, <1>4, <2>1 DEF VM!refill, ValueInv
  <2>2. CASE Refill
    <3>1. requests' = (IF Len(rest) > target THEN 0 ELSE target - Len(rest))
        BY <1>4, <2>2 DEF VM!refill
    <3>2. CASE Len(rest) > target
        BY <3>1, <3>2
    <3>3. CASE ~ (Len(rest) > target)
        BY <1>1, <1>3, <3>1, <3>3
    <3> QED BY <3>2, <3>3
  <2> QED BY <2>1, <2>2
<1>6. \A i \in 1..Len(rest) : rest[i] \in 0..top
    BY <1>1, <1>2, <1>3 DEF ValueInv
<1>7. /\ state \in 0..top /\ n <= 1
      /\ event.pc = "submit" => event.id \in 0..top
      /\ \A i \in 1..n : blocks_to_validate[i] \in 0..top
    BY <1>1, <1>2 DEF ValueInv
<1> HIDE DEF top, rest
<1> QED BY <1>1, <1>4, <1>5, <1>6, <1>7 DEF ValueInv, VM!VMBlockID, top

\* The application thread asks for proposals and waits.
LEMMA ValueAwait ==
    ASSUME AppInv, NEW h, VM!await_proposal(h), proposal_buffer = << >>, UNCHANGED <<state, event>>,
           state + Len(blocks_to_validate) < TopValue
    PROVE  ValueInv'
<1> DEFINE n == Len(blocks_to_validate)
           top == TopValue + BufferTarget
<1>1. /\ TopValue \in Nat /\ BufferTarget \in Nat /\ VM!VMBlockID = 0..top /\ state \in Nat
      /\ requests \in 0..BufferTarget /\ target \in 0..BufferTarget /\ n \in Nat
    BY ValueFacts
<1>2. ValueInv
    BY DEF AppInv
<1>3. /\ requests' \in {requests, target} /\ UNCHANGED <<blocks_to_validate, proposal_buffer>>
    BY DEF VM!await_proposal
<1>4. state + n + requests' <= top
    BY <1>1, <1>3
<1>5. /\ state \in 0..top /\ n <= 1
      /\ event.pc = "submit" => event.id \in 0..top
      /\ \A i \in 1..n : blocks_to_validate[i] \in 0..top
    BY <1>1, <1>2 DEF ValueInv
<1>6. Len(proposal_buffer') = 0 /\ state + n - 0 < TopValue
    BY <1>1, <1>3
<1> QED BY <1>1, <1>3, <1>4, <1>5, <1>6 DEF ValueInv, VM!VMBlockID

\* A decided block is queued for a VM that has nothing else to do.
LEMMA ValueSubmit ==
    ASSUME AppInv, VM!submit_block_for_exec
    PROVE  ValueInv'
<1> DEFINE top == TopValue + BufferTarget
<1>1. /\ blocks_to_validate = << >> /\ event.pc = "submit" /\ proposal_buffer' = << >>
      /\ requests' = 0 /\ blocks_to_validate' = Append(blocks_to_validate, event.id)
      /\ UNCHANGED <<state, user>>
      /\ event' = [event EXCEPT !.pc = "notify"]
    BY DEF VM!submit_block_for_exec, VM!exists_work_to_do, VM!machine
<1>2. user.pc # "waiting"
    BY <1>1, ValueFacts
<1>3. /\ VM!VMBlockID = 0..top /\ event.id \in 0..top /\ state \in 0..top
    BY <1>1, ValueFacts, Zenon DEF AppInv, ValueInv
<1>4. Len(blocks_to_validate') = 1 /\ blocks_to_validate'[1] = event.id
    BY <1>1
<1>5. event'.pc = "notify"
    BY <1>1, Zenon DEF AppInv, VM!IInv, VM!TypeOK, VM!ThreadType
<1>6. Len(proposal_buffer') = 0
    BY <1>1
<1> QED BY <1>1, <1>2, <1>3, <1>4, <1>5, <1>6 DEF ValueInv, VM!VMBlockID

\* The VM's values stay within the bounds.
LEMMA ValueStep ==
    ASSUME AppInv, [AppNext]_all_vars
    PROVE  ValueInv'
<1>1. ValueInv /\ (event.pc = "submit" => event.id \in VM!VMBlockID)
    BY DEF AppInv, ValueInv
<1>2. ASSUME UNCHANGED <<state, blocks_to_validate, proposal_buffer, requests, user, event>>
      PROVE  ValueInv'
    BY <1>1, <1>2, ValueFrame
<1>3. ASSUME UNCHANGED <<state, blocks_to_validate, proposal_buffer, requests, user>>,
             event'.pc # "submit"
      PROVE  ValueInv'
    BY <1>1, <1>3, ValueFrame
<1>4. ASSUME NEW supported, propose(supported) PROVE ValueInv'
  <2> DEFINE h == Height(b_leaf[self]) + 1
  <2>1. CASE VM!make_empty_proposal(h)
    BY <1>2, <2>1 DEF VM!make_empty_proposal, VM!control, VM!machine, VM!threads
  <2>2. CASE state + Len(blocks_to_validate) < TopValue /\ VM!get_and_apply_next_proposal(h)
    <3>1. UNCHANGED <<state, event>> /\ user.pc = "idle"
        BY <2>2 DEF VM!get_and_apply_next_proposal, VM!machine
    <3>2. CASE VM!add_height_pair(h, VM!NoBlock) /\ UNCHANGED <<VM!control, user>>
        BY <1>2, <3>1, <3>2 DEF VM!control
    <3>3. CASE proposal_buffer # << >> /\ VM!take_proposal(h) /\ UNCHANGED user
      <4>1. state + Len(blocks_to_validate) - Len(proposal_buffer) < TopValue
        BY <2>2, ValueFacts
      <4> QED BY <3>1, <3>3, <4>1, ValueTake
    <3>4. CASE proposal_buffer = << >> /\ VM!await_proposal(h)
        BY <2>2, <3>1, <3>4, ValueAwait
    <3> QED BY <2>2, <3>2, <3>3, <3>4 DEF VM!get_and_apply_next_proposal
  <2> QED BY <1>4, <2>1, <2>2 DEF propose
<1>5. CASE VM!got_proposal
  <2>1. /\ user.pc = "waiting" /\ proposal_buffer # << >> /\ VM!take_proposal(user.height)
        /\ user'.pc = "idle" /\ UNCHANGED <<state, event>>
    BY <1>5 DEF VM!got_proposal, VM!machine
  <2>2. state + Len(blocks_to_validate) - Len(proposal_buffer) < TopValue
    BY <2>1 DEF AppInv, ValueInv
  <2> QED BY <2>1, <2>2, ValueTake
<1>6. CASE apply_next
  <2>1. VM!apply_block(Height(Head(commit_queue)), Value(Head(commit_queue)))
        /\ commit_queue # << >>
    BY <1>6 DEF apply_next
  <2>2. Value(Head(commit_queue)) \in VM!VMBlockID
    BY <2>1, NextDecided, SMTT(20) DEF VM!apply_block
  <2>3. /\ UNCHANGED <<state, blocks_to_validate, proposal_buffer, requests, user>>
        /\ event'.id = Value(Head(commit_queue))
    BY <2>1 DEF VM!apply_block, VM!control, VM!machine
  <2> QED BY <1>1, <2>2, <2>3, ValueFrame
<1>7. CASE VM!on_commit_hotstuff \/ VM!wait_for_async_task \/ VM!log_commitment
  <2>1. /\ UNCHANGED <<state, blocks_to_validate, proposal_buffer, requests, user>>
        /\ \/ event' = [event EXCEPT !.pc = "wait", !.id = Head(height_map).id]
           \/ event' = [event EXCEPT !.pc = "dead"]
           \/ event' = [event EXCEPT !.pc = "log"]
           \/ event' = [event EXCEPT !.pc = "idle"]
    BY <1>7, Zenon DEF VM!on_commit_hotstuff, VM!wait_for_async_task, VM!log_commitment, VM!control,
                VM!machine
  <2>2. event'.pc # "submit"
    BY <2>1, Zenon DEF AppInv, VM!IInv, VM!TypeOK, VM!ThreadType
  <2> QED BY <1>3, <2>1, <2>2
<1>8. CASE VM!put_vm_in_proposer_mode \/ VM!stop_proposals
    BY <1>2, <1>8 DEF VM!put_vm_in_proposer_mode, VM!stop_proposals, VM!machine, VM!threads
<1>9. CASE do_propose_next \/ do_empty_propose \/ finish_propose
    BY <1>4, <1>5, <1>9, Zenon DEF do_propose_next, do_empty_propose, finish_propose
<1>10. CASE pass_on \/ passed_on \/ vm_thread \/ vm_orders
    BY <1>7, <1>8, <1>10, ValueRun, ValueSubmit DEF pass_on, passed_on, vm_thread, vm_orders
<1>11. CASE \/ wait_for_qc \/ cancel_wait_for_new_qc \/ get_last_proposer \/ set_self_as_proposer
            \/ (\E m \in proposals : network_event(m)) \/ own_event \/ peer_event
            \/ (\E r \in Replica : peer(r)) \/ UNCHANGED all_vars
  <2>1. UNCHANGED vm_vars
    BY <1>11 DEF wait_for_qc, cancel_wait_for_new_qc, get_last_proposer, set_self_as_proposer,
                network_event, own_event, peer_event, handle_proposal, handle_vote, peer, all_vars
  <2> QED BY <1>2, <2>1 DEF vm_vars
<1> QED BY <1>6, <1>9, <1>10, <1>11 DEF AppNext

-----------------------------------------------------------------------------
(* VM blocks along the chain *)

\* There are k values from 1 to k.
LEMMA Counting ==
    ASSUME NEW k \in Nat
    PROVE  Cardinality(1..k) = k
<1>1. Cardinality(1..k) = IF 1 > k THEN 0 ELSE k - 1 + 1
    BY FS_Interval
<1> QED BY <1>1

\* NextValue of a block below which the values 1..k lie.
LEMMA NextValueIs ==
    ASSUME NEW b, NEW k \in Nat, Below(b) = 1..k
    PROVE  NextValue(b) = k + 1
BY Counting DEF NextValue

\* A block's VM block comes on top of those below its parent.
LEMMA BelowParent ==
    ASSUME TypeOK, TreeInv, NEW b \in Blocks, b # Genesis
    PROVE  Below(b) = Below(Parent(b)) \cup ({Value(b)} \ {VM!NoBlock})
<1>1. Anc(b) = Anc(Parent(b)) \cup {b}
    BY DEF TreeInv, WellPlaced
<1> QED BY <1>1 DEF Below

\* So a VM that has executed the blocks below the parent proposes, or executes, the
\* next value.
LEMMA NextAfterParent ==
    ASSUME AppInv, BodyOrder, NEW b \in Blocks, b # Genesis
    PROVE  /\ Parent(b) \in Blocks /\ NextValue(Parent(b)) \in Nat \ {0}
           /\ Value(b) = VM!NoBlock => NextValue(b) = NextValue(Parent(b))
           /\ Value(b) # VM!NoBlock => /\ Value(b) = NextValue(Parent(b))
                                       /\ NextValue(b) = NextValue(Parent(b)) + 1
<1>1. TypeOK /\ TreeInv
    BY DEF AppInv, IInv
<1>2. Parent(b) \in Blocks /\ NextValue(Parent(b)) \in Nat \ {0}
    BY <1>1, TreeFacts, NextValueType
<1>3. PICK k \in Nat : NextValue(Parent(b)) = k + 1
    BY <1>2
<1>4. Below(Parent(b)) = 1..k
    BY <1>2, <1>3 DEF BodyOrder
<1>5. Below(b) = 1..k \cup ({Value(b)} \ {VM!NoBlock})
    BY <1>1, <1>4, BelowParent
<1>6. CASE Value(b) = VM!NoBlock
  <2>1. Below(b) = 1..k
    BY <1>5, <1>6
  <2> QED BY <1>2, <1>3, <1>6, <2>1, NextValueIs
<1>7. CASE Value(b) # VM!NoBlock
  <2>1. Value(b) = k + 1
    BY <1>3, <1>7 DEF BodyOrder
  <2>2. Below(b) = 1..(k + 1)
    BY <1>5, <1>7, <2>1
  <2>3. NextValue(b) = (k + 1) + 1
    BY <2>2, NextValueIs
  <2> QED BY <1>2, <1>3, <1>7, <2>1, <2>3
<1> QED BY <1>6, <1>7

\* Nothing changes about a block that has been minted.
LEMMA ChainStable ==
    ASSUME AppInv, [AppNext]_all_vars, NEW b \in Blocks
    PROVE  /\ b \in Blocks' /\ Height(b)' = Height(b) /\ Anc(b)' = Anc(b)
           /\ Parent(b)' = Parent(b) /\ Justify(b)' = Justify(b)
           /\ Value(b)' = Value(b) /\ Below(b)' = Below(b) /\ NextValue(b)' = NextValue(b)
<1>1. TypeOK /\ Anc(b) \subseteq Blocks
    BY DEF AppInv, IInv, TypeOK, Anc
<1>2. [Next]_vars
    BY CoreStep
<1>3. b \in Blocks' /\ tree'[b] = tree[b]
    BY <1>1, <1>2, StepStable
<1>4. \A a \in Blocks : Value(a)' = Value(a)
    BY BodyStep DEF Value
<1>5. Anc(b)' = Anc(b)
    BY <1>3 DEF Anc
<1>6. Below(b)' = Below(b)
  <2>1. \A a \in Anc(b) : body'[a] = body[a]
    BY <1>1, BodyStep
  <2> QED BY <1>5, <2>1 DEF Below, Value
<1> QED BY <1>3, <1>4, <1>5, <1>6 DEF Height, Parent, Justify, NextValue

\* A new block with no VM block, or the next one, keeps the order.
LEMMA OrderGrows ==
    ASSUME AppInv, AppInv', BodyOrder, [AppNext]_all_vars,
           NEW p \in Blocks, NEW b, Blocks' = Blocks \cup {b},
           b \notin Blocks => /\ Parent(b)' = p /\ Value(b)' \in {VM!NoBlock, NextValue(p)}
    PROVE  /\ BodyOrder'
           /\ b \notin Blocks => NextValue(b)' = NextValue(p) + IF Value(b)' = VM!NoBlock THEN 0 ELSE 1
<1>1. /\ TypeOK' /\ TreeInv' /\ Genesis \in Blocks
    BY DEF AppInv, IInv, TypeOK
<1>2. \A c \in Blocks : /\ Below(c)' = Below(c) /\ NextValue(c)' = NextValue(c)
                        /\ Value(c)' = Value(c) /\ Parent(c)' = Parent(c)
                        /\ Parent(c) \in Blocks
  <2>1. \A c \in Blocks : Parent(c) \in Blocks
    BY DEF AppInv, IInv, TypeOK, Parent
  <2> QED BY <2>1, ChainStable
<1>3. Value(Genesis)' = VM!NoBlock
    BY <1>1, <1>2 DEF BodyOrder
<1>4. ASSUME NEW c \in Blocks
      PROVE  /\ Below(c)' = 1..(NextValue(c)' - 1)
             /\ c # Genesis => Value(c)' \in {VM!NoBlock, NextValue(Parent(c))'}
  <2>1. PICK q : q = Parent(c)
    OBVIOUS
  <2>2. NextValue(q)' = NextValue(q)
    BY <1>2, <2>1
  <2>3. NextValue(Parent(c))' = NextValue(q)'
    <3>1. Parent(c)' = q
        BY <1>2, <2>1
    <3> QED BY <3>1 DEF NextValue, Below
  <2>4. Below(c) = 1..(NextValue(c) - 1) /\ (c # Genesis => Value(c) \in {VM!NoBlock, NextValue(q)})
    BY <2>1 DEF BodyOrder
  <2> QED BY <1>2, <2>2, <2>3, <2>4
<1>5. ASSUME b \notin Blocks
      PROVE  /\ Below(b)' = 1..(NextValue(b)' - 1)
             /\ Value(b)' \in {VM!NoBlock, NextValue(Parent(b))'}
             /\ NextValue(b)' = NextValue(p) + IF Value(b)' = VM!NoBlock THEN 0 ELSE 1
  <2>1. b # Genesis /\ b \in Blocks' /\ Parent(b)' = p /\ Value(b)' \in {VM!NoBlock, NextValue(p)}
    BY <1>1, <1>5
  <2>2. NextValue(Parent(b))' = NextValue(p)
    <3>1. NextValue(p)' = NextValue(p)
        BY <1>2
    <3>2. NextValue(Parent(b))' = NextValue(p)'
        BY <2>1 DEF NextValue, Below
    <3> QED BY <3>1, <3>2
  <2>3. NextValue(p) \in Nat \ {0} /\ Below(p) = 1..(NextValue(p) - 1)
    BY NextValueType DEF BodyOrder
  <2>4. PICK k \in Nat : NextValue(p) = k + 1
    BY <2>3
  <2>5. Below(b)' = 1..k \cup ({Value(b)'} \ {VM!NoBlock})
    <3>1. (Anc(b) = Anc(Parent(b)) \cup {b})'
        BY <1>1, <2>1 DEF TreeInv, WellPlaced
    <3>2. Anc(b)' = Anc(p)' \cup {b}
        BY <2>1, <3>1 DEF Anc
    <3>3. Below(b)' = Below(p)' \cup ({Value(b)'} \ {VM!NoBlock})
        BY <3>2 DEF Below
    <3> QED BY <1>2, <2>3, <2>4, <3>3
  <2>6. CASE Value(b)' = VM!NoBlock
    <3>1. Below(b)' = 1..k
        BY <2>5, <2>6
    <3>2. NextValue(b)' = k + 1
        BY <3>1, Counting DEF NextValue
    <3> QED BY <2>1, <2>2, <2>4, <2>6, <3>1, <3>2
  <2>7. CASE Value(b)' # VM!NoBlock
    <3>1. Value(b)' = k + 1
        BY <2>1, <2>4, <2>7
    <3>2. Below(b)' = 1..(k + 1)
        BY <2>5, <2>7, <3>1
    <3>3. NextValue(b)' = (k + 1) + 1
        BY <3>2, Counting DEF NextValue
    <3> QED BY <2>1, <2>2, <2>4, <2>7, <3>2, <3>3
  <2> QED BY <2>6, <2>7
<1> QED BY <1>3, <1>4, <1>5, SMTT(20) DEF BodyOrder

\* No new block, no change.
LEMMA OrderKept ==
    ASSUME AppInv, AppInv', BodyOrder, [AppNext]_all_vars, UNCHANGED tree
    PROVE  BodyOrder'
<1>1. Genesis \in Blocks
    BY DEF AppInv, IInv, TypeOK
<1>2. Blocks' = Blocks
    BY DEF Blocks
<1> QED BY <1>1, <1>2, OrderGrows

\* do_propose with no VM block, or the next one.
LEMMA OrderMinted ==
    ASSUME AppInv, AppInv', BodyOrder, [AppNext]_all_vars, NEW r \in Replica,
           NEW x \in VM!VMBlockID, do_propose(r, x), record(Hash(b_leaf[r], hqc[r], x), x),
           x \in {VM!NoBlock, NextValue(b_leaf[r])}
    PROVE  /\ BodyOrder'
           /\ \A b : b \notin Blocks /\ b = Hash(b_leaf[r], hqc[r], x) =>
                 /\ Parent(b)' = b_leaf[r] /\ Justify(b)' = hqc[r] /\ Value(b)' = x
                 /\ Height(b)' = Height(b_leaf[r]) + 1 /\ Anc(b)' = Anc(b_leaf[r]) \cup {b}
                 /\ NextValue(b)' = NextValue(b_leaf[r]) + IF x = VM!NoBlock THEN 0 ELSE 1
<1>1. PICK b, p : b = Hash(b_leaf[r], hqc[r], x) /\ p = b_leaf[r]
    OBVIOUS
<1>2. p \in Blocks /\ DOMAIN body = Blocks
    BY <1>1, SMTT(20) DEF AppInv, IInv, TypeOK, BodyType
<1>3. Blocks' = Blocks \cup {b}
    BY <1>1, MintedBody, Zenon DEF AppInv
<1>4. ASSUME b \notin Blocks
      PROVE  /\ Parent(b)' = p /\ Justify(b)' = hqc[r] /\ Value(b)' = x
             /\ Height(b)' = Height(p) + 1 /\ Anc(b)' = Anc(p) \cup {b}
  <2>1. /\ Parent(b)' = p /\ Justify(b)' = hqc[r]
        /\ Height(b)' = Height(p) + 1 /\ Anc(b)' = Anc(p) \cup {b}
    BY <1>1, <1>4, MintedBlock, Zenon
  <2>2. Value(b)' = x
    BY <1>1, <1>4, MintedBody, Zenon DEF AppInv, Value
  <2> QED BY <2>1, <2>2, Zenon
<1>5. BodyOrder'
    BY <1>1, <1>2, <1>3, <1>4, OrderGrows, Zenon
<1>6. b \notin Blocks => NextValue(b)' = NextValue(p) + IF Value(b)' = VM!NoBlock THEN 0 ELSE 1
    BY <1>1, <1>2, <1>3, <1>4, OrderGrows, Zenon
<1> QED BY <1>1, <1>4, <1>5, <1>6, SMTT(20)

\* A handler leaves the tree alone.
LEMMA HandlerKeepsTree ==
    ASSUME own_event \/ peer_event
    PROVE  UNCHANGED <<tree, vm_vars>>
<1>1. ASSUME NEW m, handle_proposal(m) PROVE UNCHANGED <<tree, vm_vars>>
    BY <1>1, Zenon DEF handle_proposal, on_receive_proposal
<1>2. ASSUME NEW b, NEW voter, handle_vote(b, voter) PROVE UNCHANGED <<tree, vm_vars>>
    BY <1>2 DEF handle_vote, network
<1> QED BY <1>1, <1>2, Zenon DEF own_event, peer_event

\* The blocks below one block have different heights.
LEMMA OnePerHeight ==
    ASSUME TypeOK, TreeInv, NEW b \in Blocks, NEW a \in Anc(b), NEW c \in Anc(b),
           Height(a) = Height(c)
    PROVE  a = c
<1>1. a \in Blocks /\ c \in Blocks /\ Height(a) \in Nat
    BY AncestorFacts
<1>2. Anc(a) = {d \in Anc(b) : Height(d) <= Height(a)}
    BY DEF TreeInv, WellPlaced
<1>3. c \in Anc(a)
    BY <1>1, <1>2
<1>4. c # a => Height(c) < Height(a)
    BY <1>1, <1>3 DEF TreeInv, WellPlaced
<1> QED BY <1>1, <1>4

\* The decided blocks are those below b_exec, one per height, with their parents.
LEMMA DecidedFacts ==
    ASSUME AppInv
    PROVE  /\ decided[self] = Anc(b_exec[self]) /\ b_exec[self] \in decided[self]
           /\ b_exec[self] \in Blocks
           /\ \A a \in decided[self] : /\ a \in Blocks /\ Height(a) \in Nat
                                       /\ Height(a) <= Height(b_exec[self])
                                       /\ a # Genesis => /\ Parent(a) \in decided[self]
                                                         /\ Height(a) = Height(Parent(a)) + 1
           /\ \A a, c \in decided[self] : Height(a) = Height(c) => a = c
           /\ Height(Genesis) = 0
<1>1. /\ TypeOK /\ TreeInv /\ decided[self] = Anc(b_exec[self]) /\ b_exec[self] \in Blocks
    BY AppAssumption DEF AppInv, IInv, ReplicaInv, TypeOK
<1>2. b_exec[self] \in Anc(b_exec[self]) /\ Height(Genesis) = 0
    BY <1>1, TreeFacts
<1>3. ASSUME NEW a \in Anc(b_exec[self])
      PROVE  /\ a \in Blocks /\ Height(a) \in Nat /\ Height(a) <= Height(b_exec[self])
             /\ a # Genesis => Parent(a) \in Anc(b_exec[self]) /\ Height(a) = Height(Parent(a)) + 1
  <2>1. a \in Blocks /\ Height(a) \in Nat /\ Height(a) <= Height(b_exec[self])
        /\ Anc(a) \subseteq Anc(b_exec[self])
    BY <1>1, AncestorFacts
  <2>2. a # Genesis => Height(a) = Height(Parent(a)) + 1 /\ Anc(a) = Anc(Parent(a)) \cup {a}
    BY <1>1, <2>1 DEF TreeInv, WellPlaced
  <2>3. Parent(a) \in Anc(Parent(a))
    BY <1>1, <2>1, TreeFacts
  <2> QED BY <2>1, <2>2, <2>3
<1>4. \A a, c \in Anc(b_exec[self]) : Height(a) = Height(c) => a = c
    BY <1>1, OnePerHeight
<1> QED BY <1>1, <1>2, <1>3, <1>4, SMTT(20)

\* What a round of the VM thread leaves, when at most one block was queued for it.
LEMMA RunFacts ==
    ASSUME AppInv, VM!run
    PROVE  /\ blocks_to_validate' = << >>
           /\ UNCHANGED <<height_map, speculation_head, highest_committed, user, event>>
           /\ \E t \in Nat :
                 /\ blocks_to_validate = << >> => t = state
                 /\ blocks_to_validate # << >> =>
                       t = IF blocks_to_validate[1] = VM!NoBlock THEN state
                           ELSE VM!exec_block(state, blocks_to_validate[1])
                 /\ requests > 0 => /\ state' = t + 1
                                    /\ proposal_buffer' = Append(proposal_buffer, t + 1)
                 /\ requests = 0 => /\ state' = t
                                    /\ UNCHANGED <<proposal_buffer, requests>>
<1> DEFINE n == Len(blocks_to_validate)
<1>1. /\ blocks_to_validate \in Seq(Nat) /\ n \in {0, 1} /\ state \in Nat /\ requests \in Nat
      /\ requests > 0 => is_proposer = TRUE
  <2>1. TopValue \in Nat /\ BufferTarget \in Nat /\ requests \in 0..BufferTarget
    BY ValueFacts
  <2>2. requests \in Nat
    BY <2>1
  <2> QED BY <2>2, ValueFacts, Zenon
<1>2. PICK trace \in [0..n -> state..(state + n)] :
         VM!ExecTrace(trace) /\ VM!make_proposal(trace[n])
    BY Zenon DEF VM!run
<1>3. PICK t : t = trace[n]
    OBVIOUS
<1>4. t \in Nat
    BY <1>1, <1>2, <1>3
<1>5. blocks_to_validate = << >> => t = state
    BY <1>1, <1>2, <1>3 DEF VM!ExecTrace
<1>6. blocks_to_validate # << >> =>
         t = IF blocks_to_validate[1] = VM!NoBlock THEN state
             ELSE VM!exec_block(state, blocks_to_validate[1])
  <2>1. blocks_to_validate # << >> => n = 1
    BY <1>1
  <2>2. ASSUME n = 1
        PROVE  t = IF blocks_to_validate[1] = VM!NoBlock THEN state
                   ELSE VM!exec_block(state, blocks_to_validate[1])
    <3>1. trace[0] = state /\ t = trace[1]
        BY <1>2, <1>3, <2>2 DEF VM!ExecTrace
    <3>2. trace[1] = IF blocks_to_validate[1] = VM!NoBlock THEN trace[1 - 1]
                     ELSE VM!exec_block(trace[1 - 1], blocks_to_validate[1])
        BY <1>2, <2>2 DEF VM!ExecTrace
    <3> QED BY <3>1, <3>2
  <2> QED BY <2>1, <2>2
<1>7. /\ requests > 0 => state' = t + 1 /\ proposal_buffer' = Append(proposal_buffer, t + 1)
      /\ requests = 0 => state' = t /\ UNCHANGED <<proposal_buffer, requests>>
  <2>1. CASE requests > 0
    <3>1. requests # 0 /\ is_proposer
        BY <1>1, <2>1
    <3>2. state' = t + 1 /\ proposal_buffer' = Append(proposal_buffer, t + 1)
        BY <1>2, <1>3, <2>1, <3>1, Zenon DEF VM!make_proposal
    <3> QED BY <3>1, <3>2
  <2>2. CASE requests = 0
    <3>1. ~(requests > 0)
        BY <1>1, <2>2
    <3> QED BY <1>2, <1>3, <2>2, <3>1 DEF VM!make_proposal
  <2> QED BY <2>1, <2>2
<1>8. /\ blocks_to_validate' = << >>
      /\ UNCHANGED <<height_map, speculation_head, highest_committed, user, event>>
    BY Zenon DEF VM!run, VM!gadget
<1> QED BY <1>4, <1>5, <1>6, <1>7, <1>8

-----------------------------------------------------------------------------
(* Where a VM gets over a chain *)

\* What it is for a function to be the counters of a run over the blocks of ids.
Counts(ids, n, g) ==
    /\ g[0] = 0
    /\ \A i \in 1..n : g[i] = VM!exec_block(g[i - 1], ids[i])

\* Every sequence of VM blocks has such a run ...
LEMMA CountsExist ==
    ASSUME NEW ids \in Seq(Nat), NEW n \in 0..Len(ids)
    PROVE  \E g \in [0..n -> Nat] : Counts(ids, n, g)
<1> DEFINE T == {m \in 0..Len(ids) : ~ \E g \in [0..m -> Nat] : Counts(ids, m, g)}
<1> SUFFICES ASSUME T # {} PROVE FALSE
    BY Zenon
<1>1. PICK m \in T : \A y \in T : m <= y
  <2>1. T \in SUBSET Nat
    OBVIOUS
  <2> HIDE DEF T
  <2> QED BY <2>1, LeastElement
<1>2. CASE m = 0
  <2>1. [i \in 0..0 |-> 0] \in [0..0 -> Nat] /\ Counts(ids, 0, [i \in 0..0 |-> 0])
    BY DEF Counts
  <2> QED BY <1>2, <2>1
<1>3. CASE m # 0
  <2>1. m \in 1..Len(ids) /\ m - 1 \in 0..Len(ids) /\ m - 1 \notin T
    <3>1. m \in 1..Len(ids) /\ m - 1 \in 0..Len(ids) /\ ~(m <= m - 1)
        BY <1>3
    <3> HIDE DEF T
    <3> QED BY <1>1, <3>1
  <2>2. PICK g \in [0..(m - 1) -> Nat] : Counts(ids, m - 1, g)
    BY <2>1
  <2>3. PICK f : f = [i \in 0..m |-> IF i = m THEN VM!exec_block(g[m - 1], ids[m]) ELSE g[i]]
    BY Zenon
  <2>4. ids[m] \in Nat /\ g[m - 1] \in Nat
    BY <2>1, <2>2
  <2>5. f \in [0..m -> Nat]
    BY <2>1, <2>3, <2>4 DEF VM!exec_block
  <2>6. Counts(ids, m, f)
    <3>1. f[0] = 0
        BY <2>1, <2>2, <2>3 DEF Counts
    <3>2. ASSUME NEW i \in 1..m PROVE f[i] = VM!exec_block(f[i - 1], ids[i])
        <4>1. CASE i = m
            BY <2>1, <2>3, <4>1
        <4>2. CASE i # m
            <5>1. i \in 1..(m - 1) /\ i - 1 \in 0..m /\ i - 1 # m /\ i \in 0..m
                BY <2>1, <4>2
            <5>2. f[i] = g[i] /\ f[i - 1] = g[i - 1]
                BY <2>3, <4>2, <5>1
            <5> QED BY <2>2, <5>1, <5>2 DEF Counts
        <4> QED BY <4>1, <4>2
    <3> QED BY <3>1, <3>2 DEF Counts
  <2> QED BY <1>1, <2>5, <2>6, Zenon
<1> QED BY <1>2, <1>3

\* ... which ends in one way ...
LEMMA CountsUnique ==
    ASSUME NEW ids \in Seq(Nat), NEW n \in 0..Len(ids), NEW f, NEW g,
           Counts(ids, n, f), Counts(ids, n, g)
    PROVE  f[n] = g[n]
<1> DEFINE T == {m \in 0..n : f[m] # g[m]}
<1> SUFFICES ASSUME T # {} PROVE FALSE
    OBVIOUS
<1>1. PICK m \in T : \A y \in T : m <= y
  <2>1. T \in SUBSET Nat
    OBVIOUS
  <2> HIDE DEF T
  <2> QED BY <2>1, LeastElement
<1>2. m # 0
    BY DEF Counts
<1>3. m \in 1..n /\ m - 1 \in 0..n /\ f[m - 1] = g[m - 1]
    BY <1>1, <1>2
<1> QED BY <1>1, <1>3 DEF Counts

\* ... and is the one Replay computes.
LEMMA ReplayIs ==
    ASSUME NEW ids \in Seq(Nat), NEW g, Counts(ids, Len(ids), g)
    PROVE  Replay(ids) = g[Len(ids)]
<1> DEFINE c == CHOOSE f : f = [i \in 0..Len(ids) |-> IF i = 0 THEN 0 ELSE VM!exec_block(f[i - 1], ids[i])]
<1>1. PICK h \in [0..Len(ids) -> Nat] : Counts(ids, Len(ids), h)
    BY CountsExist
<1>2. h = [i \in 0..Len(ids) |-> IF i = 0 THEN 0 ELSE VM!exec_block(h[i - 1], ids[i])]
    BY <1>1 DEF Counts
<1>3. c = [i \in 0..Len(ids) |-> IF i = 0 THEN 0 ELSE VM!exec_block(c[i - 1], ids[i])]
  BY <1>2, Zenon
<1>4. Counts(ids, Len(ids), c)
  <2> HIDE DEF c
  <2>1. Len(ids) \in Nat
    OBVIOUS
  <2> QED BY <1>3, <2>1 DEF Counts, VM!exec_block
<1>5. Replay(ids) = c[Len(ids)]
  BY Zenon DEF Replay
<1> HIDE DEF c
<1> QED BY <1>4, <1>5, CountsUnique

\* Executing one more block is a step of the VM from where the others led.
LEMMA ReplayStep ==
    ASSUME NEW ids \in Seq(Nat)
    PROVE  /\ Replay(ids) \in Nat
           /\ ids = << >> => Replay(ids) = 0
           /\ \A x \in Nat : Replay(Append(ids, x)) = VM!exec_block(Replay(ids), x)
<1>1. PICK g \in [0..Len(ids) -> Nat] : Counts(ids, Len(ids), g)
    BY CountsExist
<1>2. Replay(ids) = g[Len(ids)] /\ g[0] = 0
    BY <1>1, ReplayIs DEF Counts
<1>3. ASSUME NEW x \in Nat PROVE Replay(Append(ids, x)) = VM!exec_block(Replay(ids), x)
  <2>1. PICK more : more = Append(ids, x)
    OBVIOUS
  <2>2. /\ more \in Seq(Nat) /\ Len(more) = Len(ids) + 1 /\ more[Len(more)] = x
        /\ \A i \in 1..Len(ids) : more[i] = ids[i]
    BY <2>1
  <2>3. PICK f \in [0..Len(more) -> Nat] : Counts(more, Len(more), f)
    <3>1. Len(more) \in 0..Len(more)
        BY <2>2
    <3> QED BY <2>2, <3>1, CountsExist, Zenon
  <2>4. Counts(ids, Len(ids), f)
    BY <2>2, <2>3 DEF Counts, VM!exec_block
  <2>5. Replay(more) = f[Len(more)] /\ Replay(ids) = f[Len(ids)]
    BY <2>2, <2>3, <2>4, ReplayIs
  <2>6. f[Len(more)] = VM!exec_block(f[Len(more) - 1], more[Len(more)]) /\ Len(more) - 1 = Len(ids)
    BY <2>2, <2>3, SMTT(20) DEF Counts
  <2> QED BY <2>1, <2>2, <2>5, <2>6
<1> QED BY <1>1, <1>2, <1>3

\* The bodies on the way to a block are those of its ancestors, one per height.
Leads(b) ==
    /\ Path(b) \in Seq(Nat) /\ Len(Path(b)) = Height(b) /\ Height(b) \in Nat
    /\ \A a \in Anc(b) : Height(a) # 0 => /\ Height(a) \in 1..Height(b)
                                        /\ Path(b)[Height(a)] = Value(a)
    /\ \A h \in 1..Height(b) : \E a \in Anc(b) : Height(a) = h
PathsLead == \A b \in Blocks : Leads(b)

LEMMA PathFacts == AppInv => PathsLead
<1> SUFFICES ASSUME AppInv, NEW b \in Blocks PROVE Leads(b)
    BY DEF PathsLead
<1> DEFINE At(h) == CHOOSE a \in Anc(b) : Height(a) = h
<1>1. TypeOK /\ TreeInv /\ Height(b) \in Nat /\ Anc(b) \subseteq Blocks
    BY TreeFacts DEF AppInv, IInv
<1>2. \A h \in 1..Height(b) : \E a \in Anc(b) : Height(a) = h
  <2>1. \A h \in 0..Height(b) : \E a \in Anc(b) : Height(a) = h
    BY <1>1 DEF TreeInv, WellPlaced
  <2> QED BY <1>1, <2>1
<1>3. \A h \in 1..Height(b) : At(h) \in Anc(b) /\ Height(At(h)) = h
    BY <1>2
<1>4. \A a \in Blocks : Value(a) \in Nat
    BY AppAssumption DEF AppInv, BodyType, Value, VM!VMBlockID
<1>5. \A h \in 1..Height(b) : Value(At(h)) \in Nat
    BY <1>1, <1>3, <1>4
<1>6. Path(b) = [h \in 1..Height(b) |-> Value(At(h))]
    BY DEF Path
<1> HIDE DEF At
<1>7. Path(b) \in Seq(Nat) /\ Len(Path(b)) = Height(b)
    BY <1>1, <1>5, <1>6
<1>8. ASSUME NEW a \in Anc(b), Height(a) # 0
      PROVE  Height(a) \in 1..Height(b) /\ Path(b)[Height(a)] = Value(a)
  <2>1. Height(a) \in 1..Height(b)
    BY <1>1, <1>8, AncestorFacts
  <2>2. At(Height(a)) = a
    BY <1>1, <1>3, <2>1, OnePerHeight
  <2> QED BY <1>6, <2>1, <2>2
<1> QED BY <1>1, <1>2, <1>7, <1>8 DEF Leads

\* A VM that gets to the parent's counter gets to the block's by executing its body.
LEMMA CounterStep ==
    ASSUME AppInv, NEW b \in Blocks
    PROVE  /\ Counter(b) \in Nat
           /\ b = Genesis => Counter(b) = 0
           /\ b # Genesis => /\ Parent(b) \in Blocks /\ Counter(Parent(b)) \in Nat
                             /\ Counter(b) = VM!exec_block(Counter(Parent(b)), Value(b))
<1>1. TypeOK /\ TreeInv
    BY DEF AppInv, IInv
<1>2. \A c \in Blocks : Counter(c) \in Nat
    BY PathFacts, ReplayStep DEF Counter, PathsLead, Leads
<1>3. b = Genesis => Counter(b) = 0
  <2>1. b = Genesis => Path(b) \in Seq(Nat) /\ Len(Path(b)) = 0
    BY <1>1, PathFacts, TreeFacts DEF PathsLead, Leads
  <2>2. b = Genesis => Path(b) = << >>
    BY <2>1
  <2> QED BY <2>1, <2>2, ReplayStep, Zenon DEF Counter
<1>4. ASSUME b # Genesis
      PROVE  Parent(b) \in Blocks /\ Counter(b) = VM!exec_block(Counter(Parent(b)), Value(b))
  <2>1. PICK p : p = Parent(b)
    OBVIOUS
  <2>2. /\ p \in Blocks /\ Height(b) = Height(p) + 1 /\ Anc(b) = Anc(p) \cup {b}
        /\ Height(p) \in Nat
    BY <1>1, <1>4, <2>1, TreeFacts, Zenon DEF TreeInv, WellPlaced
  <2>3. Value(b) \in Nat
    BY AppAssumption DEF AppInv, BodyType, Value, VM!VMBlockID
  <2>4. /\ Path(b) \in Seq(Nat) /\ Len(Path(b)) = Height(p) + 1
        /\ Path(p) \in Seq(Nat) /\ Len(Path(p)) = Height(p)
        /\ Path(b)[Height(p) + 1] = Value(b)
    <3>1. b \in Anc(b) /\ Height(b) # 0
        BY <2>2
    <3> QED BY <2>2, <3>1, PathFacts DEF PathsLead, Leads
  <2>5. ASSUME NEW h \in 1..Height(p) PROVE Path(b)[h] = Path(p)[h]
    <3>1. PICK a \in Anc(p) : Height(a) = h
        BY <2>2, PathFacts DEF PathsLead, Leads
    <3>2. a \in Anc(b) /\ Height(a) # 0
        BY <2>2, <3>1
    <3> QED BY <2>2, <3>1, <3>2, PathFacts DEF PathsLead, Leads
  <2>6. Path(b) = Append(Path(p), Value(b))
    BY <2>2, <2>3, <2>4, <2>5
  <2> QED BY <2>1, <2>2, <2>3, <2>4, <2>6, ReplayStep DEF Counter
<1> QED BY <1>2, <1>3, <1>4

\* Nothing changes about the way to a block that has been minted.
LEMMA CounterStable ==
    ASSUME AppInv, AppInv', [AppNext]_all_vars, NEW b \in Blocks
    PROVE  Counter(b)' = Counter(b)
<1>1. /\ b \in Blocks' /\ Height(b)' = Height(b) /\ Anc(b)' = Anc(b) /\ Anc(b) \subseteq Blocks
      /\ \A a \in Anc(b) : Height(a)' = Height(a) /\ Value(a)' = Value(a)
  <2>1. Anc(b) \subseteq Blocks
    BY DEF AppInv, IInv, TypeOK, Anc
  <2> QED BY <2>1, ChainStable
<1>2. /\ Path(b) \in Seq(Nat) /\ Len(Path(b)) = Height(b) /\ Height(b) \in Nat
      /\ \A a \in Anc(b) : Height(a) # 0 => Path(b)[Height(a)] = Value(a)
      /\ \A h \in 1..Height(b) : \E a \in Anc(b) : Height(a) = h
    BY PathFacts DEF PathsLead, Leads
<1>3. /\ Path(b)' \in Seq(Nat) /\ Len(Path(b)') = Height(b)'
      /\ \A a \in Anc(b)' : Height(a)' # 0 => Path(b)'[Height(a)'] = Value(a)'
  <2>1. PathsLead'
    BY PathFacts, PTL
  <2>2. Leads(b)'
    BY <1>1, <2>1 DEF PathsLead
  <2> QED BY <2>2 DEF Leads
<1>4. ASSUME NEW h \in 1..Height(b) PROVE Path(b)'[h] = Path(b)[h]
  <2>1. PICK a \in Anc(b) : Height(a) = h /\ Height(a) # 0
    BY <1>2
  <2> QED BY <1>1, <1>2, <1>3, <2>1
<1>5. Path(b)' = Path(b)
    BY <1>1, <1>2, <1>3, <1>4
<1> QED BY <1>5 DEF Counter

\* The VM of a fresh replica is in step with the genesis block.
LEMMA FreshVM ==
    ASSUME AppInit, AppInv
    PROVE  BodyOrder /\ LeadInv /\ AheadInv /\ FollowInv
<1>1. /\ Blocks = {Genesis} /\ tree[Genesis] = genesis_block /\ self \in Replica
      /\ body[Genesis] = VM!NoBlock /\ decided[self] = {Genesis} /\ hqc[self] = Genesis
      /\ b_leaf[self] = Genesis /\ votes = {}
    BY AppAssumption, SMTT(20) DEF AppInit, Init, Blocks
<1>2. /\ Height(Genesis) = 0 /\ Anc(Genesis) = {Genesis} /\ Value(Genesis) = VM!NoBlock
    BY <1>1 DEF Height, Anc, Value, genesis_block
<1>3. Below(Genesis) = 1..0
    BY <1>2 DEF Below
<1>4. NextValue(Genesis) = 1
  <2>1. NextValue(Genesis) = 0 + 1
    BY <1>3, NextValueIs, Zenon
  <2> QED BY <2>1
<1>5. BodyOrder
    BY <1>1, <1>2, <1>3, <1>4 DEF BodyOrder
<1>6. /\ height_map = << >> /\ highest_committed = 0 /\ blocks_to_validate = << >>
      /\ proposal_buffer = << >> /\ requests = 0 /\ state = 0
      /\ user.pc = "idle" /\ event.pc = "idle"
  <2>1. /\ height_map = << >> /\ highest_committed = 0 /\ blocks_to_validate = << >>
        /\ proposal_buffer = << >> /\ requests = 0 /\ state = 0
        /\ user = [pc |-> "idle", height |-> 0]
        /\ event = [pc |-> "idle", height |-> 0, id |-> VM!NoBlock]
    BY Zenon DEF AppInit, VM!InitAt
  <2> QED BY <2>1
<1>7. /\ pacer.pc = "propose" /\ latest_new_qc = {} /\ ~cancel_wait
  <2>1. /\ pacer = [pc |-> "propose", expected |-> Genesis, proposer |-> self]
        /\ latest_new_qc = {} /\ cancel_wait = FALSE
    BY Zenon DEF AppInit
  <2> QED BY <2>1
<1>8. LeadInv
    BY <1>1, <1>2, <1>6, <1>7, SMTT(20) DEF LeadInv
<1>9. AheadInv
    BY <1>1, <1>2, <1>4, <1>6, SMTT(20) DEF AheadInv
<1>10. FollowInv
  <2>1. ~Owed
    BY <1>6 DEF Owed
  <2>2. Counter(Genesis) = 0
    BY <1>1, CounterStep
  <2>3. InStep(Genesis)
    BY <1>2, <1>6, <2>1, <2>2 DEF InStep
  <2> QED BY <1>1, <1>6, <2>3 DEF FollowInv
<1> QED BY <1>5, <1>8, <1>9, <1>10

=============================================================================
