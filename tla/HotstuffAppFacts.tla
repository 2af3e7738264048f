-------------------------- MODULE HotstuffAppFacts --------------------------
(***************************************************************************)
(* Facts about HotstuffApp, for any number of replicas and proposers:      *)
(* every step of the whole replica is a step of the core or changes        *)
(* nothing of it, uses the bridge as the bridge expects, and keeps the     *)
(* queue of commits and the messages of the replica.                       *)
(***************************************************************************)
EXTENDS HotstuffApp, HotstuffCoreProofs

-----------------------------------------------------------------------------
(* The whole replica implements the core *)

\* The votes counted on one object are votes for its block sent to self, so the
\* quorum that on_receive_vote finds is one the core finds.
LEMMA CountedQuorum ==
    ASSUME TypeOK, NEW qc, NEW o, NEW b, o.block = b,
           \A v \in qc : v.block = b => [voter |-> v.voter, block |-> b, to |-> self] \in votes,
           has_quorum(signed(qc, o))
    PROVE  has_quorum({m.voter : m \in {v \in votes : v.block = b /\ v.to = self}})
<1> DEFINE A == signed(qc, o)
           B == {m.voter : m \in {v \in votes : v.block = b /\ v.to = self}}
<1>1. ASSUME NEW x \in A PROVE x \in B
  <2>1. PICK v \in qc : v.block = b /\ x = v.voter
    BY DEF signed
  <2>2. PICK m : m = [voter |-> x, block |-> b, to |-> self]
    BY Zenon
  <2>3. m \in votes /\ m.voter = x /\ m.block = b /\ m.to = self
    BY <2>1, <2>2
  <2> QED BY <2>3
<1>2. B \subseteq Replica
    BY DEF TypeOK
<1>3. IsFiniteSet(B) /\ Cardinality(A) <= Cardinality(B)
    BY <1>1, <1>2, ConstantsAssumption, FS_Subset
<1>4. Cardinality(A) \in Nat /\ Cardinality(B) \in Nat
    BY <1>1, <1>3, FS_Subset, FS_CardinalityType
<1> QED BY <1>3, <1>4, QuorumSize DEF has_quorum

\* A vote that self counts is a step of the core or leaves it alone, and is
\* announced only with a certificate the core takes notice of (on_receive_vote).
LEMMA VoteCounted ==
    ASSUME AppInv, NEW b, NEW voter, handle_vote(b, voter),
           [voter |-> voter, block |-> b, to |-> self] \in votes
    PROVE  /\ b \in Blocks
           /\ self_qc' = self_qc \cup {[block |-> b, proposer |-> voted_object(b, voter).proposer,
                                        voter |-> voter]}
           /\ \/ UNCHANGED vars /\ UNCHANGED latest_new_qc
              \/ on_receive_vote(self, b) /\ latest_new_qc' = {b}
<1> DEFINE o == voted_object(b, voter)
<1>1. o.block = b /\ self_qc' = with_vote(o, voter) /\ self \notin halted
    BY DEF handle_vote, count_vote, voted_object, Ready
<1>2. self_qc' = self_qc \cup {[block |-> b, proposer |-> o.proposer, voter |-> voter]}
    BY <1>1 DEF with_vote
<1>3. \A v \in self_qc' : v.block = b => [voter |-> v.voter, block |-> b, to |-> self] \in votes
    BY <1>2 DEF AppInv, MessageInv
<1>4. b \in Blocks
    BY DEF AppInv, IInv, TypeOK
<1>5. CASE has_quorum(signed(self_qc', o)) /\ ~has_quorum(signed(self_qc, o))
  <2>1. /\ update_hqc(self, b) /\ latest_new_qc' = {b}
        /\ UNCHANGED <<network, vheight, b_lock, b_exec, decided, disk, halted>>
    BY <1>1, <1>5 DEF handle_vote, count_vote
  <2>2. has_quorum({m.voter : m \in {v \in votes : v.block = b /\ v.to = self}})
    BY <1>1, <1>3, <1>5, CountedQuorum DEF AppInv, IInv
  <2>3. on_receive_vote(self, b)
    BY <1>1, <2>1, <2>2 DEF on_receive_vote
  <2> QED BY <1>2, <1>4, <2>1, <2>3
<1>6. CASE ~(has_quorum(signed(self_qc', o)) /\ ~has_quorum(signed(self_qc, o)))
  <2>1. UNCHANGED <<hqc, b_leaf, latest_new_qc>>
    BY <1>1, <1>6 DEF handle_vote, count_vote
  <2>2. UNCHANGED vars
    BY <2>1 DEF handle_vote, vars, network
  <2> QED BY <1>2, <1>4, <2>1, <2>2
<1> QED BY <1>5, <1>6

\* Sequences over a set, for sets the provers would otherwise take apart.
LEMMA ElementType ==
    ASSUME NEW S, NEW q \in Seq(S), NEW i \in 1..Len(q)
    PROVE  q[i] \in S
OBVIOUS

LEMMA TailType ==
    ASSUME NEW S, NEW q \in Seq(S), q # << >>
    PROVE  /\ Tail(q) \in Seq(S) /\ Len(q) \in Nat \ {0} /\ Len(Tail(q)) = Len(q) - 1
           /\ \A i \in 1..Len(Tail(q)) : Tail(q)[i] = q[i + 1] /\ i + 1 \in 1..Len(q)
OBVIOUS

LEMMA AppendType ==
    ASSUME NEW S, NEW q \in Seq(S), NEW x \in S
    PROVE  /\ Append(q, x) \in Seq(S) /\ Len(q) \in Nat /\ Len(Append(q, x)) = Len(q) + 1
           /\ \A i \in 1..Len(q) : Append(q, x)[i] = q[i]
           /\ Append(q, x)[Len(q) + 1] = x
OBVIOUS

\* The message behind the event in front of the event queue.
LEMMA FirstEvent ==
    ASSUME AppInv, events # << >>
    PROVE  LET e == Head(events)
           IN /\ e.block \in Blocks /\ e.op \in {"proposal", "vote"}
              /\ e.op = "proposal" => [block |-> e.block, proposer |-> self] \in proposals
              /\ e.op = "vote" => [voter |-> self, block |-> e.block, to |-> self] \in votes
<1>1. events \in Seq(Sent)
    BY DEF AppInv, MessageInv
<1>2. Head(events) \in Sent
    BY <1>1
<1>3. CASE \E m \in proposals : m.proposer = self /\ Head(events) = [op |-> "proposal", block |-> m.block]
  <2>1. PICK m \in proposals : m.proposer = self /\ Head(events) = [op |-> "proposal", block |-> m.block]
    BY <1>3
  <2>2. m \in [block : Blocks, proposer : Replica]
    BY DEF AppInv, IInv, TypeOK
  <2>3. m = [block |-> m.block, proposer |-> self] /\ m.block \in Blocks
    BY <2>1, <2>2
  <2>4. Head(events).op = "proposal" /\ Head(events).block = m.block
    BY <2>1
  <2> QED BY <2>3, <2>4
<1>4. CASE \E m \in votes : /\ m.voter = self /\ m.to = self
                           /\ Head(events) = [op |-> "vote", block |-> m.block]
  <2>1. PICK m \in votes : /\ m.voter = self /\ m.to = self
                           /\ Head(events) = [op |-> "vote", block |-> m.block]
    BY <1>4
  <2>2. m \in [voter : Replica, block : Blocks, to : Replica]
    BY DEF AppInv, IInv, TypeOK
  <2>3. m = [voter |-> self, block |-> m.block, to |-> self] /\ m.block \in Blocks
    BY <2>1, <2>2
  <2>4. Head(events).op = "vote" /\ Head(events).block = m.block
    BY <2>1
  <2> QED BY <2>3, <2>4
<1> QED BY <1>2, <1>3, <1>4 DEF Sent

\* The value after those on the way to b is one.
LEMMA NextValueType ==
    ASSUME AppInv, NEW b \in Blocks
    PROVE  NextValue(b) \in Nat \ {0}
<1>1. Anc(b) \subseteq Blocks /\ body \in [Blocks -> VM!VMBlockID]
    BY DEF AppInv, BodyType, IInv, TypeOK, Anc
<1>2. Below(b) \subseteq 0..(TopValue + BufferTarget)
    BY <1>1 DEF Below, Value, VM!VMBlockID
<1>3. IsFiniteSet(0..(TopValue + BufferTarget))
    BY AppAssumption, FS_Interval
<1>4. Cardinality(Below(b)) \in Nat
    BY <1>2, <1>3, FS_Subset, FS_CardinalityType, Zenon
<1> QED BY <1>4 DEF NextValue

\* A fresh replica has nothing queued, counted or stored but the genesis block.
LEMMA FreshReplica ==
    ASSUME AppInit
    PROVE  /\ BodyType /\ MessageInv /\ OwnInv /\ QueueInv
           /\ StoreComplete /\ CertificateInv /\ ValueInv
<1>1. /\ Blocks = {Genesis} /\ Height(Genesis) = 0 /\ Anc(Genesis) = {Genesis}
      /\ hqc[self] = Genesis /\ b_leaf[self] = Genesis /\ b_lock[self] = Genesis
      /\ b_exec[self] = Genesis
    BY AppAssumption DEF AppInit, Init, genesis_block, Blocks, Height, Anc
<1>2. TopValue \in Nat /\ BufferTarget \in Nat /\ VM!VMBlockID = 0..(TopValue + BufferTarget)
    BY AppAssumption DEF VM!VMBlockID
<1>3. BodyType
  <2>1. /\ body = [b \in {Genesis} |-> VM!NoBlock]
        /\ store = [b \in {Genesis} |-> UNKNOWN_REPLICA]
    BY Zenon DEF AppInit
  <2>2. VM!NoBlock = 0 /\ 0 <= TopValue + BufferTarget /\ 0 \in VM!VMBlockID
    BY <1>2 DEF VM!NoBlock
  <2> QED BY <1>1, <2>1, <2>2 DEF BodyType
<1>4. MessageInv /\ OwnInv
    BY SMTT(20) DEF AppInit, Init, MessageInv, OwnInv
<1>5. QueueInv
  <2>1. /\ event = [pc |-> "idle", height |-> 0, id |-> VM!NoBlock]
        /\ highest_committed = 0 /\ commit_queue = << >>
    BY Zenon DEF AppInit, VM!InitAt
  <2>2. event.pc = "idle" /\ Done = 0
    BY <2>1, SMTT(20) DEF Done
  <2> QED BY <1>1, <2>1, <2>2 DEF QueueInv
<1>6. StoreComplete
  <2>1. DOMAIN store = {Genesis}
    BY DEF AppInit
  <2> QED BY <1>1, <2>1, Zenon DEF StoreComplete
<1>7. CertificateInv
  <2>1. /\ latest_new_qc = {} /\ self \in Replica
        /\ pacer = [pc |-> "propose", expected |-> Genesis, proposer |-> self]
    BY AppAssumption DEF AppInit
  <2> QED BY <1>1, <2>1 DEF CertificateInv
<1>8. ValueInv
  <2>1. /\ state = 0 /\ blocks_to_validate = << >> /\ proposal_buffer = << >> /\ requests = 0
        /\ user = [pc |-> "idle", height |-> 0]
        /\ event = [pc |-> "idle", height |-> 0, id |-> VM!NoBlock]
    BY Zenon DEF AppInit, VM!InitAt
  <2>2. user.pc = "idle" /\ event.pc = "idle"
    BY <2>1
  <2> QED BY <1>2, <2>1, <2>2 DEF ValueInv
<1> QED BY <1>3, <1>4, <1>5, <1>6, <1>7, <1>8

\* The wait of the pacemaker ends well only if the core has the certificate.
LEMMA WokenStep ==
    ASSUME AppInv, AppNext, pacer.pc = "wait", pacer'.pc = "propose"
    PROVE  Height(hqc[self]) >= Height(pacer.expected)
<1>1. CASE wait_for_qc
  <2>1. pacer' = [pacer EXCEPT !.pc = IF ~cancel_wait /\ latest_new_qc = {pacer.expected}
                                      THEN "propose" ELSE "defer"]
    BY <1>1 DEF wait_for_qc
  <2>2. latest_new_qc = {pacer.expected}
    BY <2>1, SMTT(20) DEF AppInv, CertificateInv
  <2>3. hqc[self] \in Blocks /\ pacer.expected \in Blocks
        /\ Height(pacer.expected) <= Height(hqc[self])
    BY <2>2, AppAssumption, SMTT(20) DEF AppInv, CertificateInv, IInv, TypeOK
  <2>4. Height(hqc[self]) \in Nat /\ Height(pacer.expected) \in Nat
    BY <2>3, TreeFacts, SMTT(20) DEF AppInv, IInv
  <2> QED BY <2>3, <2>4
<1>2. CASE do_propose_next \/ do_empty_propose
    BY <1>2, Zenon DEF do_propose_next, do_empty_propose, propose
<1>3. CASE finish_propose
  <2>1. pacer'.pc = IF Pacing = "eager" THEN "propose" ELSE "wait"
    BY <1>3 DEF finish_propose, mint
  <2> QED BY <2>1, SMTT(20) DEF AppInv, CertificateInv
<1>4. CASE get_last_proposer \/ set_self_as_proposer
    BY <1>4 DEF get_last_proposer, set_self_as_proposer
<1>5. CASE \/ cancel_wait_for_new_qc \/ (\E m \in proposals : network_event(m))
           \/ own_event \/ peer_event \/ apply_next \/ pass_on \/ passed_on \/ vm_thread
           \/ vm_orders \/ (\E r \in Replica : peer(r))
  <2>1. UNCHANGED pacer
    BY <1>5, Zenon DEF cancel_wait_for_new_qc, network_event,
            own_event, peer_event, handle_proposal, handle_vote, peer,
            apply_next, pass_on, passed_on, vm_thread, vm_orders, app_vars
  <2> QED BY <2>1, SMTT(20)
<1> QED BY <1>1, <1>2, <1>3, <1>4, <1>5 DEF AppNext

\* Whichever way do_propose ends, it has minted a block with a VM block in range,
\* or it waits for the VM.
LEMMA Proposes ==
    ASSUME AppInv, do_propose_next \/ do_empty_propose \/ finish_propose
    PROVE  \/ UNCHANGED <<vars, app_vars>>
           \/ \E x \in VM!VMBlockID : mint(x)
<1>1. VM!NoBlock \in VM!VMBlockID
    BY AppAssumption DEF VM!NoBlock, VM!VMBlockID
<1>2. proposal_buffer # << >> => Head(proposal_buffer) \in VM!VMBlockID
  <2>1. proposal_buffer \in Seq(Nat)
    BY DEF AppInv, VM!IInv, VM!TypeOK, VM!ControlType
  <2>2. proposal_buffer # << >> =>
          1 \in 1..Len(proposal_buffer) /\ Head(proposal_buffer) = proposal_buffer[1]
    BY <2>1
  <2> QED BY <2>2 DEF AppInv, ValueInv
<1>3. ASSUME NEW supported, propose(supported)
      PROVE  UNCHANGED <<vars, app_vars>> \/ \E x \in VM!VMBlockID : mint(x)
    BY <1>1, <1>2, <1>3 DEF propose
<1>4. CASE finish_propose
    BY <1>2, <1>4 DEF finish_propose, VM!got_proposal
<1> QED BY <1>3, <1>4, Zenon DEF do_propose_next, do_empty_propose

\* Another replica takes a step of the core.
LEMMA PeerStep ==
    ASSUME AppInv, NEW r \in Replica, peer(r)
    PROVE  \/ \E x \in VM!VMBlockID :
                 do_propose(r, x) /\ record(Hash(b_leaf[r], hqc[r], x), x)
           \/ /\ \/ \E m \in proposals : on_receive_proposal(r, m)
                 \/ \E b \in Blocks : on_receive_vote(r, b)
              /\ UNCHANGED body
<1>1. {VM!NoBlock} \cup (IF Stable(r) THEN 1..TopValue ELSE {}) \subseteq VM!VMBlockID
    BY AppAssumption DEF VM!NoBlock, VM!VMBlockID
<1> QED BY <1>1, Zenon DEF peer

\* Every step of the whole replica and of its peers is a step of the core, or
\* leaves the core alone.
LEMMA CoreStep ==
    ASSUME AppInv, [AppNext]_all_vars
    PROVE  [Next]_vars
<1>1. VM!VMBlockID \subseteq Body /\ self \in Replica
    BY AppAssumption DEF VM!VMBlockID
<1>2. CASE do_propose_next \/ do_empty_propose \/ finish_propose
  <2>1. ASSUME NEW x \in VM!VMBlockID, mint(x) PROVE Next
    BY <1>1, <2>1 DEF mint, Next
  <2> QED BY <1>2, <2>1, Proposes
<1>3. ASSUME NEW b, NEW voter, handle_vote(b, voter),
             [voter |-> voter, block |-> b, to |-> self] \in votes
      PROVE  [Next]_vars
    BY <1>1, <1>3, VoteCounted DEF Next
<1>4. CASE own_event
  <2>1. CASE Head(events).op = "proposal"
    <3>1. PICK m : m = [block |-> Head(events).block, proposer |-> self]
        BY Zenon
    <3>2. m \in proposals
        BY <1>4, <2>1, <3>1, FirstEvent DEF own_event
    <3>3. handle_proposal(m)
        BY <1>4, <2>1, <3>1 DEF own_event
    <3> QED BY <1>1, <3>2, <3>3 DEF handle_proposal, Next
  <2>2. CASE Head(events).op = "vote"
    <3>1. handle_vote(Head(events).block, self)
        BY <1>4, <2>2 DEF own_event
    <3> QED BY <1>3, <1>4, <2>2, <3>1, FirstEvent DEF own_event
  <2> QED BY <1>4, <2>1, <2>2 DEF own_event
<1>5. CASE peer_event
  <2>1. ASSUME NEW m \in proposals, handle_proposal(m) PROVE Next
    BY <1>1, <2>1 DEF handle_proposal, Next
  <2>2. ASSUME NEW v \in votes, v.to = self, handle_vote(v.block, v.voter) PROVE [Next]_vars
    <3>1. v = [voter |-> v.voter, block |-> v.block, to |-> self]
        BY <2>2 DEF AppInv, IInv, TypeOK
    <3> QED BY <1>3, <2>2, <3>1
  <2> QED BY <1>5, <2>1, <2>2 DEF peer_event
<1>6. ASSUME NEW r \in Replica, peer(r) PROVE Next
    BY <1>1, <1>6, PeerStep DEF Next
<1>7. CASE \/ wait_for_qc \/ cancel_wait_for_new_qc \/ get_last_proposer \/ set_self_as_proposer
           \/ (\E m \in proposals : network_event(m))
           \/ apply_next \/ pass_on \/ passed_on \/ vm_thread \/ vm_orders
    BY <1>7 DEF wait_for_qc, cancel_wait_for_new_qc, get_last_proposer, set_self_as_proposer,
                network_event, apply_next, pass_on, passed_on, vm_thread, vm_orders
<1>8. CASE UNCHANGED all_vars
    BY <1>8 DEF all_vars
<1> QED BY <1>2, <1>4, <1>5, <1>6, <1>7, <1>8 DEF AppNext

-----------------------------------------------------------------------------
(* The whole replica uses the bridge as the bridge expects *)

\* The bridge has committed nothing above the block that b_leaf extends.
LEMMA CommittedBelowLeaf ==
    ASSUME AppInv
    PROVE  /\ highest_committed \in Nat /\ Height(b_leaf[self]) \in Nat
           /\ highest_committed <= Height(b_leaf[self])
<1>1. /\ b_exec[self] \in Blocks /\ hqc[self] \in Blocks /\ b_leaf[self] \in Blocks
      /\ hqc[self] \in Anc(b_leaf[self])
    BY AppAssumption DEF AppInv, IInv, TypeOK, LeafExtendsCertificate
<1>2. /\ Height(b_exec[self]) \in Nat /\ Height(hqc[self]) \in Nat /\ Height(b_leaf[self]) \in Nat
      /\ Height(hqc[self]) <= Height(b_leaf[self])
    BY <1>1, TreeFacts, AncestorFacts, SMTT(20) DEF AppInv, IInv
<1>3. highest_committed \in Nat
    BY ConstantsAssumption DEF AppInv, VM!IInv, VM!TypeOK, VM!GadgetType
<1>4. /\ commit_queue \in Seq(decided[self])
      /\ Done + Len(commit_queue) = Height(b_exec[self])
      /\ event.pc # "idle" => commit_queue # << >>
    BY DEF AppInv, QueueInv
<1>5. Len(commit_queue) \in Nat /\ (commit_queue # << >> => Len(commit_queue) > 0)
    BY <1>4
<1>6. highest_committed <= Height(b_exec[self])
    BY <1>2, <1>3, <1>4, <1>5 DEF Done
<1> QED BY <1>2, <1>3, <1>6 DEF AppInv, CertificateInv

\* The block that apply_next hands over is the one decided next.
LEMMA NextDecided ==
    ASSUME AppInv, commit_queue # << >>, event.pc = "idle"
    PROVE  /\ Head(commit_queue) \in Blocks
           /\ Height(Head(commit_queue)) = highest_committed + 1
           /\ highest_committed < MaxHeight
           /\ Value(Head(commit_queue)) \in VM!VMBlockID
<1>1. /\ commit_queue \in Seq(decided[self])
      /\ \A i \in 1..Len(commit_queue) : Height(commit_queue[i]) = highest_committed + i
    BY DEF AppInv, QueueInv, Done
<1>2. 1 \in 1..Len(commit_queue) /\ Head(commit_queue) = commit_queue[1]
    BY <1>1
<1>3. Head(commit_queue) \in Blocks
    BY <1>1, <1>2, AppAssumption DEF AppInv, IInv, TypeOK
<1>4. Height(Head(commit_queue)) \in 0..MaxHeight
    BY <1>3 DEF AppInv, IInv, TypeOK, Height
<1>5. Value(Head(commit_queue)) \in VM!VMBlockID
    BY <1>3 DEF AppInv, BodyType, Value
<1>6. highest_committed \in Nat
    BY CommittedBelowLeaf
<1> QED BY <1>1, <1>2, <1>3, <1>4, <1>5, <1>6, ConstantsAssumption

\* Every step of the whole replica is one that the bridge allows, or leaves the
\* bridge alone.
LEMMA BridgeUsed ==
    ASSUME AppInv, [AppNext]_all_vars
    PROVE  [VM!Next]_(VM!vars)
<1>1. UNCHANGED vm_vars => UNCHANGED VM!vars
    BY DEF vm_vars, VM!vars, VM!gadget, VM!control, VM!machine, VM!threads
<1>2. ASSUME NEW supported, propose(supported) PROVE VM!Next
  <2>1. PICK h : h = Height(b_leaf[self]) + 1
    OBVIOUS
  <2>2. h \in highest_committed + 1 .. MaxHeight
    BY <1>2, <2>1, CommittedBelowLeaf, ConstantsAssumption DEF propose
  <2>3. \/ VM!make_empty_proposal(h)
        \/ state + Len(blocks_to_validate) < TopValue /\ VM!get_and_apply_next_proposal(h)
    BY <1>2, <2>1 DEF propose
  <2>4. /\ state \in Nat /\ Len(blocks_to_validate) \in Nat
        /\ state + Len(blocks_to_validate) < TopValue => state < TopValue
    BY AppAssumption DEF AppInv, VM!IInv, VM!TypeOK, VM!MachineType, VM!ControlType
  <2> QED BY <2>2, <2>3, <2>4 DEF VM!Next
<1>3. CASE finish_propose
    BY <1>3 DEF finish_propose, VM!Next
<1>4. CASE apply_next
  <2>1. /\ commit_queue # << >> /\ event.pc = "idle"
        /\ VM!apply_block(Height(Head(commit_queue)), Value(Head(commit_queue)))
    BY <1>4 DEF apply_next, VM!apply_block
  <2> QED BY <2>1, NextDecided DEF VM!Next
<1>5. CASE pass_on \/ passed_on \/ vm_thread \/ vm_orders
    BY <1>5 DEF pass_on, passed_on, vm_thread, vm_orders, VM!Next
<1>6. CASE \/ wait_for_qc \/ cancel_wait_for_new_qc \/ get_last_proposer \/ set_self_as_proposer
           \/ (\E m \in proposals : network_event(m)) \/ own_event \/ peer_event
           \/ (\E r \in Replica \ {self} : peer(r))
  <2>1. UNCHANGED vm_vars
    BY <1>6 DEF wait_for_qc, cancel_wait_for_new_qc, get_last_proposer, set_self_as_proposer,
                network_event, own_event, peer_event, handle_proposal, handle_vote, peer
  <2> QED BY <1>1, <2>1
<1>7. CASE UNCHANGED all_vars
    BY <1>1, <1>7 DEF all_vars
<1> QED BY <1>2, <1>3, <1>4, <1>5, <1>6, <1>7, Zenon DEF AppNext, do_propose_next, do_empty_propose

-----------------------------------------------------------------------------
(* What ties the parts together is kept *)

\* A minted block comes with its body.
LEMMA MintedBody ==
    ASSUME BodyType, NEW r \in Replica, NEW x \in VM!VMBlockID, do_propose(r, x),
           record(Hash(b_leaf[r], hqc[r], x), x)
    PROVE  /\ Blocks' = Blocks \cup {Hash(b_leaf[r], hqc[r], x)}
           /\ body' \in [Blocks' -> VM!VMBlockID]
           /\ \A b \in Blocks : body'[b] = body[b]
           /\ Hash(b_leaf[r], hqc[r], x) \notin Blocks => body'[Hash(b_leaf[r], hqc[r], x)] = x
<1>1. PICK b : b = Hash(b_leaf[r], hqc[r], x)
    OBVIOUS
<1>2. Blocks' = Blocks \cup {b}
    BY <1>1 DEF do_propose, Blocks
<1>3. /\ body \in [Blocks -> VM!VMBlockID] /\ DOMAIN body = Blocks
      /\ body' = [i \in DOMAIN body \cup {b} |-> IF i \in DOMAIN body THEN body[i] ELSE x]
    BY <1>1 DEF BodyType, record
<1>4. /\ body' \in [Blocks \cup {b} -> VM!VMBlockID] /\ \A i \in Blocks : body'[i] = body[i]
      /\ b \notin Blocks => body'[b] = x
    BY <1>3
<1> QED BY <1>1, <1>2, <1>4

\* The store gets the new block object, unless it has one with that hash.
LEMMA Inserted ==
    ASSUME BodyType, NEW b, NEW p \in Replica, insert_block(b, p)
    PROVE  /\ DOMAIN store' = DOMAIN store \cup {b}
           /\ store' \in [DOMAIN store' -> Replica \cup {UNKNOWN_REPLICA}]
           /\ \A i \in DOMAIN store : store'[i] = store[i]
BY DEF BodyType, insert_block

LEMMA BodyStep ==
    ASSUME AppInv, [AppNext]_all_vars
    PROVE  BodyType' /\ \A b \in Blocks : body'[b] = body[b]
<1>1. BodyType /\ TypeOK /\ self \in Replica
    BY AppAssumption DEF AppInv, IInv
<1>2. ASSUME NEW x \in VM!VMBlockID, mint(x)
      PROVE  BodyType' /\ \A b \in Blocks : body'[b] = body[b]
  <2>1. PICK b : b = Hash(b_leaf[self], hqc[self], x)
    OBVIOUS
  <2>2. do_propose(self, x) /\ record(b, x) /\ insert_block(b, self)
    BY <1>2, <2>1 DEF mint
  <2>3. /\ DOMAIN store' = DOMAIN store \cup {b}
        /\ store' \in [DOMAIN store' -> Replica \cup {UNKNOWN_REPLICA}]
    BY <1>1, <2>2, Inserted, Zenon
  <2> QED BY <1>1, <2>1, <2>2, <2>3, MintedBody DEF BodyType
<1>3. ASSUME NEW r \in Replica, NEW x \in VM!VMBlockID, do_propose(r, x),
             record(Hash(b_leaf[r], hqc[r], x), x), UNCHANGED store
      PROVE  BodyType' /\ \A b \in Blocks : body'[b] = body[b]
    BY <1>1, <1>3, MintedBody DEF BodyType
<1>4. ASSUME NEW m \in proposals, network_event(m)
      PROVE  BodyType' /\ \A b \in Blocks : body'[b] = body[b]
  <2>1. /\ m.block \in Blocks /\ m.proposer \in Replica /\ insert_block(m.block, m.proposer)
        /\ UNCHANGED <<tree, body>>
    BY <1>1, <1>4 DEF network_event, vars, TypeOK
  <2>2. /\ DOMAIN store' = DOMAIN store \cup {m.block}
        /\ store' \in [DOMAIN store' -> Replica \cup {UNKNOWN_REPLICA}]
    BY <1>1, <2>1, Inserted, Zenon
  <2> QED BY <1>1, <2>1, <2>2, SMTT(20) DEF BodyType, Blocks
<1>5. UNCHANGED <<tree, body, store>> => BodyType' /\ \A b \in Blocks : body'[b] = body[b]
    BY <1>1 DEF BodyType, Blocks
<1>6. CASE do_propose_next \/ do_empty_propose \/ finish_propose
    BY <1>2, <1>5, <1>6, Proposes DEF vars, app_vars
<1>7. ASSUME NEW r \in Replica, peer(r)
      PROVE  BodyType' /\ \A b \in Blocks : body'[b] = body[b]
  <2>1. UNCHANGED store
    BY <1>7 DEF peer
  <2>2. CASE UNCHANGED body /\ \/ \E m \in proposals : on_receive_proposal(r, m)
                               \/ \E b \in Blocks : on_receive_vote(r, b)
    BY <1>5, <2>1, <2>2, Zenon DEF on_receive_proposal, on_receive_vote, network
  <2> QED BY <1>3, <1>7, <2>1, <2>2, PeerStep
<1>8. CASE \/ wait_for_qc \/ cancel_wait_for_new_qc \/ get_last_proposer \/ set_self_as_proposer
           \/ own_event \/ peer_event \/ apply_next \/ pass_on \/ passed_on \/ vm_thread
           \/ vm_orders \/ UNCHANGED all_vars
  <2>1. UNCHANGED <<tree, body, store>>
    BY <1>8 DEF wait_for_qc, cancel_wait_for_new_qc, get_last_proposer, set_self_as_proposer,
                own_event, peer_event, handle_proposal, handle_vote, on_receive_proposal,
                apply_next, pass_on, passed_on, vm_thread, vm_orders, vars, app_vars, all_vars,
                network
  <2> QED BY <1>5, <2>1
<1> QED BY <1>4, <1>6, <1>7, <1>8 DEF AppNext

\* Messages stay sent.
LEMMA SentStable ==
    ASSUME [Next]_vars, TypeOK
    PROVE  proposals \subseteq proposals' /\ votes \subseteq votes' /\ Blocks \subseteq Blocks'
<1>1. proposals \subseteq proposals'
    BY Zenon DEF Next, vars, do_propose, on_receive_proposal, on_receive_vote,
           reload_state_from_index, network
<1> QED BY <1>1, StepStable

LEMMA SentGrows ==
    ASSUME [Next]_vars, TypeOK
    PROVE  Sent \subseteq Sent'
BY SentStable DEF Sent

\* A sequence over a set is one over any larger set.
LEMMA SeqMonotone ==
    ASSUME NEW S, NEW T, S \subseteq T, NEW q \in Seq(S)
    PROVE  q \in Seq(T)
OBVIOUS

\* Whatever is put into the event queue or counted was sent, and stays sent.
LEMMA MessageStep ==
    ASSUME AppInv, [AppNext]_all_vars
    PROVE  MessageInv'
<1>1. [Next]_vars /\ TypeOK
    BY CoreStep DEF AppInv, IInv
<1>2. Sent \subseteq Sent' /\ votes \subseteq votes' /\ events \in Seq(Sent)
    BY <1>1, SentGrows, SentStable DEF AppInv, MessageInv
<1>3. events \in Seq(Sent') /\ (events # << >> => Tail(events) \in Seq(Sent'))
  <2>1. PICK T : T = Sent'
    OBVIOUS
  <2>2. events \in Seq(T)
    BY <1>2, <2>1, SeqMonotone
  <2>3. events # << >> => Tail(events) \in Seq(T)
    BY <2>2, TailType
  <2> QED BY <2>1, <2>2, <2>3
<1>4. \A v \in self_qc : [voter |-> v.voter, block |-> v.block, to |-> self] \in votes'
    BY <1>2 DEF AppInv, MessageInv
<1>5. UNCHANGED <<events, self_qc>> => MessageInv'
    BY <1>3, <1>4 DEF MessageInv
<1>6. ASSUME NEW q \in Seq(Sent'), NEW e \in Sent'
      PROVE  Append(q, e) \in Seq(Sent')
    BY <1>6, AppendType
<1>7. ASSUME NEW x, mint(x) PROVE MessageInv'
  <2>1. PICK b : b = Hash(b_leaf[self], hqc[self], x)
    BY SMTT(20)
  <2>2. /\ events' = Append(events, [op |-> "proposal", block |-> b]) /\ self_qc' = self_qc
        /\ [block |-> b, proposer |-> self] \in proposals'
    BY <1>7, <2>1 DEF mint, do_propose
  <2>3. [op |-> "proposal", block |-> b] \in Sent'
    <3>1. PICK m : m = [block |-> b, proposer |-> self]
        BY Zenon
    <3>2. m \in proposals' /\ m.block = b /\ m.proposer = self
        BY <2>2, <3>1
    <3> QED BY <3>2 DEF Sent
  <2>4. events' \in Seq(Sent')
    BY <1>3, <1>6, <2>2, <2>3
  <2> QED BY <1>4, <2>2, <2>4 DEF MessageInv
<1>8. ASSUME NEW b, NEW voter, handle_vote(b, voter), events' \in Seq(Sent'),
             [voter |-> voter, block |-> b, to |-> self] \in votes
      PROVE  MessageInv'
  <2>1. PICK p : self_qc' = self_qc \cup {[block |-> b, proposer |-> p, voter |-> voter]}
    BY <1>8, VoteCounted, Zenon
  <2>2. PICK w : w = [block |-> b, proposer |-> p, voter |-> voter]
    BY Zenon
  <2>3. w.block = b /\ w.voter = voter /\ self_qc' = self_qc \cup {w}
    BY <2>1, <2>2
  <2> QED BY <1>2, <1>4, <1>8, <2>3 DEF MessageInv
<1>9. CASE own_event
  <2>1. PICK b : b = Head(events).block
    OBVIOUS
  <2>2. CASE Head(events).op = "proposal"
    <3>1. PICK m : m = [block |-> b, proposer |-> self]
        BY Zenon
    <3>2. /\ handle_proposal(m) /\ m.block = b /\ m.proposer = self
          /\ events' = IF opinion(self, b) THEN Append(Tail(events), [op |-> "vote", block |-> b])
                       ELSE Tail(events)
        BY <1>9, <2>1, <2>2, <3>1 DEF own_event
    <3>3. opinion(self, b) => [op |-> "vote", block |-> b] \in Sent'
      <4>1. PICK v : v = [voter |-> self, block |-> b, to |-> self]
        BY Zenon
      <4>2. opinion(self, b) => v \in votes'
        BY <3>2, <4>1 DEF handle_proposal, on_receive_proposal, do_vote
      <4>3. v.voter = self /\ v.to = self /\ v.block = b
        BY <4>1
      <4> QED BY <4>2, <4>3 DEF Sent
    <3>4. events' \in Seq(Sent') /\ self_qc' = self_qc
        BY <1>3, <1>6, <1>9, <3>2, <3>3, SMTT(20) DEF own_event, handle_proposal
    <3> QED BY <1>4, <3>4 DEF MessageInv
  <2>3. CASE Head(events).op = "vote"
    <3>1. handle_vote(b, self) /\ events' = Tail(events) /\ events # << >>
        BY <1>9, <2>1, <2>3 DEF own_event
    <3> QED BY <1>3, <1>8, <2>1, <2>3, <3>1, FirstEvent
  <2> QED BY <1>9, <2>2, <2>3 DEF own_event
<1>10. CASE peer_event
  <2>1. UNCHANGED events
    BY <1>10, SMTT(20) DEF peer_event
  <2>2. ASSUME NEW m \in proposals, handle_proposal(m) PROVE MessageInv'
    BY <1>5, <2>1, <2>2, Zenon DEF handle_proposal
  <2>3. ASSUME NEW v \in votes, v.to = self, handle_vote(v.block, v.voter) PROVE MessageInv'
    <3>1. v = [voter |-> v.voter, block |-> v.block, to |-> self]
        BY <2>3 DEF AppInv, IInv, TypeOK
    <3> QED BY <1>3, <1>8, <2>1, <2>3, <3>1
  <2> QED BY <1>10, <2>2, <2>3 DEF peer_event
<1>11. CASE do_propose_next \/ do_empty_propose \/ finish_propose
    BY <1>5, <1>7, <1>11, Proposes DEF app_vars
<1>12. CASE \/ wait_for_qc \/ cancel_wait_for_new_qc \/ get_last_proposer \/ set_self_as_proposer
            \/ (\E m \in proposals : network_event(m)) \/ apply_next \/ pass_on \/ passed_on
            \/ vm_thread \/ vm_orders \/ (\E r \in Replica : peer(r)) \/ UNCHANGED all_vars
  <2>1. UNCHANGED <<events, self_qc>>
    BY <1>12, SMTT(20) DEF wait_for_qc, cancel_wait_for_new_qc, get_last_proposer, set_self_as_proposer,
                network_event, apply_next, pass_on, passed_on, vm_thread, vm_orders, peer,
                app_vars, all_vars
  <2> QED BY <1>5, <2>1
<1> QED BY <1>9, <1>10, <1>11, <1>12 DEF AppNext

\* No peer moves self's pointers.
LEMMA PeerKeepsSelf ==
    ASSUME AppInv, FaultsTolerated, NEW r \in Replica \ {self}, peer(r)
    PROVE  /\ hqc'[self] = hqc[self] /\ b_leaf'[self] = b_leaf[self]
           /\ b_lock'[self] = b_lock[self] /\ b_exec'[self] = b_exec[self]
           /\ decided'[self] = decided[self]
<1>1. /\ TypeOK /\ IInv /\ self \in Replica /\ r \in Replica /\ self # r
    BY AppAssumption, SMTT(20) DEF AppInv, IInv
<1>2. ASSUME NEW x, do_propose(r, x)
      PROVE  UNCHANGED <<hqc, b_lock, b_exec, decided>> /\ b_leaf'[self] = b_leaf[self]
    BY <1>1, <1>2, PointerTypes DEF do_propose
<1>3. ASSUME NEW m \in proposals, on_receive_proposal(r, m)
      PROVE  /\ hqc'[self] = hqc[self] /\ b_leaf'[self] = b_leaf[self]
             /\ b_lock'[self] = b_lock[self] /\ b_exec'[self] = b_exec[self]
             /\ decided'[self] = decided[self]
  <2>1. m.block \in Blocks
    BY <1>1, PointerTypes, Zenon
  <2>2. update(r, m.block)
    BY <1>3, Zenon DEF on_receive_proposal
  <2> QED BY <1>1, <2>1, <2>2, UpdateFacts, Zenon
<1>4. ASSUME NEW b \in Blocks, on_receive_vote(r, b)
      PROVE  /\ hqc'[self] = hqc[self] /\ b_leaf'[self] = b_leaf[self]
             /\ UNCHANGED <<b_lock, b_exec, decided>>
    BY <1>1, <1>4, PointerTypes, Zenon DEF on_receive_vote, update_hqc
<1> QED BY <1>2, <1>3, <1>4, PeerStep

\* Whatever a handler does, it is the core of self that decides, and only when it
\* handles a proposal.
LEMMA SelfDecides ==
    ASSUME AppInv, FaultsTolerated, [AppNext]_all_vars
    PROVE  \/ /\ \E m \in proposals : handle_proposal(m)
              /\ own_event \/ peer_event
           \/ /\ b_exec'[self] = b_exec[self] /\ decided'[self] = decided[self]
              /\ (UNCHANGED commit_queue \/ passed_on)
<1>1. CASE do_propose_next \/ do_empty_propose \/ finish_propose
    BY <1>1, Proposes, Zenon DEF mint, do_propose, vars, app_vars
<1>2. CASE own_event
  <2>1. CASE Head(events).op = "proposal"
    <3>1. PICK m : m = [block |-> Head(events).block, proposer |-> self]
        BY Zenon
    <3>2. m \in proposals
        BY <1>2, <2>1, <3>1, FirstEvent, Zenon DEF own_event
    <3>3. handle_proposal(m)
        BY <1>2, <2>1, <3>1, Zenon DEF own_event
    <3> QED BY <1>2, <3>2, <3>3, Zenon
  <2>2. CASE Head(events).op = "vote"
    BY <1>2, <2>2, Zenon DEF own_event, handle_vote
  <2> QED BY <1>2, <2>1, <2>2, Zenon DEF own_event
<1>3. CASE peer_event
    BY <1>3, Zenon DEF peer_event, handle_vote
<1>4. ASSUME NEW r \in Replica \ {self}, peer(r)
      PROVE  b_exec'[self] = b_exec[self] /\ decided'[self] = decided[self] /\ UNCHANGED commit_queue
    BY <1>4, PeerKeepsSelf, Zenon DEF peer
<1>5. CASE \/ wait_for_qc \/ cancel_wait_for_new_qc \/ get_last_proposer \/ set_self_as_proposer
           \/ (\E m \in proposals : network_event(m)) \/ apply_next \/ pass_on
           \/ vm_thread \/ vm_orders \/ UNCHANGED all_vars
    BY <1>5, SMTT(20) DEF wait_for_qc, cancel_wait_for_new_qc, get_last_proposer,
       set_self_as_proposer,
                network_event, apply_next, pass_on, vm_thread, vm_orders, vars,
                app_vars, all_vars
<1>6. CASE passed_on
    BY <1>6, Zenon DEF passed_on, vars
<1> QED BY <1>1, <1>2, <1>3, <1>4, <1>5, <1>6, Zenon DEF AppNext

\* The decided blocks wait in the queue one per height, from the height above b_exec
\* to the committed block (update).
LEMMA CommitOrder ==
    ASSUME TypeOK, TreeInv, NEW blk \in Blocks, NEW low \in Nat, Height(b_exec[self]) = low,
           low <= Height(blk)
    PROVE  /\ commit_order(blk) \in Seq(Anc(blk))
           /\ Len(commit_order(blk)) = Height(blk) - low
           /\ \A i \in 1..Len(commit_order(blk)) : Height(commit_order(blk)[i]) = low + i
<1>1. Height(blk) \in Nat /\ Height(blk) - low \in Nat
    BY TreeFacts
<1>2. ASSUME NEW i \in 1..(Height(blk) - low)
      PROVE  \E b \in Anc(blk) : Height(b) = low + i
    BY <1>1 DEF TreeInv, WellPlaced
<1>3. commit_order(blk) =
          [i \in 1..(Height(blk) - low) |-> CHOOSE b \in Anc(blk) : Height(b) = low + i]
    BY DEF commit_order
<1>4. \A i \in 1..(Height(blk) - low) :
          commit_order(blk)[i] \in Anc(blk) /\ Height(commit_order(blk)[i]) = low + i
    BY <1>2, <1>3
<1>5. commit_order(blk) \in [1..(Height(blk) - low) -> Anc(blk)]
    BY <1>3, <1>4
<1>6. commit_order(blk) \in Seq(Anc(blk)) /\ Len(commit_order(blk)) = Height(blk) - low
    BY <1>1, <1>5
<1> QED BY <1>4, <1>6

\* Only log_commitment finishes with a decided block, and only apply_block begins
\* with one.
LEMMA DoneStep ==
    ASSUME AppInv, [AppNext]_all_vars, ~passed_on
    PROVE  /\ Done' = Done
           /\ event'.pc # "idle" => event.pc # "idle" \/ commit_queue # << >>
           /\ own_event \/ peer_event => UNCHANGED <<event, highest_committed>>
<1>1. highest_committed \in Nat
    BY CommittedBelowLeaf
<1>2. event \in [pc : {"idle", "submit", "notify", "wait", "log", "relock", "dead"},
                 height : 0..MaxHeight, id : Nat]
    BY Zenon DEF AppInv, VM!IInv, VM!TypeOK, VM!ThreadType
<1>3. CASE UNCHANGED <<event, highest_committed>>
    BY <1>3, SMTT(20) DEF Done
<1>4. CASE do_propose_next \/ do_empty_propose \/ finish_propose
  <2>1. UNCHANGED <<event, highest_committed>>
    BY <1>4, Zenon DEF do_propose_next, do_empty_propose, propose, finish_propose,
                VM!make_empty_proposal, VM!get_and_apply_next_proposal, VM!got_proposal,
                VM!take_proposal, VM!await_proposal, VM!add_height_pair, VM!threads, VM!gadget
  <2> QED BY <1>3, <1>4, <2>1, Zenon DEF own_event, peer_event, handle_proposal, handle_vote,
             vm_vars
<1>5. CASE \/ wait_for_qc \/ cancel_wait_for_new_qc \/ get_last_proposer \/ set_self_as_proposer
           \/ (\E m \in proposals : network_event(m)) \/ own_event \/ peer_event
           \/ (\E r \in Replica : peer(r)) \/ UNCHANGED all_vars
  <2>1. UNCHANGED vm_vars
    BY <1>5, SMTT(20) DEF wait_for_qc, cancel_wait_for_new_qc, get_last_proposer,
       set_self_as_proposer,
                network_event, own_event, peer_event, handle_proposal, handle_vote, peer, all_vars
  <2> QED BY <1>3, <2>1 DEF vm_vars
<1>6. own_event \/ peer_event => UNCHANGED <<event, highest_committed>>
    BY Zenon DEF own_event, peer_event, handle_proposal, handle_vote, vm_vars
<1>7. CASE vm_thread \/ vm_orders
  <2>1. UNCHANGED <<event, highest_committed>>
    BY <1>7, Zenon DEF vm_thread, vm_orders, VM!run, VM!put_vm_in_proposer_mode, VM!stop_proposals,
                VM!threads, VM!gadget
  <2> QED BY <1>3, <2>1
<1>8. CASE apply_next
  <2>1. /\ event.pc = "idle" /\ highest_committed' = highest_committed /\ commit_queue # << >>
        /\ \E c \in {"notify", "relock", "submit"} : \E h, v :
              event' = [pc |-> c, height |-> h, id |-> v]
    BY <1>8, Zenon DEF apply_next, VM!apply_block, VM!add_height_pair, VM!gadget
  <2>2. event'.pc \in {"notify", "relock", "submit"}
    BY <2>1
  <2> QED BY <1>6, <2>1, <2>2, SMTT(20) DEF Done
<1>9. CASE pass_on
  <2>1. CASE VM!submit_block_for_exec
    <3>1. /\ event.pc = "submit" /\ event'.pc = "notify"
          /\ highest_committed' = highest_committed
        BY <1>2, <2>1 DEF VM!submit_block_for_exec, VM!gadget
    <3> QED BY <1>6, <3>1 DEF Done
  <2>2. CASE VM!on_commit_hotstuff
    <3>1. event.pc = "notify" /\ event.height = highest_committed + 1
        BY <2>2, Zenon DEF VM!on_commit_hotstuff, AppInv, VM!IInv, VM!CommitPending
    <3>2. \/ event'.pc = "wait" /\ highest_committed' = highest_committed + 1
          \/ event'.pc = "dead" /\ highest_committed' = highest_committed
        BY <1>2, <2>2, <3>1, Zenon DEF VM!on_commit_hotstuff, VM!gadget
    <3> QED BY <1>1, <1>6, <3>1, <3>2 DEF Done
  <2>3. CASE VM!wait_for_async_task
    <3>1. /\ event.pc = "wait" /\ event'.pc = "log"
          /\ highest_committed' = highest_committed
        BY <1>2, <2>3 DEF VM!wait_for_async_task, VM!gadget
    <3> QED BY <1>6, <3>1 DEF Done
  <2> QED BY <1>9, <2>1, <2>2, <2>3 DEF pass_on
<1> QED BY <1>4, <1>5, <1>7, <1>8, <1>9 DEF AppNext

\* update() hands every decided block to the bridge, height by height.
LEMMA QueueStep ==
    ASSUME AppInv, FaultsTolerated, [AppNext]_all_vars
    PROVE  QueueInv'
<1>1. /\ IInv /\ TypeOK /\ TreeInv /\ ReplicaInv /\ [Next]_vars /\ self \in Replica
    BY CoreStep, AppAssumption DEF AppInv, IInv
<1>2. \A b \in Blocks : Height(b)' = Height(b) /\ b \in Blocks'
    BY <1>1, StepStable, SMTT(20) DEF Height
<1>3. /\ b_exec[self] \in Blocks /\ decided[self] = Anc(b_exec[self]) /\ decided[self] \subseteq Blocks
      /\ Height(b_exec[self]) \in Nat
    BY <1>1, TreeFacts, Zenon DEF TypeOK, ReplicaInv
<1>4. /\ commit_queue \in Seq(decided[self])
      /\ Done + Len(commit_queue) = Height(b_exec[self])
      /\ \A i \in 1..Len(commit_queue) : Height(commit_queue[i]) = Done + i
      /\ event.pc # "idle" => commit_queue # << >>
    BY DEF AppInv, QueueInv
<1>5. highest_committed \in Nat
    BY CommittedBelowLeaf
<1>6. ASSUME b_exec'[self] = b_exec[self]
      PROVE  Height(b_exec[self])' = Height(b_exec[self])
    BY <1>2, <1>3, <1>6 DEF Height
<1>7. CASE /\ b_exec'[self] = b_exec[self] /\ decided'[self] = decided[self]
           /\ UNCHANGED commit_queue /\ ~passed_on
  <2>1. Done' = Done /\ (event'.pc # "idle" => commit_queue # << >>)
    BY <1>4, <1>7, DoneStep
  <2>2. ASSUME NEW i \in 1..Len(commit_queue')
        PROVE  Height(commit_queue[i])' = Done' + i
    <3>1. PICK c : c = commit_queue[i]
        OBVIOUS
    <3>2. i \in 1..Len(commit_queue) /\ commit_queue'[i] = c /\ c \in Blocks /\ Height(c) = Done + i
        BY <1>3, <1>4, <1>7, <2>2, <3>1
    <3>3. Height(c)' = Done' + i
        BY <1>2, <2>1, <3>2
    <3> QED BY <3>2, <3>3 DEF Height
  <2>3. commit_queue' \in Seq(decided'[self]) /\ Done' + Len(commit_queue') = Height(b_exec[self])'
    BY <1>4, <1>6, <1>7, <2>1
  <2> QED BY <1>7, <2>1, <2>2, <2>3 DEF QueueInv, Height
<1>8. CASE b_exec'[self] = b_exec[self] /\ decided'[self] = decided[self] /\ passed_on
  <2>1. /\ event.pc = "log" /\ event'.pc = "idle" /\ highest_committed' = highest_committed
        /\ commit_queue' = Tail(commit_queue)
    <3>1. event \in [pc : {"idle", "submit", "notify", "wait", "log", "relock", "dead"},
                     height : 0..MaxHeight, id : Nat]
        BY Zenon DEF AppInv, VM!IInv, VM!TypeOK, VM!ThreadType
    <3> QED BY <1>8, <3>1 DEF passed_on, VM!log_commitment, VM!gadget
  <2>2. Done' = Done + 1 /\ Done \in Int
    BY <1>5, <2>1 DEF Done
  <2>3. /\ commit_queue' \in Seq(decided[self]) /\ Len(commit_queue') = Len(commit_queue) - 1
        /\ Len(commit_queue) \in Nat
        /\ \A i \in 1..Len(commit_queue') :
              commit_queue'[i] = commit_queue[i + 1] /\ i + 1 \in 1..Len(commit_queue)
    BY <1>4, <2>1, TailType
  <2>4. ASSUME NEW i \in 1..Len(commit_queue')
        PROVE  Height(commit_queue[i])' = Done' + i
    <3>1. PICK c : c = commit_queue[i + 1]
        OBVIOUS
    <3>2. i + 1 \in 1..Len(commit_queue) /\ commit_queue'[i] = c
        BY <2>3, <3>1
    <3>3. c \in Blocks /\ Height(c) = Done + (i + 1)
        BY <1>3, <1>4, <3>1, <3>2
    <3>4. Height(c)' = Done' + i
        BY <1>2, <2>2, <3>3
    <3> QED BY <3>2, <3>4 DEF Height
  <2>5. Done' + Len(commit_queue') = Height(b_exec[self])'
    BY <1>4, <1>6, <1>8, <2>2, <2>3
  <2> QED BY <1>8, <2>1, <2>3, <2>4, <2>5 DEF QueueInv, Height
<1>9. ASSUME NEW m \in proposals, handle_proposal(m), own_event \/ peer_event
      PROVE  QueueInv'
  <2>1. /\ event.pc = "idle" /\ commit_queue = << >> /\ m.block \in Blocks /\ update(self, m.block)
        /\ UNCHANGED tree /\ commit_queue' = commit_order(b_exec'[self])
        /\ UNCHANGED <<event, highest_committed>>
    BY <1>1, <1>9, Zenon DEF handle_proposal, Ready, on_receive_proposal, TypeOK, vm_vars
  <2>2. /\ decided'[self] = Anc(b_exec'[self]) /\ decided[self] \subseteq decided'[self]
    BY <1>1, <2>1, UpdateFacts, Zenon
  <2>3. PICK blk : blk = b_exec'[self]
    OBVIOUS
  <2>4. blk \in Blocks /\ Height(blk) \in Nat
    <3>1. b_exec' \in [Replica -> Blocks]
        BY <1>1, <2>1, UpdateType
    <3> QED BY <1>1, <2>3, <3>1, TreeFacts
  <2>5. Height(b_exec[self]) <= Height(blk)
    <3>1. b_exec[self] \in Anc(blk)
        BY <1>1, <1>3, <2>2, <2>3, TreeFacts, SMTT(20)
    <3> QED BY <1>1, <2>4, <3>1, AncestorFacts, SMTT(20)
  <2>6. Done = highest_committed /\ Done' = highest_committed /\ Done = Height(b_exec[self])
    BY <1>3, <1>4, <1>5, <2>1, SMTT(20) DEF Done
  <2>7. /\ commit_queue' \in Seq(decided'[self]) /\ Len(commit_queue') = Height(blk) - Done
        /\ \A i \in 1..Len(commit_queue') : Height(commit_queue'[i]) = Done + i
    BY <1>1, <1>3, <2>1, <2>2, <2>3, <2>4, <2>5, <2>6, CommitOrder, SMTT(20)
  <2>8. Height(b_exec[self])' = Height(blk) /\ \A b : Height(b)' = Height(b)
    BY <2>1, <2>3 DEF Height
  <2>9. Done' + Len(commit_queue') = Height(b_exec[self])'
    BY <1>5, <2>4, <2>6, <2>7, <2>8
  <2>10. \A i \in 1..Len(commit_queue') : Height(commit_queue[i])' = Done' + i
    BY <2>1, <2>6, <2>7 DEF Height
  <2> QED BY <2>1, <2>7, <2>9, <2>10, SMTT(20) DEF QueueInv, Height
<1> QED BY <1>7, <1>8, <1>9, SelfDecides

\* The votes that reach self are for its own proposals.
LEMMA OwnStep ==
    ASSUME AppInv, [AppNext]_all_vars
    PROVE  OwnInv' /\ DOMAIN store \subseteq DOMAIN store'
<1>1. TypeOK /\ BodyType /\ OwnInv /\ self \in Replica
    BY AppAssumption DEF AppInv, IInv
<1>2. [Next]_vars
    BY CoreStep
<1>3. proposals \subseteq proposals'
    BY <1>1, <1>2, SentStable
<1>4. DOMAIN store \subseteq DOMAIN store'
  <2>1. ASSUME NEW b, NEW p, insert_block(b, p) PROVE DOMAIN store \subseteq DOMAIN store'
    BY <2>1 DEF insert_block
  <2>2. ASSUME NEW x, mint(x) PROVE DOMAIN store \subseteq DOMAIN store'
    BY <2>1, <2>2 DEF mint
  <2>3. CASE do_propose_next \/ do_empty_propose \/ finish_propose
    BY <2>2, <2>3, Proposes DEF app_vars
  <2>4. CASE \/ wait_for_qc \/ cancel_wait_for_new_qc \/ get_last_proposer \/ set_self_as_proposer
             \/ own_event \/ peer_event \/ apply_next \/ pass_on \/ passed_on \/ vm_thread
             \/ vm_orders \/ (\E r \in Replica : peer(r)) \/ UNCHANGED all_vars
    BY <2>4, SMTT(20) DEF wait_for_qc, cancel_wait_for_new_qc, get_last_proposer,
       set_self_as_proposer,
                own_event, peer_event, handle_proposal, handle_vote, peer,
                apply_next, pass_on, passed_on, vm_thread, vm_orders, app_vars, all_vars
  <2>5. ASSUME NEW m, network_event(m) PROVE DOMAIN store \subseteq DOMAIN store'
    BY <2>1, <2>5, Zenon DEF network_event
  <2> QED BY <2>3, <2>4, <2>5 DEF AppNext
<1>5. ASSUME NEW m \in proposals', m.proposer = self
      PROVE  m.block \in DOMAIN store'
  <2>1. CASE m \in proposals
    BY <1>1, <1>4, <1>5, <2>1 DEF OwnInv
  <2>2. CASE m \notin proposals
    <3>1. ASSUME NEW x, mint(x) PROVE m.block \in DOMAIN store'
      <4>1. PICK b : b = Hash(b_leaf[self], hqc[self], x)
        OBVIOUS
      <4>2. proposals' = proposals \cup {[block |-> b, proposer |-> self]} /\ insert_block(b, self)
        BY <3>1, <4>1, Zenon DEF mint, do_propose
      <4>3. m.block = b
        BY <2>2, <4>2
      <4> QED BY <1>1, <4>2, <4>3, Inserted, Zenon
    <3>2. CASE do_propose_next \/ do_empty_propose \/ finish_propose
        BY <2>2, <3>1, <3>2, Proposes, Zenon DEF vars
    <3>3. ASSUME NEW r \in Replica \ {self}, peer(r) PROVE FALSE
      <4>1. ASSUME NEW x, do_propose(r, x) PROVE FALSE
        <5>1. PICK b : proposals' = proposals \cup {[block |-> b, proposer |-> r]}
            BY <4>1, SMTT(20) DEF do_propose
        <5> QED BY <1>5, <2>2, <5>1, SMTT(20)
      <4>2. CASE \/ \E p \in proposals : on_receive_proposal(r, p)
                 \/ \E b \in Blocks : on_receive_vote(r, b)
        BY <2>2, <4>2, Zenon DEF on_receive_proposal, on_receive_vote, network
      <4> QED BY <3>3, <4>1, <4>2, PeerStep
    <3>4. CASE \/ wait_for_qc \/ cancel_wait_for_new_qc \/ get_last_proposer \/ set_self_as_proposer
               \/ (\E p \in proposals : network_event(p)) \/ own_event \/ peer_event \/ apply_next
               \/ pass_on \/ passed_on \/ vm_thread \/ vm_orders \/ UNCHANGED all_vars
      <4>1. UNCHANGED proposals
        BY <3>4 DEF wait_for_qc, cancel_wait_for_new_qc, get_last_proposer, set_self_as_proposer,
                network_event, own_event, peer_event, handle_proposal, handle_vote,
                on_receive_proposal, apply_next, pass_on, passed_on, vm_thread, vm_orders, vars,
                all_vars, network
      <4> QED BY <2>2, <4>1
    <3> QED BY <3>2, <3>3, <3>4 DEF AppNext
  <2> QED BY <2>1, <2>2
<1>6. ASSUME NEW v \in votes', v.to = self
      PROVE  [block |-> v.block, proposer |-> self] \in proposals'
  <2>1. CASE v \in votes
    BY <1>1, <1>3, <1>6, <2>1, Zenon DEF OwnInv
  <2>2. CASE v \notin votes
    <3>1. PICK r \in Replica, m \in proposals : on_receive_proposal(r, m)
        BY <1>2, <2>2, Zenon DEF Next, vars, do_propose, on_receive_vote,
                                 reload_state_from_index, network
    <3>2. PICK w : w = [voter |-> r, block |-> m.block, to |-> m.proposer]
        BY Zenon
    <3>3. votes' \subseteq votes \cup {w}
        BY <3>1, <3>2 DEF on_receive_proposal, do_vote
    <3>4. v.block = m.block /\ m.proposer = self
        BY <1>6, <2>2, <3>2, <3>3
    <3>5. m = [block |-> m.block, proposer |-> m.proposer]
        BY <1>1, <3>1 DEF TypeOK
    <3> QED BY <1>3, <3>1, <3>4, <3>5
  <2> QED BY <2>1, <2>2, SMTT(20)
<1> QED BY <1>4, <1>5, <1>6 DEF OwnInv

\* What the bounds need of the VM's state.
LEMMA ValueFacts ==
    ASSUME AppInv
    PROVE  /\ TopValue \in Nat /\ BufferTarget \in Nat
           /\ VM!VMBlockID = 0..(TopValue + BufferTarget)
           /\ state \in Nat /\ requests \in 0..BufferTarget /\ target \in 0..BufferTarget
           /\ blocks_to_validate \in Seq(Nat) /\ proposal_buffer \in Seq(Nat)
           /\ Len(blocks_to_validate) \in {0, 1}
           /\ Len(proposal_buffer) \in Nat
           /\ is_proposer \in BOOLEAN
           /\ requests > 0 => is_proposer = TRUE
           /\ user.pc = "waiting" => spec_mtx = "user"
           /\ event.pc = "submit" => spec_mtx = "event"
<1>1. TopValue \in Nat /\ BufferTarget \in Nat /\ VM!VMBlockID = 0..(TopValue + BufferTarget)
    BY AppAssumption DEF VM!VMBlockID
<1>2. /\ state \in Nat /\ requests \in 0..BufferTarget /\ target \in {0, BufferTarget}
      /\ blocks_to_validate \in Seq(Nat) /\ proposal_buffer \in Seq(Nat)
      /\ is_proposer \in BOOLEAN
      /\ requests > 0 => is_proposer
      /\ user.pc = "waiting" => spec_mtx = "user"
      /\ event.pc = "submit" => spec_mtx = "event"
    BY DEF AppInv, VM!IInv, VM!TypeOK, VM!ControlType, VM!MachineType, VM!LockDiscipline
<1>3. Len(blocks_to_validate) \in {0, 1} /\ Len(proposal_buffer) \in Nat
  <2>1. Len(blocks_to_validate) \in Nat /\ Len(proposal_buffer) \in Nat
    BY <1>2
  <2>2. Len(blocks_to_validate) <= 1
    BY DEF AppInv, ValueInv
  <2> QED BY <2>1, <2>2
<1>4. target \in 0..BufferTarget
    BY <1>1, <1>2
<1> QED BY <1>1, <1>2, <1>3, <1>4

=============================================================================
