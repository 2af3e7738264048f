------------------------- MODULE HotstuffAppProofs --------------------------
(***************************************************************************)
(* Proofs about HotstuffApp, for any number of replicas and proposers and  *)
(* any use of the pacemaker: the whole replica implements the core and     *)
(* uses the bridge as the bridge expects, so what is proved of             *)
(* HotstuffCore and of VMBridge alone holds for the two together; a        *)
(* certificate that wakes the pacemaker is the core's; and the VM of a     *)
(* follower, and of a leader that is alone, stays in step with consensus.  *)
(***************************************************************************)
EXTENDS HotstuffSyncFacts

-----------------------------------------------------------------------------
(* Every step of the only leader *)

\* The VM block in it leaves the buffer for the gadget.
LEMMA AheadMint ==
    ASSUME AppInv, AppInv', BodyOrder, LeadInv, AheadInv, [AppNext]_all_vars,
           NEW x \in VM!VMBlockID, mint(x),
           UNCHANGED <<highest_committed, blocks_to_validate, state, event>>,
           height_map' = Append(height_map, [height |-> Height(b_leaf[self]) + 1, id |-> x]),
           \/ x = VM!NoBlock /\ UNCHANGED proposal_buffer
           \/ /\ proposal_buffer # << >> /\ x = Head(proposal_buffer)
              /\ proposal_buffer' = Tail(proposal_buffer)
    PROVE  /\ x \in {VM!NoBlock, NextValue(b_leaf[self])}
           /\ AheadInv'
<1>1. PICK b, p : b = Hash(b_leaf[self], hqc[self], x) /\ p = b_leaf[self]
    OBVIOUS
<1>2. /\ p \in Blocks /\ Height(p) \in Nat /\ NextValue(p) \in Nat \ {0}
      /\ \A a \in Blocks : Height(a) \in Nat /\ Height(a) <= Height(p)
    BY <1>1, LeadChain, NextValueType
<1>3. /\ proposal_buffer \in Seq(Nat) /\ Len(proposal_buffer) \in Nat /\ Len(height_map) \in Nat
      /\ highest_committed \in Nat /\ height_map \in Seq([height : 1..MaxHeight, id : Nat])
    BY GadgetFacts, ValueFacts
<1>4. proposal_buffer # << >> /\ x = Head(proposal_buffer) => x = NextValue(p)
  <2>1. proposal_buffer # << >> =>
          1 \in 1..Len(proposal_buffer) /\ Head(proposal_buffer) = proposal_buffer[1]
    BY <1>3, HeadFirst
  <2> QED BY <1>1, <1>2, <2>1 DEF AheadInv
<1>5. x \in {VM!NoBlock, NextValue(p)}
    BY <1>4
<1>6. /\ b \notin Blocks /\ b_leaf'[self] = b /\ Blocks' = Blocks \cup {b}
    BY <1>1, LeadNewBlock
<1>7. /\ Height(b)' = Height(p) + 1 /\ Value(b)' = x
      /\ NextValue(b)' = NextValue(p) + IF x = VM!NoBlock THEN 0 ELSE 1
  <2>1. do_propose(self, x) /\ record(b, x) /\ self \in Replica
    BY <1>1, AppAssumption DEF mint
  <2> QED BY <1>1, <1>5, <1>6, <2>1, OrderMinted
<1>8. PICK n \in Nat : n = Len(height_map)
    BY <1>3
<1>9. /\ Len(height_map') = n + 1 /\ height_map'[n + 1].id = x
      /\ \A i \in 1..n : height_map'[i] = height_map[i]
    BY <1>3, <1>8
<1>10. Height(p) = highest_committed + n
    BY <1>1, <1>8 DEF AheadInv
<1>11. ASSUME NEW i \in 1..(n + 1), NEW a \in Blocks', Height(a)' = highest_committed + i
       PROVE  height_map'[i].id = Value(a)'
  <2>1. CASE a = b
    <3>1. i = n + 1
        BY <1>3, <1>7, <1>10, <1>11, <2>1
    <3> QED BY <1>7, <1>9, <2>1, <3>1
  <2>2. CASE a \in Blocks
    <3>1. Height(a)' = Height(a) /\ Value(a)' = Value(a)
        BY <2>2, ChainStable
    <3>2. i \in 1..n
        BY <1>2, <1>3, <1>10, <1>11, <2>2, <3>1
    <3>3. height_map[i].id = Value(a)
        BY <1>8, <1>11, <2>2, <3>1, <3>2 DEF AheadInv
    <3> QED BY <1>9, <3>1, <3>2, <3>3
  <2> QED BY <1>6, <2>1, <2>2, Zenon
<1>12. /\ state = NextValue(b)' - 1 + Len(proposal_buffer')
       /\ \A i \in 1..Len(proposal_buffer') : proposal_buffer'[i] = NextValue(b)' - 1 + i
  <2>0. /\ state = NextValue(p) - 1 + Len(proposal_buffer)
        /\ \A i \in 1..Len(proposal_buffer) : proposal_buffer[i] = NextValue(p) - 1 + i
    BY <1>1 DEF AheadInv
  <2>1. CASE x = VM!NoBlock /\ UNCHANGED proposal_buffer
    BY <1>2, <1>7, <2>0, <2>1
  <2>2. CASE /\ proposal_buffer # << >> /\ x = Head(proposal_buffer)
             /\ proposal_buffer' = Tail(proposal_buffer)
    <3>1. NextValue(b)' = NextValue(p) + 1
        BY <1>2, <1>4, <1>7, <2>2 DEF VM!NoBlock
    <3>2. /\ Len(proposal_buffer') = Len(proposal_buffer) - 1
          /\ \A i \in 1..Len(proposal_buffer') :
                proposal_buffer'[i] = proposal_buffer[i + 1] /\ i + 1 \in 1..Len(proposal_buffer)
        BY <1>3, <2>2, TailType
    <3>3. state = NextValue(b)' - 1 + Len(proposal_buffer')
        BY <1>2, <1>3, <2>0, <3>1, <3>2
    <3>4. \A i \in 1..Len(proposal_buffer') : proposal_buffer'[i] = NextValue(b)' - 1 + i
        BY <1>2, <1>3, <2>0, <3>1, <3>2
    <3> QED BY <3>3, <3>4
  <2> QED BY <2>1, <2>2
<1>13. Height(b_leaf[self])' = Height(b)' /\ NextValue(b_leaf[self])' = NextValue(b)'
    BY <1>6 DEF Height, NextValue, Below, Anc
<1>14. Height(b)' = highest_committed' + Len(height_map')
  <2>1. highest_committed' = highest_committed /\ Height(b)' = Height(p) + 1
    BY <1>7
  <2>2. highest_committed \in Nat /\ Len(height_map') = n + 1
    BY <1>3, <1>9
  <2>3. Height(b)' = (highest_committed + n) + 1
    BY <1>10, <2>1
  <2> QED BY <2>1, <2>2, <2>3
<1>15. AheadInv'
    BY <1>9, <1>11, <1>12, <1>13, <1>14 DEF AheadInv
<1> QED BY <1>1, <1>5, <1>15

\* A vote counted is never forgotten.
LEMMA CountedKept ==
    ASSUME AppInv', self_qc \subseteq self_qc', NEW b, Counted(b)
    PROVE  Counted(b)'
<1> DEFINE o == [block |-> b, proposer |-> self]
           A == signed(self_qc, o)
           B == signed(self_qc, o)'
<1>1. A \subseteq B
    BY DEF signed
<1>2. B \subseteq Replica
  <2>1. ASSUME NEW v \in self_qc' PROVE v.voter \in Replica
    <3>1. PICK m : m = [voter |-> v.voter, block |-> v.block, to |-> self]
        BY Zenon
    <3>2. m \in votes'
        BY <3>1 DEF AppInv, MessageInv
    <3>3. m.voter \in Replica
        BY <3>2 DEF AppInv, IInv, TypeOK
    <3> QED BY <3>1, <3>3
  <2> QED BY <2>1 DEF signed
<1>3. IsFiniteSet(B) /\ IsFiniteSet(A)
    BY <1>1, <1>2, ConstantsAssumption, FS_Subset
<1>4. Cardinality(A) <= Cardinality(B) /\ Cardinality(A) \in Nat /\ Cardinality(B) \in Nat
    BY <1>1, <1>3, FS_Subset, FS_CardinalityType
<1>5. Cardinality(A) >= nmajority /\ nmajority \in Nat
    BY QuorumSize DEF Counted, has_quorum
<1>6. Cardinality(B) >= nmajority
    BY <1>4, <1>5
<1> QED BY <1>6 DEF Counted, has_quorum, nmajority, nfaulty

\* Steps that leave the leader's certificates and its pacemaker alone.
LEMMA LeadFrame ==
    ASSUME AppInv, AppInv', LeadInv, [AppNext]_all_vars,
           UNCHANGED <<tree, store, cancel_wait, latest_new_qc, pacer>>, self_qc \subseteq self_qc',
           hqc'[self] = hqc[self], b_leaf'[self] = b_leaf[self],
           \A v \in votes' : v.block # Genesis,
           user'.pc = "waiting" => pacer.pc = "propose" /\ user'.height = Height(b_leaf[self]) + 1
    PROVE  LeadInv'
<1>1. Blocks' = Blocks /\ \A b : /\ Height(b)' = Height(b) /\ Anc(b)' = Anc(b)
                                 /\ Justify(b)' = Justify(b)
    BY DEF Blocks, Height, Anc, Justify
<1>2. \A b \in Blocks \ {Genesis} : Counted(b) => Counted(b)'
    BY CountedKept
<1>3. /\ Anc(b_leaf[self])' = Anc(b_leaf[self]) /\ Height(b_leaf[self])' = Height(b_leaf[self])
      /\ Height(hqc[self])' = Height(hqc[self])
      /\ \A b : Height(Justify(b))' = Height(Justify(b))
    BY DEF Anc, Height, Justify
<1> QED BY <1>1, <1>2, <1>3 DEF LeadInv

\* Votes are for proposals, never for the genesis block.
LEMMA VoteAbove ==
    ASSUME AppInv, \A v \in votes : v.block # Genesis, NEW r \in Replica, NEW m \in proposals,
           on_receive_proposal(r, m)
    PROVE  \A v \in votes' : v.block # Genesis
<1>1. CASE opinion(r, m.block)
  <2>1. Height(m.block) > vheight[r] /\ vheight[r] \in Nat
    BY <1>1, ConstantsAssumption DEF opinion, AppInv, IInv, TypeOK
  <2>2. m.block # Genesis
    BY <2>1, TreeFacts DEF AppInv, IInv
  <2>3. votes' = votes \cup {[voter |-> r, block |-> m.block, to |-> m.proposer]}
    BY <1>1 DEF on_receive_proposal, do_vote
  <2> QED BY <2>2, <2>3
<1>2. CASE ~opinion(r, m.block)
    BY <1>2 DEF on_receive_proposal
<1> QED BY <1>1, <1>2

\* The leader's handler of a proposal finds no certificate it does not have.
LEMMA LeadHandles ==
    ASSUME AppInv, AppInv', LeadInv, [AppNext]_all_vars, NEW m \in proposals, handle_proposal(m)
    PROVE  LeadInv' /\ b_leaf'[self] = b_leaf[self]
<1>1. PICK n : n = m.block
    OBVIOUS
<1>2. n \in Blocks /\ self \in Replica
    BY <1>1, AppAssumption DEF AppInv, IInv, TypeOK
<1>3. Height(Justify(n)) <= Height(hqc[self]) /\ Height(Justify(n)) \in Nat /\ Height(hqc[self]) \in Nat
  <2>1. Justify(n) \in Blocks /\ hqc[self] \in Blocks
    BY <1>2, LeadChain, TreeFacts DEF AppInv, IInv
  <2>2. Height(Justify(n)) \in Nat /\ Height(hqc[self]) \in Nat
    BY <2>1, LeadChain
  <2>3. n = Genesis => Height(Justify(n)) = 0
    BY TreeFacts DEF AppInv, IInv
  <2> QED BY <1>2, <2>2, <2>3, SMTT(20) DEF LeadInv
<1>4. on_receive_proposal(self, m) /\ UNCHANGED <<vm_vars, store, self_qc, latest_new_qc, cancel_wait, pacer>>
    BY DEF handle_proposal
<1>5. UNCHANGED <<hqc, b_leaf, tree>>
    BY <1>1, <1>3, <1>4 DEF on_receive_proposal, update, update_hqc
<1>6. \A v \in votes' : v.block # Genesis
    BY <1>2, <1>4, VoteAbove DEF LeadInv
<1>7. user'.pc = "waiting" => pacer.pc = "propose" /\ user'.height = Height(b_leaf[self]) + 1
    BY <1>4 DEF vm_vars, LeadInv
<1> QED BY <1>4, <1>5, <1>6, <1>7, LeadFrame

\* The vote that completes a quorum certifies b_leaf.
LEMMA LeadCounts ==
    ASSUME AppInv, AppInv', LeadInv, [AppNext]_all_vars, NEW b, NEW voter, handle_vote(b, voter),
           [voter |-> voter, block |-> b, to |-> self] \in votes
    PROVE  LeadInv' /\ b_leaf'[self] = b_leaf[self]
<1>1. /\ b \in Blocks \ {Genesis} /\ self \in Replica
  <2>1. PICK m : m = [voter |-> voter, block |-> b, to |-> self]
    OBVIOUS
  <2>2. m \in votes /\ m.block = b
    BY <2>1
  <2> QED BY <2>2, VoteCounted, AppAssumption DEF LeadInv
<1>2. PICK o : o = [block |-> b, proposer |-> self]
    BY Zenon
<1>3. voted_object(b, voter) = o
    BY <1>1, <1>2 DEF voted_object, LeadInv
<1>4. /\ count_vote(o, voter) /\ self_qc \subseteq self_qc'
      /\ UNCHANGED <<tree, votes, vm_vars, store, cancel_wait, pacer>>
    BY <1>3 DEF handle_vote, network, count_vote, with_vote
<1>5. /\ \A v \in votes' : v.block # Genesis
      /\ user'.pc = "waiting" => pacer.pc = "propose" /\ user'.height = Height(b_leaf[self]) + 1
    BY <1>4 DEF LeadInv, vm_vars
<1>6. CASE has_quorum(signed(self_qc', o)) /\ ~has_quorum(signed(self_qc, o))
  <2>1. user.pc # "waiting" /\ update_hqc(self, b) /\ latest_new_qc' = {b}
    BY <1>2, <1>4, <1>6 DEF count_vote, proposal_mutex_free
  <2>2. ~Counted(b) /\ Counted(b)'
    BY <1>2, <1>6, SMTT(20) DEF Counted, has_quorum, nmajority, nfaulty, signed
  <2>3. Height(b) > Height(hqc[self])
    BY <1>1, <2>2, LeadChain DEF LeadInv
  <2>4. b = b_leaf[self]
    <3>1. Height(b) <= Height(b_leaf[self]) /\ Height(b_leaf[self]) <= Height(hqc[self]) + 1
        BY <1>1, LeadChain DEF LeadInv
    <3>2. Height(b) \in Nat /\ Height(b_leaf[self]) \in Nat /\ Height(hqc[self]) \in Nat
        BY <1>1, LeadChain
    <3>3. Height(b) = Height(b_leaf[self])
        BY <2>3, <3>1, <3>2, SMTT(20)
    <3> QED BY <1>1, <3>3, LeadChain, SMTT(20)
  <2>5. hqc'[self] = b /\ b_leaf'[self] = b
    BY <1>1, <2>1, <2>3, SMTT(20) DEF update_hqc, AppInv, IInv, TypeOK
  <2>6. pacer.pc = "wait"
    <3>1. pacer.pc \in {"propose", "wait", "defer"}
        BY Zenon DEF AppInv, CertificateInv
    <3>2. pacer.pc # "propose"
        BY <2>3, <2>4, LeadChain DEF LeadInv
    <3> QED BY <3>1, <3>2, SMTT(20) DEF LeadInv
  <2>7. /\ Blocks' = Blocks
        /\ \A c : Height(c)' = Height(c) /\ Anc(c)' = Anc(c) /\ Justify(c)' = Justify(c)
        /\ \A c : Height(Justify(c))' = Height(Justify(c))
    BY <1>4 DEF Blocks, Height, Anc, Justify
  <2>8. ASSUME NEW c \in Blocks \ {Genesis}
        PROVE  Counted(c)' /\ Height(Justify(c)) <= Height(b)
    <3>1. Justify(c) \in Blocks
        BY TreeFacts DEF AppInv, IInv
    <3>2. /\ Height(Justify(c)) \in Nat /\ Height(b) \in Nat /\ Height(hqc[self]) \in Nat
          /\ Height(c) \in Nat /\ Height(c) <= Height(b) /\ Height(b) <= Height(hqc[self]) + 1
        BY <1>1, <2>4, <3>1, LeadChain, SMTT(20) DEF LeadInv
    <3>3. Height(Justify(c)) <= Height(b)
        BY <2>3, <3>2 DEF LeadInv
    <3>4. CASE Height(c) <= Height(hqc[self])
        BY <1>4, <3>3, <3>4, CountedKept DEF LeadInv
    <3>5. CASE Height(c) > Height(hqc[self])
        <4>1. Height(c) = Height(b)
            BY <2>3, <3>2, <3>5
        <4>2. c = b
            BY <1>1, <4>1, LeadChain, SMTT(20)
        <4> QED BY <2>2, <3>3, <4>2
    <3> QED BY <3>2, <3>4, <3>5
  <2>9. /\ Anc(b_leaf[self])' = Blocks' /\ Height(b_leaf[self])' = Height(b)
        /\ Height(hqc[self])' = Height(b) /\ Height(b) \in Nat
    <3>1. Anc(b) = Blocks /\ Height(b) \in Nat
        BY <1>1, <2>4, LeadChain, SMTT(20) DEF LeadInv
    <3> QED BY <1>4, <2>5, <2>7, <3>1, SMTT(20) DEF Anc, Height
  <2>10. \A c \in Blocks \ {Genesis} : store'[c] = self
    BY <1>4, SMTT(20) DEF LeadInv
  <2>11. /\ ~cancel_wait' /\ pacer'.pc = "wait" /\ pacer'.expected = b /\ user'.pc # "waiting"
    BY <1>4, <2>1, <2>4, <2>6, SMTT(20) DEF LeadInv, vm_vars
  <2> QED BY <1>5, <2>1, <2>4, <2>5, <2>7, <2>8, <2>9, <2>10, <2>11 DEF LeadInv
<1>7. CASE ~(has_quorum(signed(self_qc', o)) /\ ~has_quorum(signed(self_qc, o)))
  <2>1. UNCHANGED <<hqc, b_leaf, latest_new_qc>>
    BY <1>4, <1>7 DEF count_vote
  <2> QED BY <1>4, <1>5, <2>1, LeadFrame, Zenon
<1> QED BY <1>6, <1>7

\* The pacemaker is woken by the certificate it expects.
LEMMA LeadWoken ==
    ASSUME AppInv, AppInv', LeadInv, [AppNext]_all_vars, wait_for_qc
    PROVE  LeadInv' /\ b_leaf'[self] = b_leaf[self]
<1>1. /\ pacer.pc = "wait" /\ latest_new_qc = {b_leaf[self]} /\ pacer.expected = b_leaf[self]
    BY DEF wait_for_qc, LeadInv
<1>2. /\ UNCHANGED <<vars, user, store, self_qc>> /\ ~cancel_wait'
      /\ latest_new_qc' = {} /\ pacer' = [pacer EXCEPT !.pc = "propose"]
    BY <1>1 DEF wait_for_qc, LeadInv, vm_vars
<1>3. pacer'.pc = "propose"
    BY <1>2 DEF AppInv, CertificateInv
<1>4. hqc[self] = b_leaf[self]
  <2>1. Height(b_leaf[self]) <= Height(hqc[self])
    BY <1>1, Zenon DEF AppInv, CertificateInv
  <2>2. /\ Height(hqc[self]) <= Height(b_leaf[self]) /\ Height(hqc[self]) \in Nat
        /\ Height(b_leaf[self]) \in Nat /\ hqc[self] \in Blocks /\ b_leaf[self] \in Blocks
    BY LeadChain
  <2>3. Height(hqc[self]) = Height(b_leaf[self])
    BY <2>1, <2>2
  <2> QED BY <2>2, <2>3, LeadChain, SMTT(20)
<1>5. /\ Blocks' = Blocks /\ UNCHANGED <<hqc, b_leaf, votes>>
      /\ \A c : /\ Height(c)' = Height(c) /\ Anc(c)' = Anc(c) /\ Justify(c)' = Justify(c)
                /\ Height(Justify(c))' = Height(Justify(c)) /\ Counted(c)' = Counted(c)
      /\ Height(b_leaf[self])' = Height(b_leaf[self]) /\ Anc(b_leaf[self])' = Anc(b_leaf[self])
      /\ Height(hqc[self])' = Height(hqc[self])
    BY <1>2 DEF vars, Blocks, Height, Anc, Justify, Counted, signed, has_quorum, nmajority, nfaulty
<1>6. user'.pc = "waiting" => user.pc = "waiting" /\ user'.height = user.height
    BY <1>2
<1> QED BY <1>1, <1>2, <1>3, <1>4, <1>5, <1>6 DEF LeadInv

\* Steps that leave the VM, the tree and b_leaf alone.
LEMMA AheadFrame ==
    ASSUME AppInv, AheadInv, [AppNext]_all_vars, UNCHANGED <<tree, vm_vars>>,
           b_leaf'[self] = b_leaf[self]
    PROVE  AheadInv'
<1>1. PICK p : p = b_leaf[self]
    OBVIOUS
<1>2. p \in Blocks /\ Blocks' = Blocks
    BY <1>1, AppAssumption, SMTT(20) DEF AppInv, IInv, TypeOK, Blocks
<1>3. /\ \A a \in Blocks : Height(a)' = Height(a) /\ Value(a)' = Value(a)
      /\ Height(p)' = Height(p) /\ NextValue(p)' = NextValue(p)
    BY <1>2, ChainStable
<1>4. Height(b_leaf[self])' = Height(p)' /\ NextValue(b_leaf[self])' = NextValue(p)'
    BY <1>1 DEF Height, NextValue, Below, Anc
<1> QED BY <1>1, <1>2, <1>3, <1>4 DEF AheadInv, vm_vars

\* The leader's own VM blocks come back decided: the bridge finds each one at the
\* front of the gadget, and the VM goes on proposing on top of what it has done.
LEMMA AheadVM ==
    ASSUME AppInv, LeadInv, AheadInv,
           apply_next \/ pass_on \/ passed_on \/ vm_thread \/ vm_orders
    PROVE  AheadInv' /\ UNCHANGED <<vars, user>>
<1>1. UNCHANGED <<vars, body>>
    BY DEF apply_next, pass_on, passed_on, vm_thread, vm_orders, app_vars
<1>2. /\ Blocks' = Blocks /\ Height(b_leaf[self])' = Height(b_leaf[self])
      /\ NextValue(b_leaf[self])' = NextValue(b_leaf[self])
      /\ \A a : Height(a)' = Height(a) /\ Value(a)' = Value(a)
    BY <1>1 DEF vars, Blocks, Height, NextValue, Below, Anc, Value
<1> DEFINE top == NextValue(b_leaf[self]) - 1
<1>3. /\ top \in Nat /\ highest_committed \in Nat /\ Len(height_map) \in Nat
      /\ Height(b_leaf[self]) \in Nat
  <2>1. NextValue(b_leaf[self]) \in Nat \ {0}
    BY LeadChain, NextValueType
  <2> QED BY <2>1, LeadChain, GadgetFacts
<1> HIDE DEF top
<1>4. CASE apply_next
  <2>1. PICK c : c = Head(commit_queue)
    BY Zenon
  <2>2. /\ commit_queue # << >> /\ event.pc = "idle" /\ VM!apply_block(Height(c), Value(c))
    BY <1>4, <2>1 DEF apply_next, VM!apply_block
  <2>3. c \in Blocks /\ Height(c) = highest_committed + 1
    BY <2>1, <2>2, NextDecided
  <2>4. Height(c) <= Height(b_leaf[self]) /\ Height(b_leaf[self]) = highest_committed + Len(height_map)
    BY <2>3, LeadChain DEF AheadInv
  <2>5. Len(height_map) # 0 /\ 1 \in 1..Len(height_map)
    BY <1>3, <2>3, <2>4
  <2>6. height_map # << >> /\ Head(height_map) = height_map[1]
    <3>1. PICK S : height_map \in Seq(S)
        BY GadgetFacts
    <3> QED BY <2>5, <3>1, HeadFirst
  <2>7. height_map[1].id = Value(c)
    BY <2>3, <2>5 DEF AheadInv
  <2>8. /\ event' = [pc |-> "notify", height |-> Height(c), id |-> Value(c)]
        /\ UNCHANGED <<height_map, highest_committed, blocks_to_validate, proposal_buffer, state, user>>
    BY <2>2, <2>6, <2>7 DEF VM!apply_block, VM!gadget, VM!control, VM!machine
  <2>9. event'.pc = "notify"
    BY <2>8
  <2> QED BY <1>1, <1>2, <2>8, <2>9 DEF AheadInv
<1>5. CASE VM!on_commit_hotstuff
  <2>1. event.pc = "notify" /\ height_map # << >> /\ event.height = highest_committed + 1
    BY <1>5, Zenon DEF VM!on_commit_hotstuff, AppInv, VM!IInv, VM!CommitPending
  <2>2. PICK S : height_map \in Seq(S)
    BY GadgetFacts
  <2>3. Head(height_map) = height_map[1] /\ 1 \in 1..Len(height_map)
    BY <2>1, <2>2, HeadFirst
  <2>4. VM!CommitFits(event.height)
    BY <2>1, <2>3, GadgetFacts DEF VM!CommitFits
  <2>5. /\ event' = [event EXCEPT !.pc = "wait", !.id = Head(height_map).id]
        /\ height_map' = Tail(height_map) /\ highest_committed' = highest_committed + 1
        /\ UNCHANGED <<blocks_to_validate, proposal_buffer, state, user>>
    BY <1>5, <2>1, <2>4 DEF VM!on_commit_hotstuff, VM!control, VM!machine
  <2>6. event'.pc = "wait"
    BY <2>5, Zenon DEF AppInv, VM!IInv, VM!TypeOK, VM!ThreadType
  <2>7. /\ Len(height_map') = Len(height_map) - 1
        /\ \A i \in 1..Len(height_map') : height_map'[i] = height_map[i + 1] /\ i + 1 \in 1..Len(height_map)
    BY <2>1, <2>2, <2>5, TailType
  <2>8. Height(b_leaf[self]) = highest_committed' + Len(height_map')
    <3>1. Height(b_leaf[self]) = highest_committed + Len(height_map)
        BY DEF AheadInv
    <3>2. highest_committed' = highest_committed + 1 /\ Len(height_map') = Len(height_map) - 1
        BY <2>5, <2>7
    <3> QED BY <1>3, <3>1, <3>2
  <2>9. ASSUME NEW i \in 1..Len(height_map'), NEW a \in Blocks, Height(a) = highest_committed' + i
        PROVE  height_map'[i].id = Value(a)
    <3>1. Height(a) = highest_committed + (i + 1) /\ i + 1 \in 1..Len(height_map)
        BY <1>3, <2>5, <2>7, <2>9, SMTT(20)
    <3> QED BY <2>7, <3>1 DEF AheadInv
  <2> QED BY <1>1, <1>2, <2>5, <2>6, <2>8, <2>9 DEF AheadInv
<1>6. CASE VM!wait_for_async_task \/ VM!log_commitment
  <2>1. /\ event'.pc \in {"log", "idle"}
        /\ UNCHANGED <<height_map, highest_committed, blocks_to_validate, proposal_buffer, state, user>>
    BY <1>6, Zenon DEF VM!wait_for_async_task, VM!log_commitment, VM!gadget, VM!control, VM!machine,
                AppInv, VM!IInv, VM!TypeOK, VM!ThreadType
  <2> QED BY <1>1, <1>2, <2>1 DEF AheadInv
<1>7. CASE vm_orders
  <2>1. UNCHANGED <<height_map, highest_committed, blocks_to_validate, proposal_buffer, state, user, event>>
    BY <1>7 DEF vm_orders, VM!put_vm_in_proposer_mode, VM!stop_proposals, VM!gadget, VM!machine,
                VM!threads
  <2> QED BY <1>1, <1>2, <2>1 DEF AheadInv
<1>8. CASE VM!run
  <2>1. blocks_to_validate = << >> /\ state \in Nat /\ proposal_buffer \in Seq(Nat) /\ requests \in Nat
    <3>1. BufferTarget \in Nat /\ requests \in 0..BufferTarget /\ proposal_buffer \in Seq(Nat)
          /\ state \in Nat
        BY ValueFacts
    <3> QED BY <3>1 DEF AheadInv
  <2>2. /\ blocks_to_validate' = << >> /\ UNCHANGED <<height_map, highest_committed, user, event>>
        /\ requests > 0 => state' = state + 1 /\ proposal_buffer' = Append(proposal_buffer, state + 1)
        /\ requests = 0 => UNCHANGED <<state, proposal_buffer>>
    BY <1>8, <2>1, RunFacts
  <2>3. state = top + Len(proposal_buffer)
        /\ \A i \in 1..Len(proposal_buffer) : proposal_buffer[i] = top + i
    BY DEF AheadInv, top
  <2>4. state' = top + Len(proposal_buffer')
        /\ \A i \in 1..Len(proposal_buffer') : proposal_buffer'[i] = top + i
    <3>1. CASE requests = 0
        BY <2>2, <2>3, <3>1
    <3>2. CASE requests > 0
        <4>1. state' = state + 1 /\ proposal_buffer' = Append(proposal_buffer, state + 1)
            BY <2>2, <3>2
        <4>2. /\ Len(proposal_buffer') = Len(proposal_buffer) + 1 /\ Len(proposal_buffer) \in Nat
              /\ \A i \in 1..Len(proposal_buffer) : proposal_buffer'[i] = proposal_buffer[i]
              /\ proposal_buffer'[Len(proposal_buffer) + 1] = state + 1
            BY <2>1, <4>1, AppendType
        <4> QED BY <1>3, <2>3, <4>1, <4>2
    <3> QED BY <2>1, <3>1, <3>2
  <2> QED BY <1>1, <1>2, <2>2, <2>4 DEF AheadInv, top
<1>9. ~VM!submit_block_for_exec
    BY DEF AheadInv, VM!submit_block_for_exec
<1> QED BY <1>4, <1>5, <1>6, <1>7, <1>8, <1>9 DEF pass_on, passed_on, vm_thread

\* The only leader's VM stays ahead of what it proposed by what is buffered.
LEMMA LeadStep ==
    ASSUME FaultsTolerated, AppInv, AppInv', [AppNext]_all_vars, Proposers = {self}, Pacing = "wait",
           BodyOrder, LeadInv, AheadInv
    PROVE  BodyOrder' /\ LeadInv' /\ AheadInv'
<1>1. CASE do_propose_next \/ do_empty_propose \/ finish_propose
  <2>1. /\ pacer.pc = "propose" /\ UNCHANGED <<highest_committed, blocks_to_validate, state, event>>
    BY <1>1, LeadProposes
  <2>2. CASE /\ UNCHANGED <<vars, app_vars, height_map, proposal_buffer>>
             /\ user'.pc = "waiting" /\ user'.height = Height(b_leaf[self]) + 1
    <3>1. UNCHANGED <<tree, store, cancel_wait, latest_new_qc, pacer, self_qc, hqc, b_leaf, votes, body>>
        BY <2>2 DEF vars, app_vars
    <3>2. BodyOrder'
        BY <3>1, OrderKept
    <3>3. LeadInv'
        <4>1. \A v \in votes' : v.block # Genesis
            BY <3>1, SMTT(20) DEF LeadInv
        <4> QED BY <2>1, <2>2, <3>1, <4>1, LeadFrame, SMTT(20)
    <3>4. /\ Blocks' = Blocks /\ Height(b_leaf[self])' = Height(b_leaf[self])
          /\ NextValue(b_leaf[self])' = NextValue(b_leaf[self])
          /\ \A a : Height(a)' = Height(a) /\ Value(a)' = Value(a)
        BY <3>1 DEF Blocks, Height, NextValue, Below, Anc, Value
    <3>5. AheadInv'
        BY <2>1, <2>2, <3>4 DEF AheadInv
    <3> QED BY <3>2, <3>3, <3>5
  <2>3. ASSUME NEW x \in VM!VMBlockID, mint(x), user'.pc = "idle",
               height_map' = Append(height_map, [height |-> Height(b_leaf[self]) + 1, id |-> x]),
               \/ x = VM!NoBlock /\ UNCHANGED proposal_buffer
               \/ /\ proposal_buffer # << >> /\ x = Head(proposal_buffer)
                  /\ proposal_buffer' = Tail(proposal_buffer)
        PROVE  BodyOrder' /\ LeadInv' /\ AheadInv'
    <3>1. x \in {VM!NoBlock, NextValue(b_leaf[self])} /\ AheadInv'
        BY <2>1, <2>3, AheadMint
    <3>2. LeadInv'
        BY <2>1, <2>3, <3>1, LeadMint, SMTT(20)
    <3>3. BodyOrder'
        <4>1. do_propose(self, x) /\ record(Hash(b_leaf[self], hqc[self], x), x) /\ self \in Replica
            BY <2>3, AppAssumption DEF mint
        <4> QED BY <3>1, <4>1, OrderMinted, SMTT(20)
    <3> QED BY <3>1, <3>2, <3>3
  <2> QED BY <1>1, <2>2, <2>3, LeadProposes, Zenon
<1>2. CASE own_event \/ peer_event
  <2>1. BodyOrder' /\ UNCHANGED <<tree, vm_vars>>
    BY <1>2, HandlerKeepsTree, OrderKept
  <2>2. ASSUME NEW m \in proposals, handle_proposal(m) PROVE LeadInv' /\ b_leaf'[self] = b_leaf[self]
    BY <2>2, LeadHandles
  <2>3. ASSUME NEW b, NEW voter, handle_vote(b, voter),
               [voter |-> voter, block |-> b, to |-> self] \in votes
        PROVE  LeadInv' /\ b_leaf'[self] = b_leaf[self]
    BY <2>3, LeadCounts
  <2>4. CASE own_event
    <3>1. CASE Head(events).op = "proposal"
        <4>1. PICK m : m = [block |-> Head(events).block, proposer |-> self]
            BY Zenon
        <4>2. m \in proposals
            BY <2>4, <3>1, <4>1, FirstEvent, SMTT(20) DEF own_event
        <4>3. handle_proposal(m)
            BY <2>4, <3>1, <4>1, SMTT(20) DEF own_event
        <4> QED BY <2>1, <2>2, <4>2, <4>3, AheadFrame
    <3>2. CASE Head(events).op = "vote"
        <4>1. handle_vote(Head(events).block, self)
            BY <2>4, <3>2, Zenon DEF own_event
        <4> QED BY <2>1, <2>3, <2>4, <3>2, <4>1, FirstEvent, AheadFrame DEF own_event
    <3> QED BY <2>4, <3>1, <3>2 DEF own_event
  <2>5. CASE peer_event
    <3>1. ASSUME NEW v \in votes, v.to = self, handle_vote(v.block, v.voter)
          PROVE  LeadInv' /\ b_leaf'[self] = b_leaf[self]
        <4>1. v = [voter |-> v.voter, block |-> v.block, to |-> self]
            BY <3>1, Zenon DEF AppInv, IInv, TypeOK
        <4> QED BY <2>3, <3>1, <4>1, SMTT(20)
    <3>2. LeadInv' /\ b_leaf'[self] = b_leaf[self]
        BY <2>2, <2>5, <3>1, SMTT(20) DEF peer_event
    <3> QED BY <2>1, <3>2, AheadFrame, Zenon
  <2> QED BY <1>2, <2>4, <2>5
<1>3. ASSUME NEW r \in Replica \ {self}, peer(r) PROVE BodyOrder' /\ LeadInv' /\ AheadInv'
  <2>1. /\ hqc'[self] = hqc[self] /\ b_leaf'[self] = b_leaf[self]
        /\ UNCHANGED <<vm_vars, store, self_qc, latest_new_qc, cancel_wait, pacer>>
    BY <1>3, PeerKeepsSelf, Zenon DEF peer
  <2>2. UNCHANGED tree /\ \A v \in votes' : v.block # Genesis
    <3>1. ASSUME NEW m \in proposals, on_receive_proposal(r, m)
          PROVE  UNCHANGED tree /\ \A v \in votes' : v.block # Genesis
        BY <3>1, VoteAbove, Zenon DEF on_receive_proposal, LeadInv
    <3>2. ASSUME NEW b \in Blocks, on_receive_vote(r, b)
          PROVE  UNCHANGED tree /\ \A v \in votes' : v.block # Genesis
        BY <3>2, Zenon DEF on_receive_vote, network, LeadInv
    <3>3. ASSUME NEW x, do_propose(r, x) PROVE FALSE
        BY <3>3, SMTT(20) DEF do_propose
    <3> QED BY <1>3, <3>1, <3>2, <3>3, Zenon DEF peer
  <2>3. user'.pc = "waiting" => pacer.pc = "propose" /\ user'.height = Height(b_leaf[self]) + 1
    BY <2>1, Zenon DEF LeadInv, vm_vars
  <2> QED BY <2>1, <2>2, <2>3, OrderKept, LeadFrame, AheadFrame, SMTT(20)
<1>4. CASE wait_for_qc
  <2>1. UNCHANGED <<tree, vm_vars>>
    BY <1>4 DEF wait_for_qc, vars
  <2> QED BY <1>4, <2>1, OrderKept, LeadWoken, AheadFrame, Zenon
<1>5. ~cancel_wait_for_new_qc /\ ~get_last_proposer /\ ~set_self_as_proposer
    BY SMTT(20) DEF cancel_wait_for_new_qc, get_last_proposer, set_self_as_proposer, LeadInv
<1>6. ASSUME NEW m \in proposals, network_event(m) PROVE FALSE
  <2>1. m.block \in Blocks
    BY Zenon DEF AppInv, IInv, TypeOK
  <2> QED BY <1>6, <2>1, LeadChain, Zenon DEF network_event
<1>7. CASE apply_next \/ pass_on \/ passed_on \/ vm_thread \/ vm_orders
  <2>1. AheadInv' /\ UNCHANGED <<vars, user>>
    BY <1>7, AheadVM
  <2>2. UNCHANGED <<tree, hqc, b_leaf, votes, store, cancel_wait, latest_new_qc, pacer, self_qc>>
    BY <1>7, <2>1, SMTT(20) DEF apply_next, pass_on, passed_on, vm_thread, vm_orders, app_vars, vars
  <2>3. /\ \A v \in votes' : v.block # Genesis
        /\ user'.pc = "waiting" => pacer.pc = "propose" /\ user'.height = Height(b_leaf[self]) + 1
    BY <2>1, <2>2, Zenon DEF LeadInv
  <2> QED BY <2>1, <2>2, <2>3, OrderKept, LeadFrame, Zenon
<1>8. CASE UNCHANGED all_vars
  <2>1. UNCHANGED <<tree, hqc, b_leaf, votes, store, cancel_wait, latest_new_qc, pacer, self_qc, user, vm_vars>>
    BY <1>8, SMTT(20) DEF all_vars, vars, app_vars, vm_vars
  <2>2. /\ \A v \in votes' : v.block # Genesis
        /\ user'.pc = "waiting" => pacer.pc = "propose" /\ user'.height = Height(b_leaf[self]) + 1
    BY <2>1, Zenon DEF LeadInv
  <2>3. AheadInv'
    BY <2>1, AheadFrame, Zenon
  <2> QED BY <2>1, <2>2, <2>3, OrderKept, LeadFrame, Zenon
<1> QED BY <1>1, <1>2, <1>3, <1>4, <1>5, <1>6, <1>7, <1>8 DEF AppNext

-----------------------------------------------------------------------------
(* The bridge's invariant, from VMBridgeProofs *)

Bridge == INSTANCE VMBridgeProofs WITH TopHeight <- MaxHeight

\* The two instances of VMBridge are one.
LEMMA SameInvariant == VM!IInv <=> Bridge!IInv
BY DEF VM!IInv, VM!TypeOK, VM!GadgetType, VM!ControlType, VM!MachineType, VM!ThreadType,
       VM!SpeculationContiguous, VM!NeverThrows, VM!BufferBounded, VM!LockDiscipline,
       VM!CommitPending, VM!NoBlock,
       Bridge!IInv, Bridge!TypeOK, Bridge!GadgetType, Bridge!ControlType,
       Bridge!MachineType, Bridge!ThreadType, Bridge!SpeculationContiguous,
       Bridge!NeverThrows, Bridge!BufferBounded, Bridge!LockDiscipline,
       Bridge!CommitPending, Bridge!NoBlock

LEMMA SameNext == [VM!Next]_(VM!vars) <=> [Bridge!Next]_(Bridge!vars)
<1>1. VM!vars = Bridge!vars
    BY DEF VM!vars, VM!gadget, VM!control, VM!machine, VM!threads,
           Bridge!vars, Bridge!gadget, Bridge!control, Bridge!machine, Bridge!threads
<1>2. VM!Next <=> Bridge!Next
    BY DEF VM!Next, VM!gadget, VM!control, VM!machine, VM!threads, VM!NoBlock, VM!VMBlockID,
           VM!add_height_pair, VM!CommitFits, VM!exists_work_to_do, VM!exec_block, VM!ExecTrace,
           VM!pass_commitment, VM!make_proposal, VM!run, VM!put_vm_in_proposer_mode,
           VM!stop_proposals, VM!make_empty_proposal, VM!refill, VM!take_proposal,
           VM!await_proposal, VM!get_and_apply_next_proposal, VM!got_proposal, VM!apply_block,
           VM!submit_block_for_exec, VM!on_commit_hotstuff, VM!wait_for_async_task,
           VM!log_commitment,
           Bridge!Next, Bridge!gadget, Bridge!control, Bridge!machine, Bridge!threads,
           Bridge!NoBlock, Bridge!VMBlockID,
           Bridge!add_height_pair, Bridge!CommitFits, Bridge!exists_work_to_do,
           Bridge!exec_block, Bridge!ExecTrace, Bridge!pass_commitment, Bridge!make_proposal,
           Bridge!run, Bridge!put_vm_in_proposer_mode, Bridge!stop_proposals,
           Bridge!make_empty_proposal, Bridge!refill, Bridge!take_proposal,
           Bridge!await_proposal, Bridge!get_and_apply_next_proposal, Bridge!got_proposal,
           Bridge!apply_block, Bridge!submit_block_for_exec, Bridge!on_commit_hotstuff,
           Bridge!wait_for_async_task, Bridge!log_commitment
<1>3. UNCHANGED VM!vars <=> UNCHANGED Bridge!vars
    BY DEF VM!vars, VM!gadget, VM!control, VM!machine, VM!threads,
           Bridge!vars, Bridge!gadget, Bridge!control, Bridge!machine, Bridge!threads
<1> QED BY <1>2, <1>3

\* Every step of the bridge keeps its invariant.
LEMMA BridgeStep == VM!IInv /\ [VM!Next]_(VM!vars) => VM!IInv'
<1>1. Bridge!BridgeAssumption
    BY AppAssumption, ConstantsAssumption DEF Bridge!BridgeAssumption
<1>2. Bridge!IInv /\ [Bridge!Next]_(Bridge!vars) => Bridge!IInv'
    BY <1>1, Bridge!StepIInv DEF Bridge!StepIInv
<1>3. VM!IInv' <=> Bridge!IInv'
    BY SameInvariant, PTL
<1> QED BY <1>2, <1>3, SameInvariant, SameNext

\* A bridge that starts with nothing decided starts as a bridge may.
LEMMA BridgeInit == VM!InitAt(0, 0) => VM!Init /\ VM!IInv
<1>1. VM!InitAt(0, 0) => VM!Init
    BY ConstantsAssumption DEF VM!Init
<1>2. Bridge!BridgeAssumption
    BY AppAssumption, ConstantsAssumption DEF Bridge!BridgeAssumption
<1>3. Bridge!Init => Bridge!IInv
    BY <1>2, Bridge!InitIInv DEF Bridge!InitIInv
<1>4. VM!Init <=> Bridge!Init
    BY DEF VM!Init, VM!InitAt, VM!NoBlock, Bridge!Init, Bridge!InitAt, Bridge!NoBlock
<1> QED BY <1>1, <1>3, <1>4, SameInvariant

-----------------------------------------------------------------------------
(* The whole replica *)

\* A fresh replica satisfies the invariant.
LEMMA AppInitInv == AppInit => AppInv
<1> SUFFICES ASSUME AppInit PROVE AppInv
    OBVIOUS
<1>1. IInv
    BY IInvInit DEF AppInit
<1>2. VM!IInv
    BY BridgeInit DEF AppInit
<1> QED BY <1>1, <1>2, FreshReplica DEF AppInv

\* No step of self or of a peer breaks the invariant.
LEMMA AppInvStep ==
    ASSUME FaultsTolerated, VHeightWide
    PROVE  AppInv /\ [AppNext]_all_vars => AppInv'
<1> SUFFICES ASSUME AppInv, [AppNext]_all_vars
             PROVE  AppInv'
    OBVIOUS
<1>1. IInv /\ VM!IInv
    BY DEF AppInv
<1>2. IInv'
    BY <1>1, CoreStep, InvariantStep
<1>3. VM!IInv'
    BY <1>1, BridgeUsed, BridgeStep
<1>4. BodyType' /\ MessageInv' /\ QueueInv'
    BY BodyStep, MessageStep, QueueStep
<1>5. OwnInv' /\ StoreComplete' /\ CertificateInv' /\ ValueInv'
    BY OwnStep, StoreStep, CertificateStep, ValueStep
<1> QED BY <1>2, <1>3, <1>4, <1>5 DEF AppInv

\* The invariant of the whole replica, whatever the interleaving of its application
\* thread, event thread, network-event thread and VM thread with the other replicas.
THEOREM AppInvariance == FaultsTolerated /\ VHeightWide => (AppSpec => []AppInv)
<1> SUFFICES ASSUME FaultsTolerated, VHeightWide
             PROVE  AppSpec => []AppInv
    OBVIOUS
<1>1. AppInv /\ [AppNext]_all_vars => AppInv'
    BY AppInvStep
<1> QED BY AppInitInv, <1>1, PTL DEF AppSpec

\* HotstuffApp implements HotstuffCore: do_propose with its VM block, the replica's
\* own messages looped back through the event queue, and the votes counted block
\* object by block object are steps of the core, and nothing else touches it.
THEOREM AppImplementsCore == FaultsTolerated /\ VHeightWide => (AppSpec => ImplementsCore)
<1> SUFFICES ASSUME FaultsTolerated, VHeightWide
             PROVE  AppSpec => ImplementsCore
    OBVIOUS
<1>1. AppInit => Init
    BY DEF AppInit
<1>2. AppInv /\ [AppNext]_all_vars => [Next]_vars
    BY CoreStep
<1>3. AppSpec => []AppInv
    BY AppInvariance
<1> QED BY <1>1, <1>2, <1>3, PTL DEF AppSpec, ImplementsCore, Spec

\* HotstuffApp implements VMBridge: consensus decides height by height, notifies
\* right after applying, and asks for proposals only above the committed height, so
\* that what is proved of the bridge holds in the replica it is part of.
THEOREM AppImplementsBridge == FaultsTolerated /\ VHeightWide => (AppSpec => ImplementsBridge)
<1> SUFFICES ASSUME FaultsTolerated, VHeightWide
             PROVE  AppSpec => ImplementsBridge
    OBVIOUS
<1>1. AppInit => VM!Init
    BY BridgeInit DEF AppInit
<1>2. AppInv /\ [AppNext]_all_vars => [VM!Next]_(VM!vars)
    BY BridgeUsed
<1>3. AppSpec => []AppInv
    BY AppInvariance
<1> QED BY <1>1, <1>2, <1>3, PTL DEF AppSpec, ImplementsBridge, VM!Spec

\* No handler of the replica misses a block in the BlockStore.
THEOREM StoreCompleteHolds == FaultsTolerated /\ VHeightWide => (AppSpec => []StoreComplete)
<1> SUFFICES ASSUME FaultsTolerated, VHeightWide
             PROVE  AppSpec => []StoreComplete
    OBVIOUS
<1>1. AppInv => StoreComplete
    BY DEF AppInv
<1>2. AppSpec => []AppInv
    BY AppInvariance
<1> QED BY <1>1, <1>2, PTL

\* wait_for_qc reports success only for a certificate the core holds, or one below
\* it: stale announcements and cancelled waits do not mislead the pacemaker.
THEOREM CertifiedWhenWokenHolds ==
    FaultsTolerated /\ VHeightWide => (AppSpec => CertifiedWhenWoken)
<1> SUFFICES ASSUME FaultsTolerated, VHeightWide
             PROVE  AppSpec => CertifiedWhenWoken
    OBVIOUS
<1> DEFINE Woken == pacer.pc = "wait" /\ pacer'.pc = "propose" =>
                        Height(hqc[self]) >= Height(pacer.expected)
<1>1. AppInv /\ [AppNext]_all_vars => [Woken]_all_vars
    BY WokenStep
<1>2. AppSpec => []AppInv
    BY AppInvariance
<1> QED BY <1>1, <1>2, PTL DEF AppSpec, CertifiedWhenWoken

\* So the whole replica, with its threads, its event queue and its VM, never decides
\* differently from another, appends to one log, and its bridge neither throws nor
\* runs further ahead than configured.
THEOREM ReplicaSafe ==
    FaultsTolerated /\ VHeightWide =>
        (AppSpec => [](Agreement /\ VM!NeverThrows /\ VM!BufferBounded) /\ ImplementsLog)
<1> SUFFICES ASSUME FaultsTolerated, VHeightWide
             PROVE  AppSpec => [](Agreement /\ VM!NeverThrows /\ VM!BufferBounded) /\ ImplementsLog
    OBVIOUS
<1>1. AppSpec => Spec
    BY AppImplementsCore DEF ImplementsCore
<1>2. Spec => []Agreement
    BY AgreementHolds
<1>3. Spec => ImplementsLog
    BY Refinement
<1>4. AppInv => VM!NeverThrows /\ VM!BufferBounded
    BY DEF AppInv, VM!IInv
<1>5. AppSpec => []AppInv
    BY AppInvariance
<1> QED BY <1>1, <1>2, <1>3, <1>4, <1>5, PTL

-----------------------------------------------------------------------------
(* The VM in step with consensus *)

\* A fresh replica is in sync.
LEMMA SyncInit == AppInit => SyncInv
<1> SUFFICES ASSUME AppInit PROVE SyncInv
    OBVIOUS
<1>1. AppInv
    BY AppInitInv
<1> QED BY <1>1, FreshVM DEF SyncInv

\* No thread of the replica and no peer takes the VM out of step.
LEMMA SyncStep ==
    ASSUME FaultsTolerated, VHeightWide
    PROVE  SyncInv /\ [AppNext]_all_vars => SyncInv'
<1> SUFFICES ASSUME SyncInv, [AppNext]_all_vars PROVE SyncInv'
    OBVIOUS
<1>1. AppInv /\ AppInv'
    BY AppInvStep DEF SyncInv
<1>2. ASSUME Follows PROVE FollowInv'
    BY <1>1, <1>2, FollowStep DEF SyncInv, Follows
<1>3. ASSUME LeadsAlone PROVE BodyOrder' /\ LeadInv' /\ AheadInv'
    BY <1>1, <1>3, LeadStep DEF SyncInv, LeadsAlone
<1>4. (Follows' <=> Follows) /\ (LeadsAlone' <=> LeadsAlone)
    BY DEF Follows, LeadsAlone
<1> QED BY <1>1, <1>2, <1>3, <1>4 DEF SyncInv

\* The VM, the gadget and the chain fit together in every reachable state: for a
\* replica that only follows, whatever bodies the peers propose, and for one that
\* leads alone and waits for the certificate of each block.
THEOREM SyncInvariance == FaultsTolerated /\ VHeightWide => (AppSpec => []SyncInv)
<1> SUFFICES ASSUME FaultsTolerated, VHeightWide PROVE AppSpec => []SyncInv
    OBVIOUS
<1>1. AppInit => SyncInv
    BY SyncInit
<1>2. SyncInv /\ [AppNext]_all_vars => SyncInv'
    BY SyncStep
<1> QED BY <1>1, <1>2, PTL DEF AppSpec

\* VMInSync: whatever the interleaving of consensus, the application thread and the
\* VM thread, the VM of a leader that is alone and waits has executed what it
\* proposed and buffered, in order and each block exactly once.
THEOREM VMInSyncHolds ==
    FaultsTolerated /\ VHeightWide /\ LeadsAlone => (AppSpec => []VMInSync)
<1> SUFFICES ASSUME FaultsTolerated, VHeightWide, LeadsAlone PROVE AppSpec => []VMInSync
    OBVIOUS
<1>1. AppInit => SyncInv
    BY SyncInit
<1>2. SyncInv /\ [AppNext]_all_vars => SyncInv'
    BY SyncStep
<1>3. SyncInv => VMInSync
    BY LeaderInSync
<1> QED BY <1>1, <1>2, <1>3, PTL DEF AppSpec

\* VMReplays: whatever values the peers propose and however the threads interleave,
\* a follower's VM with no work waiting has made exactly the exec_block calls that
\* the decided bodies ask for, one per height and in height order.
THEOREM VMReplaysHolds ==
    FaultsTolerated /\ VHeightWide /\ Follows => (AppSpec => []VMReplays)
<1> SUFFICES ASSUME FaultsTolerated, VHeightWide, Follows PROVE AppSpec => []VMReplays
    OBVIOUS
<1>1. AppInit => SyncInv
    BY SyncInit
<1>2. SyncInv /\ [AppNext]_all_vars => SyncInv'
    BY SyncStep
<1>3. SyncInv => VMReplays
    BY FollowerReplays
<1> QED BY <1>1, <1>2, <1>3, PTL DEF AppSpec

=============================================================================
