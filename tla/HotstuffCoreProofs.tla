------------------------- MODULE HotstuffCoreProofs -------------------------
(***************************************************************************)
(* Proofs about HotstuffCore: quorums and the block tree; why whatever is  *)
(* certified above a committed block extends it; the inductive invariant   *)
(* of the core and what follows from it; HotstuffCore implements           *)
(* ReplicatedLog.                                                          *)
(***************************************************************************)
EXTENDS HotstuffCore, FiniteSetTheorems, WellFoundedInduction, TLAPS

-----------------------------------------------------------------------------
(* Facts about single steps *)

\* The pointers of a replica are blocks, and so is what a proposal carries.
LEMMA PointerTypes ==
    ASSUME TypeOK
    PROVE  /\ hqc \in [Replica -> Blocks] /\ b_leaf \in [Replica -> Blocks]
           /\ b_lock \in [Replica -> Blocks] /\ b_exec \in [Replica -> Blocks]
           /\ decided \in [Replica -> SUBSET Blocks]
           /\ \A m \in proposals : m.block \in Blocks
BY DEF TypeOK

\* What a freshly minted block says (do_propose, mint_block).
LEMMA MintedBlock ==
    ASSUME NEW r, NEW x, NEW b, b = Hash(b_leaf[r], hqc[r], x), b \notin Blocks,
           do_propose(r, x)
    PROVE  /\ Parent(b)' = b_leaf[r] /\ Justify(b)' = hqc[r]
           /\ Height(b)' = Height(b_leaf[r]) + 1 /\ Anc(b)' = Anc(b_leaf[r]) \cup {b}
<1>1. tree'[b] = mint_block(b_leaf[r], hqc[r], b)
    BY DEF do_propose
<1> QED BY <1>1 DEF Parent, Justify, Height, Anc, mint_block

\* A block that is minted again has the height it had.
LEMMA MintedAgain ==
    ASSUME NEW r, NEW x, NEW b, b = Hash(b_leaf[r], hqc[r], x), b \in Blocks,
           do_propose(r, x)
    PROVE  Height(b) = Height(b_leaf[r]) + 1
BY DEF do_propose, mint_block, Height

\* A height survives its conversion to vheight, or becomes smaller.
LEMMA TruncatedHeight ==
    ASSUME NEW h \in 0..MaxHeight
    PROVE  h % VHeightModulus \in 0..MaxHeight
<1>1. VHeightModulus \in Nat /\ VHeightModulus > 0 /\ h \in Nat
    BY ConstantsAssumption
<1>2. h % VHeightModulus \in 0..h
    BY <1>1, SMT
<1> QED BY <1>1, <1>2, ConstantsAssumption

\* A height that fits vheight is stored unchanged.
LEMMA WideHeight ==
    ASSUME VHeightWide, NEW h \in 0..MaxHeight
    PROVE  h % VHeightModulus = h
<1>1. VHeightModulus \in Nat /\ h \in Nat /\ h < VHeightModulus
    BY ConstantsAssumption DEF VHeightWide
<1> QED BY <1>1, SMT

\* The update() part of a handler, by what it leaves each pointer at.
LEMMA UpdateType ==
    ASSUME TypeOK, NEW r \in Replica, NEW n \in Blocks, update(r, n)
    PROVE  /\ hqc' \in [Replica -> Blocks]
           /\ b_leaf' \in [Replica -> Blocks]
           /\ b_lock' \in [Replica -> Blocks]
           /\ b_exec' \in [Replica -> Blocks]
           /\ decided' \in [Replica -> SUBSET Blocks]
           /\ disk' \in [Replica -> SUBSET Blocks]
           /\ halted' \subseteq Replica
<1> DEFINE b2 == Justify(n)
           b1 == Justify(b2)
           b0 == Justify(b1)
<1>1. \A b \in Blocks : Justify(b) \in Blocks /\ Anc(b) \subseteq Blocks
    BY DEF TypeOK, Justify, Anc
<1>2. b2 \in Blocks /\ b1 \in Blocks /\ b0 \in Blocks
    BY <1>1
<1>3. hqc' \in [Replica -> Blocks] /\ b_leaf' \in [Replica -> Blocks]
    BY <1>2 DEF TypeOK, update, update_hqc
<1>4. b_lock' \in [Replica -> Blocks] /\ disk' \in [Replica -> SUBSET Blocks]
  <2>1. CASE Locks(r, n)
    <3> DEFINE top == IF Height(b1) > Height(b_lock[r]) THEN b1 ELSE b_lock[r]
    <3>1. top \in Blocks
        BY <1>2 DEF TypeOK
    <3>2. b_lock' = [b_lock EXCEPT ![r] = top] /\ disk' = [disk EXCEPT ![r] = @ \cup Anc(top)]
        BY <2>1 DEF update, lock
    <3> HIDE DEF top
    <3> QED BY <3>1, <3>2, <1>1 DEF TypeOK
  <2>2. CASE ~Locks(r, n)
    BY <2>2 DEF TypeOK, update, lock
  <2> QED BY <2>1, <2>2
<1>5. /\ b_exec' \in [Replica -> Blocks] /\ decided' \in [Replica -> SUBSET Blocks]
      /\ halted' \subseteq Replica
  <2>1. CASE Commits(r, n) /\ b_exec[r] \in Anc(b0)
    <3>1. /\ decided' = [decided EXCEPT ![r] = @ \cup Anc(b0)]
          /\ b_exec' = [b_exec EXCEPT ![r] = b0]
          /\ halted' = halted
        BY <2>1 DEF update, commit
    <3> QED BY <3>1, <1>1, <1>2 DEF TypeOK
  <2>2. CASE ~(Commits(r, n) /\ b_exec[r] \in Anc(b0))
    BY <2>2 DEF TypeOK, update, commit
  <2> QED BY <2>1, <2>2
<1> QED BY <1>3, <1>4, <1>5

\* Blocks are immutable and votes are never withdrawn.
LEMMA StepStable ==
    ASSUME TypeOK, [Next]_vars
    PROVE  /\ Blocks \subseteq Blocks'
           /\ \A b \in Blocks : tree'[b] = tree[b]
           /\ votes \subseteq votes'
<1>1. CASE UNCHANGED vars
    BY <1>1 DEF vars, Blocks
<1>2. ASSUME NEW r \in Replica, NEW x \in Body, do_propose(r, x)
      PROVE  /\ Blocks \subseteq Blocks'
             /\ \A b \in Blocks : tree'[b] = tree[b]
             /\ votes \subseteq votes'
    BY <1>2 DEF do_propose, Blocks
<1>3. CASE UNCHANGED tree /\ votes \subseteq votes'
    BY <1>3 DEF Blocks
<1>4. ASSUME NEW r \in Replica, NEW m \in proposals, on_receive_proposal(r, m)
      PROVE  UNCHANGED tree /\ votes \subseteq votes'
    BY <1>4 DEF on_receive_proposal, do_vote
<1>5. ASSUME NEW r \in Replica, NEW b \in Blocks, on_receive_vote(r, b)
      PROVE  UNCHANGED tree /\ votes \subseteq votes'
    BY <1>5 DEF on_receive_vote, network
<1>6. ASSUME NEW r \in Replica, reload_state_from_index(r)
      PROVE  UNCHANGED tree /\ votes \subseteq votes'
    BY <1>6 DEF reload_state_from_index, network
<1> QED BY <1>1, <1>2, <1>3, <1>4, <1>5, <1>6 DEF Next

\* Every handler of consensus.cc, do_propose and a restart keep the types.
LEMMA TypeStep ==
    ASSUME TypeOK, [Next]_vars
    PROVE  TypeOK'
<1>1. CASE UNCHANGED vars
    BY <1>1 DEF vars, TypeOK, Blocks
<1>2. ASSUME NEW r \in Replica, NEW x \in Body, do_propose(r, x)
      PROVE  TypeOK'
  <2> DEFINE b == Hash(b_leaf[r], hqc[r], x)
             p == b_leaf[r]
             j == hqc[r]
  <2>1. p \in Blocks /\ j \in Blocks /\ Height(p) \in 0..MaxHeight /\ Height(p) < MaxHeight
        /\ Anc(p) \subseteq Blocks
    BY <1>2 DEF do_propose, TypeOK, Height, Anc
  <2>2. Blocks' = Blocks \cup {b}
    BY <1>2 DEF do_propose, Blocks
  <2>3. \A i \in Blocks' : tree'[i] = IF i \in Blocks THEN tree[i] ELSE mint_block(p, j, b)
    BY <1>2, <2>2 DEF do_propose, Blocks
  <2> HIDE DEF b
  <2>4. mint_block(p, j, b) \in [parent : Blocks', justify : Blocks', height : 0..MaxHeight,
                                 anc : SUBSET Blocks']
    BY <2>1, <2>2, ConstantsAssumption DEF mint_block
  <2>5. \A i \in Blocks : tree[i] \in [parent : Blocks', justify : Blocks', height : 0..MaxHeight,
                                       anc : SUBSET Blocks']
    BY <2>2 DEF TypeOK
  <2>6. /\ Genesis \in Blocks'
        /\ \A i \in Blocks' : tree'[i] \in [parent : Blocks', justify : Blocks',
                                            height : 0..MaxHeight, anc : SUBSET Blocks']
    BY <2>2, <2>3, <2>4, <2>5 DEF TypeOK
  <2>7. /\ proposals' = proposals \cup {[block |-> b, proposer |-> r]}
        /\ b_leaf' = [b_leaf EXCEPT ![r] = b]
        /\ UNCHANGED <<votes, vheight, hqc, b_lock, b_exec, decided, disk, halted>>
    BY <1>2 DEF do_propose, b
  <2> QED BY <2>2, <2>6, <2>7 DEF TypeOK
<1>3. ASSUME NEW r \in Replica, NEW m \in proposals, on_receive_proposal(r, m)
      PROVE  TypeOK'
  <2>1. m.block \in Blocks /\ m.proposer \in Replica /\ Height(m.block) \in 0..MaxHeight
    BY DEF TypeOK, Height
  <2>2. update(r, m.block) /\ UNCHANGED <<tree, proposals>>
    BY <1>3 DEF on_receive_proposal
  <2>3. Blocks' = Blocks
    BY <2>2 DEF Blocks
  <2>4. Height(m.block) % VHeightModulus \in 0..MaxHeight
    BY <2>1, TruncatedHeight
  <2>5. /\ vheight' \in [Replica -> 0..MaxHeight]
        /\ votes' \subseteq [voter : Replica, block : Blocks, to : Replica]
    <3>1. CASE opinion(r, m.block)
        BY <1>3, <3>1, <2>1, <2>4 DEF on_receive_proposal, do_vote, TypeOK
    <3>2. CASE ~opinion(r, m.block)
        BY <1>3, <3>2 DEF on_receive_proposal, TypeOK
    <3> QED BY <3>1, <3>2
  <2> QED BY <2>1, <2>2, <2>3, <2>5, UpdateType DEF TypeOK
<1>4. ASSUME NEW r \in Replica, NEW b \in Blocks, on_receive_vote(r, b)
      PROVE  TypeOK'
    BY <1>4 DEF on_receive_vote, update_hqc, network, TypeOK, Blocks
<1>5. ASSUME NEW r \in Replica, reload_state_from_index(r)
      PROVE  TypeOK'
  <2>1. Height(b_exec[r]) % VHeightModulus \in 0..MaxHeight
    BY TruncatedHeight DEF TypeOK, Height
  <2> QED BY <1>5, <2>1 DEF reload_state_from_index, network, TypeOK, Blocks
<1> QED BY <1>1, <1>2, <1>3, <1>4, <1>5 DEF Next

\* The constructor of HotstuffCore sets fields of the right types.
LEMMA TypeInit == Init => TypeOK
BY ConstantsAssumption DEF Init, TypeOK, Blocks, genesis_block

\* Every field and pointer of consensus.cc keeps its type: no handler makes a
\* pointer refer to a block that was never minted, and no height exceeds the
\* bound, whatever vheight's width.
THEOREM TypeCorrect == Spec => []TypeOK
<1>1. TypeOK /\ [Next]_vars => TypeOK'
    BY TypeStep
<1> QED BY TypeInit, <1>1, PTL DEF Spec

-----------------------------------------------------------------------------
(* Certificates and quorums *)

\* A block has finitely many signers, so that they can be counted.
LEMMA SignersFinite ==
    ASSUME TypeOK, NEW b
    PROVE  /\ Signers(b) \subseteq Replica
           /\ IsFiniteSet(Signers(b))
           /\ Cardinality(Signers(b)) \in Nat
<1>1. Signers(b) \subseteq Replica
    BY DEF TypeOK, Signers
<1> QED BY <1>1, ConstantsAssumption, FS_Subset, FS_CardinalityType

\* nmajority of finish_init is a number of replicas.
LEMMA QuorumSize ==
    /\ Cardinality(Replica) \in Nat
    /\ nmajority \in Nat
<1>1. Cardinality(Replica) \in Nat
    BY ConstantsAssumption, FS_CardinalityType
<1> QED BY <1>1 DEF nmajority, nfaulty

\* A certificate never ceases to exist.
LEMMA CertifiedStable ==
    ASSUME TypeOK, TypeOK', votes \subseteq votes', NEW b, Certified(b)
    PROVE  Certified(b)'
<1>1. CASE b = Genesis
    BY <1>1 DEF Certified
<1>2. CASE has_quorum(Signers(b))
  <2>1. Signers(b) \subseteq Signers(b)'
    BY DEF Signers
  <2>2. IsFiniteSet(Signers(b)') /\ Cardinality(Signers(b)') \in Nat
    <3>1. Signers(b)' \subseteq Replica
        BY DEF TypeOK, Signers
    <3> QED BY <3>1, ConstantsAssumption, FS_Subset, FS_CardinalityType
  <2>3. Cardinality(Signers(b)) <= Cardinality(Signers(b)')
    BY <2>1, <2>2, FS_Subset
  <2>4. Cardinality(Signers(b)') >= nmajority
    BY <1>2, <2>2, <2>3, SignersFinite, QuorumSize DEF has_quorum
  <2> QED BY <2>4 DEF Certified, has_quorum, nmajority, nfaulty
<1> QED BY <1>1, <1>2 DEF Certified

\* Two certified blocks have a signer in common that keeps its memory.
LEMMA CommonSigner ==
    ASSUME TypeOK, FaultsTolerated, NEW a, NEW b,
           has_quorum(Signers(a)), has_quorum(Signers(b))
    PROVE  \E m, n \in votes : /\ m.voter = n.voter /\ m.voter \notin Amnesiac
                               /\ m.block = a /\ n.block = b
<1> DEFINE A == Signers(a)
           B == Signers(b)
<1>1. /\ IsFiniteSet(A) /\ IsFiniteSet(B) /\ A \subseteq Replica /\ B \subseteq Replica
      /\ Cardinality(A) \in Nat /\ Cardinality(B) \in Nat
    BY SignersFinite
<1>2. Cardinality(A \cup B) = Cardinality(A) + Cardinality(B) - Cardinality(A \cap B)
    BY <1>1, FS_Union
<1>3. Cardinality(A \cup B) <= Cardinality(Replica) /\ Cardinality(A \cup B) \in Nat
    BY <1>1, ConstantsAssumption, FS_Subset, FS_CardinalityType
<1>4. IsFiniteSet(A \cap B) /\ Cardinality(A \cap B) \in Nat
    BY <1>1, FS_Intersection, FS_CardinalityType
<1>5. IsFiniteSet(Amnesiac) /\ Cardinality(Amnesiac) \in Nat
    BY ConstantsAssumption, FS_Subset, FS_CardinalityType
<1>6. Cardinality(A \cap B) > Cardinality(Amnesiac)
  <2>1. Cardinality(A) >= nmajority /\ Cardinality(B) >= nmajority
    BY DEF has_quorum
  <2>2. 2 * nmajority - Cardinality(Replica) > Cardinality(Amnesiac)
    BY DEF FaultsTolerated
  <2> HIDE DEF A, B
  <2> QED BY <1>1, <1>2, <1>3, <1>4, <1>5, <2>1, <2>2, QuorumSize
<1>7. ~ (A \cap B \subseteq Amnesiac)
  <2>1. A \cap B \subseteq Amnesiac => Cardinality(A \cap B) <= Cardinality(Amnesiac)
    BY <1>5, FS_Subset
  <2> HIDE DEF A, B
  <2> QED BY <1>4, <1>5, <1>6, <2>1
<1>8. PICK v \in A \cap B : v \notin Amnesiac
    BY <1>7
<1> QED BY <1>8 DEF Signers

\* What the tree invariant says about two related blocks.
LEMMA TreeFacts ==
    ASSUME TypeOK, TreeInv
    PROVE  /\ \A b \in Blocks : /\ Parent(b) \in Blocks /\ Justify(b) \in Blocks
                                /\ Height(b) \in Nat /\ Anc(b) \subseteq Blocks
                                /\ Height(Justify(b)) <= Height(b)
                                /\ b # Genesis => Height(Justify(b)) < Height(b)
                                /\ Certified(Justify(b)) /\ b \in Anc(b) /\ Genesis \in Anc(b)
           /\ Height(Genesis) = 0 /\ Parent(Genesis) = Genesis
           /\ Justify(Genesis) = Genesis /\ Anc(Genesis) = {Genesis}
           /\ \A b \in Blocks : Height(b) = 0 => b = Genesis
<1>1. \A b \in Blocks : /\ Parent(b) \in Blocks /\ Justify(b) \in Blocks
                        /\ Height(b) \in Nat /\ Anc(b) \subseteq Blocks
    BY DEF TypeOK, Parent, Justify, Height, Anc
<1>2. /\ Height(Genesis) = 0 /\ Parent(Genesis) = Genesis
      /\ Justify(Genesis) = Genesis /\ Anc(Genesis) = {Genesis}
    BY DEF TreeInv, WellPlaced, genesis_block, Height, Parent, Justify, Anc
<1>3. ASSUME NEW b \in Blocks, b # Genesis
      PROVE  Height(b) > 0 /\ Height(Justify(b)) < Height(b)
  <2>1. /\ Height(b) = Height(Parent(b)) + 1
        /\ Justify(b) \in Anc(Parent(b))
    BY <1>3 DEF TreeInv, WellPlaced
  <2>2. Height(Justify(b)) <= Height(Parent(b))
    <3>1. Parent(b) \in Blocks /\ Height(Parent(b)) \in Nat
        BY <1>1
    <3>2. Justify(b) # Parent(b) => Height(Justify(b)) < Height(Parent(b))
        BY <2>1, <3>1 DEF TreeInv, WellPlaced
    <3> QED BY <1>1, <3>1, <3>2
  <2> QED BY <1>1, <2>1, <2>2
<1>4. \A b \in Blocks : Certified(Justify(b)) /\ b \in Anc(b) /\ Genesis \in Anc(b)
    BY DEF TreeInv, WellPlaced
<1> QED BY <1>1, <1>2, <1>3, <1>4

\* Parent pointers lead from an ancestor to its own ancestors only.
LEMMA AncestorFacts ==
    ASSUME TypeOK, TreeInv, NEW b \in Blocks, NEW a \in Anc(b)
    PROVE  a \in Blocks /\ Height(a) \in Nat /\ Height(a) <= Height(b) /\ Anc(a) \subseteq Anc(b)
<1>1. a \in Blocks /\ Height(a) \in Nat /\ Height(b) \in Nat
    BY TreeFacts
<1>2. /\ a # b => Height(a) < Height(b)
      /\ Anc(a) = {c \in Anc(b) : Height(c) <= Height(a)}
    BY DEF TreeInv, WellPlaced
<1> QED BY <1>1, <1>2

\* No two certified blocks share a height.
LEMMA UniqueCertificate ==
    ASSUME TypeOK, FaultsTolerated, TreeInv, VoteInv,
           NEW a \in Blocks, NEW b \in Blocks,
           Certified(a), Certified(b), Height(a) = Height(b)
    PROVE  a = b
<1>1. CASE a = Genesis \/ b = Genesis
    BY <1>1, TreeFacts
<1>2. CASE a # Genesis /\ b # Genesis
    BY <1>2, CommonSigner DEF Certified, VoteInv
<1> QED BY <1>1, <1>2

\* A nonempty set of numbers has a least element.
LEMMA LeastElement ==
    ASSUME NEW T \in SUBSET Nat, T # {}
    PROVE  \E x \in T : \A y \in T : x <= y
<1> DEFINE R == {ss \in Nat \X Nat : ss[1] < ss[2]}
<1>1. IsWellFoundedOn(R, Nat)
    BY NatLessThanWellFounded, Zenon DEF OpToRel
<1>2. \E x \in T : \A y \in T : ~ (<<y, x>> \in R)
    BY <1>1, WFMin, Zenon
<1>3. ASSUME NEW x \in Nat, NEW y \in Nat, ~ (<<y, x>> \in R)
      PROVE  x <= y
  <2>1. <<y, x>> \in Nat \X Nat /\ <<y, x>>[1] = y /\ <<y, x>>[2] = x
    OBVIOUS
  <2>2. ~ (y < x)
    BY <1>3, <2>1
  <2> QED BY <2>2
<1> HIDE DEF R
<1> QED BY <1>2, <1>3, Zenon

\* The heart of agreement: by induction on the height of w, as the search for
\* a lowest certified block that does not extend b.
LEMMA CommittedExtended ==
    ASSUME TypeOK, FaultsTolerated, TreeInv, VoteInv
    PROVE  CommittedForever
<1> SUFFICES ASSUME NEW b \in Blocks, Committed(b), NEW w \in Blocks, Certified(w),
                    Height(w) >= Height(b), b \notin Anc(w)
             PROVE  FALSE
    BY DEF CommittedForever
<1>1. b # Genesis
    BY DEF TreeInv, WellPlaced
<1>2. PICK b1 \in Blocks, b2 \in Blocks :
        /\ Parent(b1) = b /\ Justify(b1) = b
        /\ Parent(b2) = b1 /\ Justify(b2) = b1
        /\ Certified(b2)
    BY <1>1 DEF Committed
<1>3. b1 # Genesis /\ b2 # Genesis
    BY <1>1, <1>2, TreeFacts
<1>4. Height(b1) = Height(b) + 1 /\ Height(b2) = Height(b) + 2 /\ Height(b) \in Nat
    BY <1>2, <1>3, TreeFacts DEF TreeInv, WellPlaced
<1>5. Certified(b) /\ Certified(b1) /\ b \in Anc(b) /\ b \in Anc(b1) /\ b \in Anc(b2)
    BY <1>2, <1>3 DEF TreeInv, WellPlaced
<1> DEFINE Bad == {v \in Blocks : Certified(v) /\ Height(v) >= Height(b) /\ b \notin Anc(v)}
           T == {Height(v) : v \in Bad}
<1>6. T \subseteq Nat /\ T # {}
    BY TreeFacts
<1>7. PICK h \in T : \A y \in T : h <= y
    BY <1>6, LeastElement, Zenon
<1>8. PICK u \in Bad : \A v \in Bad : Height(u) <= Height(v)
    BY <1>7
<1>9. Height(u) \in Nat /\ u # Genesis /\ u \in Blocks /\ Certified(u)
    BY <1>1, <1>8, TreeFacts
<1>10. Height(u) > Height(b2)
  <2>1. Height(u) # Height(b) /\ Height(u) # Height(b1) /\ Height(u) # Height(b2)
    BY <1>2, <1>5, <1>8, UniqueCertificate
  <2>2. Height(u) >= Height(b)
    BY <1>8
  <2> QED BY <2>1, <2>2, <1>4, <1>9
<1>11. PICK c \in Anc(u) : /\ Certified(c)
                           /\ Height(b) <= Height(c)
                           /\ Height(c) < Height(u)
  <2>1. has_quorum(Signers(b2)) /\ has_quorum(Signers(u))
    BY <1>2, <1>3, <1>9 DEF Certified
  <2>2. PICK m \in votes, n \in votes : /\ m.voter = n.voter /\ m.voter \notin Amnesiac
                                        /\ m.block = b2 /\ n.block = u
    BY <2>1, CommonSigner
  <2>3. Justify(Justify(m.block)) = b
    BY <1>2, <2>2
  <2> QED BY <1>10, <2>2, <2>3 DEF VoteInv
<1>12. c \in Blocks /\ Height(c) \in Nat /\ Anc(c) \subseteq Anc(u)
    BY <1>9, <1>11, AncestorFacts
<1>13. c \in Bad
    BY <1>4, <1>8, <1>11, <1>12
<1> QED BY <1>8, <1>9, <1>11, <1>12, <1>13

-----------------------------------------------------------------------------
(* The block tree and the replicas *)

\* A committed block has a certificate.
LEMMA CommittedCertified ==
    ASSUME TreeInv, NEW b, Committed(b)
    PROVE  Certified(b)
BY DEF Committed, Certified, TreeInv, WellPlaced

\* What the invariant says without regard to quorums and heights.
LEMMA LocalPart == IInv => LocalInv
BY DEF IInv, LocalInv, ReplicaInv

\* What update(n) does whatever the quorums are: it changes one replica, whose
\* pointers move to certified blocks, and whose chain it extends or leaves alone.
LEMMA UpdateLocal ==
    ASSUME LocalInv, NEW r \in Replica, NEW n \in Blocks, update(r, n)
    PROVE  /\ \A q \in Replica \ {r} :
                 /\ hqc'[q] = hqc[q] /\ b_leaf'[q] = b_leaf[q] /\ b_lock'[q] = b_lock[q]
                 /\ b_exec'[q] = b_exec[q] /\ decided'[q] = decided[q] /\ disk'[q] = disk[q]
           /\ Certified(hqc'[r]) /\ hqc'[r] \in Anc(b_leaf'[r])
           /\ Certified(b_lock'[r]) /\ Committed(b_exec'[r])
           /\ decided'[r] = Anc(b_exec'[r]) /\ b_exec[r] \in Anc(b_exec'[r])
<1> DEFINE b2 == Justify(n)
           b1 == Justify(b2)
           b0 == Justify(b1)
<1> USE DEF LocalInv
<1>1. /\ b2 \in Blocks /\ b1 \in Blocks /\ b0 \in Blocks /\ b2 \in Anc(b2)
      /\ Certified(b2) /\ Certified(b1)
    BY TreeFacts
<1>2. /\ b_exec[r] \in Blocks /\ Certified(hqc[r]) /\ hqc[r] \in Anc(b_leaf[r])
      /\ Certified(b_lock[r]) /\ Committed(b_exec[r]) /\ decided[r] = Anc(b_exec[r])
    BY PointerTypes DEF LeafExtendsCertificate
<1>3. b_exec[r] \in Anc(b_exec[r])
    BY <1>2, TreeFacts
<1>4. \A q \in Replica \ {r} :
        /\ hqc'[q] = hqc[q] /\ b_leaf'[q] = b_leaf[q] /\ b_lock'[q] = b_lock[q]
        /\ b_exec'[q] = b_exec[q] /\ decided'[q] = decided[q] /\ disk'[q] = disk[q]
    BY DEF TypeOK, update, update_hqc, lock, commit
<1>5. Certified(hqc'[r]) /\ hqc'[r] \in Anc(b_leaf'[r])
  <2>1. \/ hqc'[r] = hqc[r] /\ b_leaf'[r] = b_leaf[r]
        \/ hqc'[r] = b2 /\ b_leaf'[r] = b2
    BY DEF TypeOK, update, update_hqc
  <2> QED BY <1>1, <1>2, <2>1
<1>6. Certified(b_lock'[r])
  <2>1. b_lock'[r] = b_lock[r] \/ b_lock'[r] = b1
    BY DEF TypeOK, update, lock
  <2> QED BY <1>1, <1>2, <2>1
<1>7. CASE b_exec'[r] = b_exec[r] /\ decided'[r] = decided[r]
    BY <1>2, <1>3, <1>4, <1>5, <1>6, <1>7
<1>8. CASE Commits(r, n) /\ b_exec[r] \in Anc(b0)
  <2>1. Committed(b0)
    BY <1>1, <1>8 DEF Commits, Committed
  <2>2. Anc(b_exec[r]) \subseteq Anc(b0)
    BY <1>1, <1>8, AncestorFacts
  <2>3. b_exec'[r] = b0 /\ decided'[r] = decided[r] \cup Anc(b0)
    BY <1>8 DEF update, commit, TypeOK
  <2> QED BY <1>2, <1>4, <1>5, <1>6, <1>8, <2>1, <2>2, <2>3
<1> QED BY <1>7, <1>8 DEF update, commit

\* What update(n) does to the replica that runs it, in terms of the state
\* before the step.
LEMMA UpdateFacts ==
    ASSUME IInv, FaultsTolerated, NEW r \in Replica, NEW n \in Blocks, update(r, n)
    PROVE  /\ \A q \in Replica \ {r} :
                 /\ hqc'[q] = hqc[q] /\ b_leaf'[q] = b_leaf[q] /\ b_lock'[q] = b_lock[q]
                 /\ b_exec'[q] = b_exec[q] /\ decided'[q] = decided[q] /\ disk'[q] = disk[q]
           /\ Certified(hqc'[r]) /\ hqc'[r] \in Anc(b_leaf'[r])
           /\ Certified(b_lock'[r]) /\ b_lock'[r] \in Blocks
           /\ Height(b_lock[r]) <= Height(b_lock'[r])
           /\ Height(Justify(Justify(n))) <= Height(b_lock'[r])
           /\ \/ b_lock'[r] = b_lock[r]
              \/ /\ b_lock'[r] = Justify(Justify(n))
                 /\ Height(b_lock'[r]) > Height(b_lock[r])
                 /\ Height(b_lock'[r]) < Height(Justify(n))
           /\ halted' = halted
           /\ Committed(b_exec'[r]) /\ Height(b_exec'[r]) <= Height(b_lock'[r])
           /\ decided'[r] = Anc(b_exec'[r]) /\ decided'[r] \subseteq disk'[r]
           /\ decided[r] \subseteq decided'[r]
<1> DEFINE b2 == Justify(n)
           b1 == Justify(b2)
           b0 == Justify(b1)
           top == IF Height(b1) > Height(b_lock[r]) THEN b1 ELSE b_lock[r]
<1> USE DEF IInv
<1>1. /\ b2 \in Blocks /\ b1 \in Blocks /\ b0 \in Blocks
      /\ Certified(b2) /\ Certified(b1) /\ Certified(b0)
      /\ Height(b2) \in Nat /\ Height(b1) \in Nat /\ Height(b0) \in Nat
      /\ Height(b1) <= Height(b2) /\ Height(b0) <= Height(b1)
      /\ b2 # Genesis => Height(b1) < Height(b2)
    BY TreeFacts DEF TreeInv, WellPlaced
<1>2. /\ b_lock[r] \in Blocks /\ b_exec[r] \in Blocks /\ hqc[r] \in Blocks
      /\ Height(b_lock[r]) \in Nat /\ Height(b_exec[r]) \in Nat
      /\ Certified(b_lock[r]) /\ Committed(b_exec[r])
      /\ Height(b_exec[r]) <= Height(b_lock[r])
      /\ decided[r] = Anc(b_exec[r]) /\ Genesis \in decided[r]
      /\ decided[r] \subseteq disk[r]
  <2>1. b_lock[r] \in Blocks /\ b_exec[r] \in Blocks /\ hqc[r] \in Blocks
    BY DEF TypeOK
  <2>2. /\ Certified(b_lock[r]) /\ Committed(b_exec[r])
        /\ Height(b_exec[r]) <= Height(b_lock[r])
        /\ decided[r] = Anc(b_exec[r]) /\ decided[r] \subseteq disk[r]
    BY DEF ReplicaInv, DecidedOnDisk
  <2> QED BY <2>1, <2>2, TreeFacts
<1>3. CommittedForever
    BY CommittedExtended
<1>4. \A q \in Replica \ {r} :
        /\ hqc'[q] = hqc[q] /\ b_leaf'[q] = b_leaf[q] /\ b_lock'[q] = b_lock[q]
        /\ b_exec'[q] = b_exec[q] /\ decided'[q] = decided[q] /\ disk'[q] = disk[q]
    BY UpdateLocal, LocalPart
<1>5. Certified(hqc'[r]) /\ hqc'[r] \in Anc(b_leaf'[r])
    BY UpdateLocal, LocalPart
<1>6. CASE ~Locks(r, n)
  <2>1. /\ b_lock'[r] = b_lock[r] /\ disk'[r] = disk[r] /\ halted' = halted
        /\ b_exec'[r] = b_exec[r] /\ decided'[r] = decided[r]
    BY <1>6 DEF update, lock, commit, Commits
  <2>2. Height(b1) <= Height(b_exec[r])
    <3>1. b1 \in decided[r] \/ b2 \in decided[r]
        BY <1>6 DEF Locks, Certifies
    <3>2. \A a \in decided[r] : a \in Blocks /\ Height(a) <= Height(b_exec[r])
        BY <1>2, AncestorFacts
    <3> QED BY <1>1, <1>2, <3>1, <3>2
  <2> QED BY <1>1, <1>2, <1>4, <1>5, <2>1, <2>2
<1>7. CASE Locks(r, n)
  <2>1. b1 # Genesis /\ b2 # Genesis
    BY <1>2, <1>7 DEF Locks, Certifies
  <2>2. /\ top \in Blocks /\ Certified(top) /\ Height(top) \in Nat
        /\ Height(b_lock[r]) <= Height(top) /\ Height(b1) <= Height(top)
        /\ top = b_lock[r] \/ (top = b1 /\ Height(top) > Height(b_lock[r]))
    BY <1>1, <1>2
  <2>3. b_lock'[r] = top /\ disk'[r] = disk[r] \cup Anc(top)
    BY <1>7 DEF update, lock, TypeOK
  <2> HIDE DEF top
  <2>4. CASE ~Commits(r, n)
    <3>1. halted' = halted /\ b_exec'[r] = b_exec[r] /\ decided'[r] = decided[r]
        BY <2>4 DEF update, commit
    <3> QED BY <1>1, <1>2, <1>4, <1>5, <2>1, <2>2, <2>3, <3>1
  <2>5. CASE Commits(r, n)
    <3>1. Committed(b0)
        BY <1>1, <2>5 DEF Commits, Committed
    <3>2. b0 \in Anc(top) /\ Anc(b0) \subseteq Anc(top)
      <4>1. b0 \in Anc(top)
        BY <1>1, <1>3, <2>2, <3>1 DEF CommittedForever
      <4> QED BY <2>2, <4>1 DEF TreeInv, WellPlaced
    <3>3. b_exec[r] \in Anc(b0)
      <4>1. CASE Height(b0) >= Height(b_exec[r])
        BY <1>1, <1>2, <1>3, <4>1 DEF CommittedForever
      <4>2. CASE Height(b_exec[r]) >= Height(b0)
        <5>1. Certified(b_exec[r])
            BY <1>2, CommittedCertified
        <5>2. b0 \in Anc(b_exec[r])
            BY <1>1, <1>2, <1>3, <3>1, <4>2, <5>1 DEF CommittedForever
        <5> QED BY <1>2, <2>5, <5>2 DEF Commits
      <4> QED BY <1>1, <1>2, <4>1, <4>2
    <3>4. Anc(b_exec[r]) \subseteq Anc(b0)
        BY <1>1, <3>3 DEF TreeInv, WellPlaced
    <3>5. halted' = halted /\ b_exec'[r] = b0 /\ decided'[r] = decided[r] \cup Anc(b0)
        BY <2>5, <3>3 DEF update, commit, TypeOK
    <3> QED BY <1>1, <1>2, <1>4, <1>5, <2>1, <2>2, <2>3, <3>1, <3>2, <3>4, <3>5
  <2> QED BY <2>4, <2>5
<1> QED BY <1>6, <1>7

\* Committed blocks stay committed: their three-chain is immutable.
LEMMA CommittedStable ==
    ASSUME TypeOK, TypeOK', [Next]_vars, NEW b, Committed(b)
    PROVE  Committed(b)'
<1>1. CASE b = Genesis
    BY <1>1 DEF Committed
<1>2. CASE b # Genesis
  <2>1. PICK b1 \in Blocks, b2 \in Blocks :
          /\ Parent(b1) = b /\ Justify(b1) = b
          /\ Parent(b2) = b1 /\ Justify(b2) = b1
          /\ Certified(b2)
    BY <1>2 DEF Committed
  <2>2. /\ b1 \in Blocks' /\ b2 \in Blocks'
        /\ Parent(b1)' = b /\ Justify(b1)' = b
        /\ Parent(b2)' = b1 /\ Justify(b2)' = b1
    BY <2>1, StepStable DEF Parent, Justify
  <2>3. Certified(b2)'
    BY <2>1, StepStable, CertifiedStable
  <2> QED BY <2>2, <2>3 DEF Committed
<1> QED BY <1>1, <1>2

\* Old blocks stay well placed, and a freshly minted block is: hqc is an
\* ancestor of b_leaf.
LEMMA PlacedStable ==
    ASSUME LocalInv, [Next]_vars, NEW i \in Blocks
    PROVE  WellPlaced(i)'
<1> USE DEF LocalInv
<1>1. \A b : Certified(b) => Certified(b)'
    BY TypeStep, StepStable, CertifiedStable
<1>2. \A b \in Blocks : /\ Parent(b)' = Parent(b) /\ Justify(b)' = Justify(b)
                        /\ Height(b)' = Height(b) /\ Anc(b)' = Anc(b)
    BY StepStable DEF Parent, Justify, Height, Anc
<1>3. WellPlaced(i) /\ Anc(i) \subseteq Blocks /\ Parent(i) \in Blocks /\ Justify(i) \in Blocks
    BY TreeFacts DEF TreeInv
<1>4. Certified(Justify(i))'
  <2>1. PICK j : j = Justify(i)
    OBVIOUS
  <2>2. Certified(j)'
    BY <1>1, <1>3, <2>1 DEF WellPlaced
  <2>3. Justify(i)' = j
    BY <1>2, <2>1
  <2> QED BY <2>2, <2>3 DEF Certified, Signers
<1>5. i # Genesis => /\ Height(i)' = Height(Parent(i))' + 1
                     /\ Anc(i)' = Anc(Parent(i))' \cup {i}
                     /\ Justify(i)' \in Anc(Parent(i))'
  <2>1. PICK p : p = Parent(i)
    OBVIOUS
  <2>2. Height(p)' = Height(p) /\ Anc(p)' = Anc(p)
    BY <1>2, <1>3, <2>1
  <2>3. Height(Parent(i))' = Height(p)' /\ Anc(Parent(i))' = Anc(p)'
    BY <1>2, <2>1 DEF Height, Anc
  <2> QED BY <1>2, <1>3, <2>1, <2>2, <2>3 DEF WellPlaced
<1>6. ASSUME NEW a \in Anc(i)
      PROVE  /\ a # i => Height(a)' < Height(i)'
             /\ Anc(a)' = {c \in Anc(i)' : Height(c)' <= Height(a)'}
  <2>1. a \in Blocks /\ Height(a)' = Height(a) /\ Anc(a)' = Anc(a)
    BY <1>2, <1>3
  <2> QED BY <1>2, <1>3, <2>1 DEF WellPlaced
<1>7. \A h \in 0..Height(i)' : \E a \in Anc(i)' : Height(a)' = h
    BY <1>2, <1>3 DEF WellPlaced
<1> QED BY <1>2, <1>3, <1>4, <1>5, <1>6, <1>7 DEF WellPlaced

\* The block do_propose mints is well placed.
LEMMA MintedPlaced ==
    ASSUME LocalInv, [Next]_vars, NEW r \in Replica, NEW x \in Body, do_propose(r, x),
           NEW b, b = Hash(b_leaf[r], hqc[r], x), b \notin Blocks
    PROVE  WellPlaced(b)'
<1> USE DEF LocalInv
<1>1. PICK p, j : p = b_leaf[r] /\ j = hqc[r]
    OBVIOUS
<1>2. p \in Blocks /\ j \in Anc(p) /\ Certified(j)
    BY <1>1 DEF TypeOK, LeafExtendsCertificate
<1>3. Blocks' = Blocks \cup {b} /\ tree'[b] = mint_block(p, j, b)
    BY <1>1 DEF do_propose, Blocks
<1>4. /\ Parent(b)' = p /\ Justify(b)' = j
      /\ Height(b)' = Height(p) + 1 /\ Anc(b)' = Anc(p) \cup {b} /\ b \in Blocks'
    BY <1>3, SMTT(20) DEF mint_block, Parent, Justify, Height, Anc
<1>5. \A c \in Blocks : Height(c)' = Height(c) /\ Anc(c)' = Anc(c)
    BY StepStable, SMTT(30) DEF Height, Anc
<1>6. \A c \in Anc(p) : c \in Blocks /\ Height(c) \in Nat /\ Height(c) <= Height(p)
    BY <1>2, AncestorFacts, Zenon
<1>7. Height(p) \in Nat /\ Genesis \in Anc(p) /\ b # Genesis
    BY <1>2, TreeFacts DEF TypeOK
<1>8. Certified(Justify(b))'
  <2>1. Certified(j)'
    BY <1>2, TypeStep, StepStable, CertifiedStable
  <2> QED BY <1>4, <2>1, SMTT(30) DEF Certified, Signers
<1>9. /\ Height(b)' = Height(Parent(b))' + 1
      /\ Anc(b)' = Anc(Parent(b))' \cup {b}
      /\ Justify(b)' \in Anc(Parent(b))'
  <2>1. Height(Parent(b))' = Height(p)' /\ Anc(Parent(b))' = Anc(p)'
    BY <1>4 DEF Height, Anc
  <2> QED BY <1>2, <1>4, <1>5, <2>1
<1>10. ASSUME NEW a \in Anc(b)'
       PROVE  /\ a # b => Height(a)' < Height(b)'
              /\ Anc(a)' = {c \in Anc(b)' : Height(c)' <= Height(a)'}
  <2>1. CASE a = b
    BY <1>4, <1>5, <1>6, <1>7, <2>1
  <2>2. CASE a \in Anc(p)
    <3>1. a \in Blocks /\ Height(a)' = Height(a) /\ Height(a) <= Height(p) /\ Height(a) \in Nat
        BY <1>5, <1>6, <2>2
    <3>2. Anc(a)' = {c \in Anc(p) : Height(c) <= Height(a)}
        BY <1>2, <1>5, <2>2, <3>1 DEF TreeInv, WellPlaced
    <3> QED BY <1>4, <1>5, <1>6, <1>7, <3>1, <3>2
  <2> QED BY <1>4, <2>1, <2>2
<1>11. ASSUME NEW h \in 0..Height(b)'
       PROVE  \E a \in Anc(b)' : Height(a)' = h
  <2>1. h = Height(b)' \/ h \in 0..Height(p)
    BY <1>4, <1>7
  <2>2. \A g \in 0..Height(p) : \E a \in Anc(p) : Height(a) = g
    BY <1>2 DEF TreeInv, WellPlaced
  <2> QED BY <1>4, <1>5, <1>6, <2>1, <2>2
<1> QED BY <1>4, <1>7, <1>8, <1>9, <1>10, <1>11 DEF WellPlaced

\* Every step keeps the block tree well formed.
LEMMA TreeStep ==
    ASSUME LocalInv, [Next]_vars
    PROVE  TreeInv'
<1> USE DEF LocalInv
<1>1. tree'[Genesis] = genesis_block
    BY StepStable DEF TreeInv, TypeOK, genesis_block
<1>2. ASSUME NEW b \in Blocks', b \notin Blocks
      PROVE  WellPlaced(b)'
  <2>1. PICK r \in Replica, x \in Body : do_propose(r, x)
    BY <1>2, Zenon DEF Next, vars, Blocks, on_receive_proposal, on_receive_vote,
                reload_state_from_index, network
  <2>2. b = Hash(b_leaf[r], hqc[r], x)
    BY <1>2, <2>1 DEF do_propose, Blocks
  <2> QED BY <1>2, <2>1, <2>2, MintedPlaced
<1>3. \A b \in Blocks' : WellPlaced(b)'
    BY <1>2, PlacedStable
<1>4. genesis_block' = genesis_block
    BY DEF genesis_block
<1> QED BY <1>1, <1>3, <1>4 DEF TreeInv

\* What LocalInv says of one replica, and what the rest of the invariant adds.
Holds(r) ==
    /\ Certified(hqc[r]) /\ Certified(b_lock[r]) /\ Committed(b_exec[r])
    /\ decided[r] = Anc(b_exec[r])
    /\ hqc[r] \in Anc(b_leaf[r])
Sound(r) ==
    /\ Height(b_exec[r]) <= Height(b_lock[r])
    /\ Height(b_lock[r]) <= vheight[r]
    /\ decided[r] \subseteq disk[r]

\* The two together are the replica part of the invariant.
LEMMA SoundMeans ==
    /\ LocalInv <=> TypeOK /\ TreeInv /\ \A r \in Replica : Holds(r)
    /\ LocalInv => ((\A r \in Replica : Sound(r)) <=> ReplicaInv /\ DecidedOnDisk)
BY Zenon DEF LocalInv, Holds, Sound, ReplicaInv, LeafExtendsCertificate, DecidedOnDisk

\* A replica's pointers stay good if the values they then have were good before:
\* blocks do not change and certificates do not vanish.
LEMMA HoldsStable ==
    ASSUME LocalInv, [Next]_vars, NEW r \in Replica,
           NEW q \in Blocks, NEW l \in Blocks, NEW e \in Blocks, NEW leaf \in Blocks,
           hqc'[r] = q, b_lock'[r] = l, b_exec'[r] = e, b_leaf'[r] = leaf,
           Certified(q), Certified(l), Committed(e), decided'[r] = Anc(e), q \in Anc(leaf)
    PROVE  Holds(r)'
<1> USE DEF LocalInv
<1>1. Certified(q)' /\ Certified(l)'
    BY TypeStep, StepStable, CertifiedStable
<1>2. Committed(e)'
    BY TypeStep, CommittedStable
<1>3. Anc(e)' = Anc(e) /\ Anc(leaf)' = Anc(leaf)
    BY StepStable DEF Anc
<1>4. Certified(hqc[r])' /\ Certified(b_lock[r])'
    BY <1>1 DEF Certified, Signers
<1>5. Committed(b_exec[r])'
    BY <1>2 DEF Committed
<1>6. Anc(b_exec[r])' = Anc(e)' /\ Anc(b_leaf[r])' = Anc(leaf)'
    BY DEF Anc
<1> QED BY <1>3, <1>4, <1>5, <1>6 DEF Holds

\* Every step keeps every replica's pointers good, and extends its chain or leaves
\* it alone.
LEMMA HoldsStep ==
    ASSUME LocalInv, [Next]_vars, NEW q \in Replica
    PROVE  Holds(q)' /\ b_exec[q] \in Anc(b_exec[q])'
<1> USE DEF LocalInv
<1>1. PICK h, l, e, leaf : h = hqc[q] /\ l = b_lock[q] /\ e = b_exec[q] /\ leaf = b_leaf[q]
    BY Zenon
<1>2. /\ h \in Blocks /\ l \in Blocks /\ e \in Blocks /\ leaf \in Blocks
      /\ Certified(h) /\ Certified(l) /\ Committed(e) /\ decided[q] = Anc(e) /\ h \in Anc(leaf)
    BY <1>1, PointerTypes DEF LeafExtendsCertificate
<1>3. e \in Anc(e) /\ Certified(e)
    BY <1>2, TreeFacts, CommittedCertified
<1>4. ASSUME NEW d \in Blocks, b_exec'[q] = d, e \in Anc(d)
      PROVE  b_exec[q] \in Anc(b_exec[q])'
  <2>1. Anc(d)' = Anc(d) /\ Anc(b_exec[q])' = Anc(d)'
    BY <1>4, StepStable DEF Anc
  <2> QED BY <1>1, <1>4, <2>1
<1>5. CASE hqc'[q] = h /\ b_lock'[q] = l /\ b_exec'[q] = e /\ b_leaf'[q] = leaf /\ decided'[q] = decided[q]
    BY <1>2, <1>3, <1>4, <1>5, HoldsStable
<1>6. CASE UNCHANGED vars
    BY <1>1, <1>5, <1>6, Zenon DEF vars
<1>7. ASSUME NEW r \in Replica, NEW x \in Body, do_propose(r, x)
      PROVE  Holds(q)' /\ b_exec[q] \in Anc(b_exec[q])'
  <2>1. PICK b : b = Hash(b_leaf[r], hqc[r], x)
    OBVIOUS
  <2>2. /\ UNCHANGED <<votes, hqc, b_lock, b_exec, decided>>
        /\ b_leaf' = [b_leaf EXCEPT ![r] = b]
    BY <1>7, <2>1 DEF do_propose
  <2>3. CASE q # r
    <3>1. b_leaf'[q] = b_leaf[q]
        BY <2>2, <2>3, PointerTypes
    <3> QED BY <1>1, <1>5, <2>2, <3>1, Zenon
  <2>4. CASE q = r
    <3>1. b_leaf'[q] = b
        BY <2>2, <2>4, PointerTypes, SMTT(20)
    <3>2. b \in Blocks' /\ tree'[b].anc = Anc(leaf) \cup {b}
      <4>1. b \in Blocks => tree[b] = mint_block(leaf, h, b)
        BY <1>1, <1>7, <2>1, <2>4, SMTT(20) DEF do_propose
      <4> QED BY <1>1, <1>7, <2>1, <2>4, <4>1 DEF do_propose, Blocks, mint_block
    <3>3. hqc'[q] \in Anc(b_leaf[q])'
        BY <1>1, <1>2, <2>2, <3>1, <3>2 DEF Anc
    <3>4. Certified(h)' /\ Certified(l)' /\ Committed(e)'
        BY <1>2, TypeStep, StepStable, CertifiedStable, CommittedStable, Zenon
    <3>5. hqc'[q] = h /\ b_lock'[q] = l /\ b_exec'[q] = e /\ decided'[q] = decided[q]
        BY <1>1, <2>2, Zenon
    <3>6. Certified(hqc[q])' /\ Certified(b_lock[q])' /\ Committed(b_exec[q])'
        BY <3>4, <3>5 DEF Certified, Signers, Committed
    <3>7. Anc(e)' = Anc(e) /\ Anc(b_exec[q])' = Anc(e)'
        BY <1>2, <3>5, StepStable DEF Anc
    <3> QED BY <1>2, <1>3, <1>4, <3>3, <3>5, <3>6, <3>7 DEF Holds
  <2> QED BY <2>3, <2>4
<1>8. ASSUME NEW r \in Replica, NEW m \in proposals, on_receive_proposal(r, m)
      PROVE  Holds(q)' /\ b_exec[q] \in Anc(b_exec[q])'
  <2>1. PICK n : n = m.block
    OBVIOUS
  <2>2. n \in Blocks /\ update(r, n)
    BY <1>8, <2>1, PointerTypes DEF on_receive_proposal
  <2>3. CASE q # r
    <3>1. /\ hqc'[q] = hqc[q] /\ b_lock'[q] = b_lock[q] /\ b_exec'[q] = b_exec[q]
          /\ b_leaf'[q] = b_leaf[q] /\ decided'[q] = decided[q]
        BY <2>2, <2>3, UpdateLocal
    <3> QED BY <1>1, <1>5, <3>1, Zenon
  <2>4. CASE q = r
    <3>1. PICK h2, l2, e2, leaf2 :
              h2 = hqc'[q] /\ l2 = b_lock'[q] /\ e2 = b_exec'[q] /\ leaf2 = b_leaf'[q]
        BY Zenon
    <3>2. h2 \in Blocks /\ l2 \in Blocks /\ e2 \in Blocks /\ leaf2 \in Blocks
        BY <2>2, <3>1, UpdateType
    <3>3. /\ Certified(h2) /\ Certified(l2) /\ Committed(e2) /\ decided'[q] = Anc(e2)
          /\ h2 \in Anc(leaf2) /\ e \in Anc(e2)
        BY <1>1, <2>2, <2>4, <3>1, UpdateLocal
    <3> QED BY <1>4, <3>1, <3>2, <3>3, HoldsStable
  <2> QED BY <2>3, <2>4
<1>9. ASSUME NEW r \in Replica, NEW b \in Blocks, on_receive_vote(r, b)
      PROVE  Holds(q)' /\ b_exec[q] \in Anc(b_exec[q])'
  <2>1. UNCHANGED <<b_lock, b_exec, decided>> /\ update_hqc(r, b)
    BY <1>9 DEF on_receive_vote
  <2>2. CASE hqc'[q] = hqc[q] /\ b_leaf'[q] = b_leaf[q]
    BY <1>1, <1>5, <2>1, <2>2, Zenon
  <2>3. CASE q = r /\ hqc'[q] = b /\ b_leaf'[q] = b
    <3>1. Certified(b)
      <4>1. {m.voter : m \in {v \in votes : v.block = b /\ v.to = r}} \subseteq Signers(b)
        BY DEF Signers
      <4>2. has_quorum(Signers(b))
        <5> DEFINE S == {m.voter : m \in {v \in votes : v.block = b /\ v.to = r}}
        <5>1. IsFiniteSet(S) /\ Cardinality(S) \in Nat /\ Cardinality(S) <= Cardinality(Signers(b))
            BY <4>1, SignersFinite, FS_Subset, FS_CardinalityType
        <5>2. Cardinality(S) >= nmajority
            BY <1>9 DEF on_receive_vote, has_quorum
        <5> HIDE DEF S
        <5> QED BY <5>1, <5>2, SignersFinite, QuorumSize DEF has_quorum
      <4> QED BY <4>2 DEF Certified
    <3>2. b \in Anc(b)
        BY TreeFacts
    <3>3. b_lock'[q] = l /\ b_exec'[q] = e /\ decided'[q] = Anc(e)
        BY <1>1, <1>2, <2>1, Zenon
    <3> QED BY <1>2, <1>3, <1>4, <2>3, <3>1, <3>2, <3>3, HoldsStable
  <2> QED BY <2>1, <2>2, <2>3, PointerTypes, SMTT(20) DEF update_hqc
<1>10. ASSUME NEW r \in Replica, reload_state_from_index(r)
       PROVE  Holds(q)' /\ b_exec[q] \in Anc(b_exec[q])'
  <2>1. CASE q # r
    <3>1. /\ hqc'[q] = hqc[q] /\ b_lock'[q] = b_lock[q] /\ b_exec'[q] = b_exec[q]
          /\ b_leaf'[q] = b_leaf[q] /\ decided'[q] = decided[q]
        BY <1>10, <2>1, PointerTypes DEF reload_state_from_index
    <3> QED BY <1>1, <1>5, <3>1, Zenon
  <2>2. CASE q = r
    <3>1. /\ hqc'[q] = e /\ b_leaf'[q] = e /\ b_lock'[q] = e /\ b_exec'[q] = e
          /\ decided'[q] = Anc(e)
        BY <1>1, <1>2, <1>10, <2>2, PointerTypes DEF reload_state_from_index
    <3> QED BY <1>2, <1>3, <1>4, <3>1, HoldsStable
  <2> QED BY <2>1, <2>2
<1> QED BY <1>6, <1>7, <1>8, <1>9, <1>10 DEF Next

\* Every step keeps what holds without regard to quorums and heights.
LEMMA LocalStep == LocalInv /\ [Next]_vars => LocalInv'
<1> SUFFICES ASSUME LocalInv, [Next]_vars PROVE LocalInv'
    OBVIOUS
<1>1. TypeOK' /\ TreeInv'
    BY TypeStep, TreeStep DEF LocalInv
<1>2. \A q \in Replica : Holds(q)'
    BY HoldsStep
<1> QED BY <1>1, <1>2, Zenon DEF LocalInv, Holds, LeafExtendsCertificate

\* A lock stays between decision and vote if the values it then has were.
LEMMA SoundStable ==
    ASSUME LocalInv, [Next]_vars, NEW r \in Replica, NEW l \in Blocks, NEW e \in Blocks,
           b_lock'[r] = l, b_exec'[r] = e, Height(e) <= Height(l), Height(l) <= vheight'[r],
           decided'[r] \subseteq disk'[r]
    PROVE  Sound(r)'
<1>1. Height(e)' = Height(e) /\ Height(l)' = Height(l)
    BY StepStable DEF LocalInv, Height
<1>2. Height(b_exec[r])' = Height(e)' /\ Height(b_lock[r])' = Height(l)'
    BY DEF Height
<1> QED BY <1>1, <1>2 DEF Sound

\* Every step keeps every replica sound.
LEMMA SoundStep ==
    ASSUME IInv, FaultsTolerated, VHeightWide, [Next]_vars
    PROVE  \A r \in Replica : Sound(r)'
<1> USE DEF IInv
<1>1. LocalInv /\ \A r \in Replica : /\ Sound(r) /\ b_lock[r] \in Blocks /\ b_exec[r] \in Blocks
    BY LocalPart, SoundMeans, PointerTypes
<1>2. ASSUME NEW q \in Replica,
             /\ b_lock'[q] = b_lock[q] /\ b_exec'[q] = b_exec[q]
             /\ decided'[q] = decided[q] /\ disk'[q] = disk[q] /\ vheight'[q] = vheight[q]
      PROVE  Sound(q)'
  <2>1. PICK l, e : l = b_lock[q] /\ e = b_exec[q]
    BY Zenon
  <2> QED BY <1>1, <1>2, <2>1, SoundStable DEF Sound
<1>3. CASE UNCHANGED <<vheight, b_lock, b_exec, decided, disk>>
    BY <1>2, <1>3
<1>4. CASE UNCHANGED vars \/ (\E r \in Replica : \/ \E x \in Body : do_propose(r, x)
                                                \/ \E b \in Blocks : on_receive_vote(r, b))
    BY <1>3, <1>4, Zenon DEF vars, do_propose, on_receive_vote
<1>5. ASSUME NEW r \in Replica, NEW m \in proposals, on_receive_proposal(r, m), NEW q \in Replica
      PROVE  Sound(q)'
  <2>1. PICK n : n = m.block
    OBVIOUS
  <2>2. n \in Blocks /\ update(r, n) /\ Height(n) \in 0..MaxHeight
    BY <1>5, <2>1 DEF on_receive_proposal, TypeOK, Height
  <2>3. vheight' = IF opinion(r, n) THEN [vheight EXCEPT ![r] = Height(n)] ELSE vheight
    BY <1>5, <2>1, <2>2, WideHeight DEF on_receive_proposal, do_vote
  <2>4. CASE q # r
    <3>1. /\ b_lock'[q] = b_lock[q] /\ b_exec'[q] = b_exec[q]
          /\ decided'[q] = decided[q] /\ disk'[q] = disk[q]
        BY <2>2, <2>4, UpdateFacts
    <3>2. vheight'[q] = vheight[q]
        BY <2>3, <2>4, SMTT(20) DEF TypeOK
    <3> QED BY <1>2, <3>1, <3>2, Zenon
  <2>5. CASE q = r
    <3>1. PICK l, e : l = b_lock'[r] /\ e = b_exec'[r]
        OBVIOUS
    <3>2. l \in Blocks /\ e \in Blocks
        BY <2>2, <3>1, UpdateType
    <3>3. Height(e) <= Height(l) /\ decided'[r] \subseteq disk'[r]
        BY <2>2, <3>1, UpdateFacts
    <3>4. Height(l) <= vheight'[r]
      <4>1. /\ vheight[r] \in Nat /\ Height(n) \in Nat /\ Height(Justify(n)) \in Nat
            /\ Height(l) \in Nat /\ Height(b_lock[r]) \in Nat
            /\ Height(b_lock[r]) <= vheight[r] /\ Height(Justify(n)) <= Height(n)
        <5>1. vheight[r] \in Nat
            BY DEF TypeOK
        <5>2. Height(b_lock[r]) <= vheight[r]
            BY <1>1, Zenon DEF Sound
        <5>3. Height(Justify(n)) \in Nat /\ Height(n) \in Nat /\ Height(Justify(n)) <= Height(n)
            BY <2>2, TreeFacts
        <5>4. Height(l) \in Nat /\ Height(b_lock[r]) \in Nat
            BY <1>1, <3>2, TreeFacts
        <5> QED BY <5>1, <5>2, <5>3, <5>4, Zenon
      <4>2. \/ l = b_lock[r]
            \/ /\ Height(l) > Height(b_lock[r])
               /\ Height(l) < Height(Justify(n))
        BY <2>2, <3>1, UpdateFacts, Zenon
      <4>3. CASE opinion(r, n)
        <5>1. vheight'[r] = Height(n) /\ Height(n) > vheight[r]
            BY <2>3, <4>3 DEF opinion, TypeOK
        <5> QED BY <4>1, <4>2, <5>1
      <4>4. CASE ~opinion(r, n)
        <5>1. vheight'[r] = vheight[r]
            BY <2>3, <4>4
        <5>2. Height(n) <= vheight[r] \/ Height(Justify(n)) <= Height(b_lock[r])
            BY <4>1, <4>4 DEF opinion
        <5> QED BY <4>1, <4>2, <5>1, <5>2
      <4> QED BY <4>3, <4>4, SMTT(30)
    <3> QED BY <1>1, <2>5, <3>1, <3>2, <3>3, <3>4, SoundStable, Zenon
  <2> QED BY <2>4, <2>5
<1>6. ASSUME NEW r \in Replica, reload_state_from_index(r), NEW q \in Replica
      PROVE  Sound(q)'
  <2>1. PICK e : e = b_exec[r]
    BY Zenon
  <2>2. e \in Blocks /\ Height(e) \in 0..MaxHeight /\ decided[r] \subseteq disk[r]
    BY <1>1, <2>1, Zenon DEF TypeOK, Height, Sound
  <2>3. vheight' = [vheight EXCEPT ![r] = Height(e)]
    BY <1>6, <2>1, <2>2, WideHeight, Zenon DEF reload_state_from_index
  <2>4. CASE q # r
    BY <1>2, <1>6, <2>3, <2>4, SMTT(20) DEF reload_state_from_index, TypeOK
  <2>5. CASE q = r
    <3>1. /\ b_lock'[r] = e /\ b_exec'[r] = e /\ decided' = decided /\ disk' = disk
          /\ vheight'[r] = Height(e)
        BY <1>6, <2>1, <2>3 DEF reload_state_from_index, TypeOK
    <3>2. Height(e) <= Height(e) /\ Height(e) <= vheight'[r]
        BY <2>2, <3>1
    <3> QED BY <1>1, <2>2, <2>5, <3>1, <3>2, SoundStable
  <2> QED BY <2>4, <2>5
<1> QED BY <1>4, <1>5, <1>6, Zenon DEF Next

-----------------------------------------------------------------------------
(* The voting rule *)

\* What a pair of votes of one replica promises.
VotePair(m, n) ==
    /\ Height(n.block) = Height(m.block) => n.block = m.block
    /\ Height(n.block) > Height(m.block) =>
          \E c \in Anc(n.block) :
              /\ Certified(c)
              /\ Height(Justify(Justify(m.block))) <= Height(c)
              /\ Height(c) < Height(n.block)

\* Two votes that agree with the voting rule keep doing so.
LEMMA VotePairStable ==
    ASSUME IInv, [Next]_vars, NEW m \in votes, NEW n \in votes, VotePair(m, n)
    PROVE  VotePair(m, n)'
<1> USE DEF IInv
<1>1. m.block \in Blocks /\ n.block \in Blocks
    BY DEF TypeOK
<1>2. \A b \in Blocks : /\ Justify(b)' = Justify(b) /\ Justify(b) \in Blocks
                        /\ Height(b)' = Height(b) /\ Anc(b)' = Anc(b) /\ Anc(b) \subseteq Blocks
    BY StepStable, TreeFacts DEF Justify, Height, Anc
<1>3. \A c : Certified(c) => Certified(c)'
    BY TypeStep, StepStable, CertifiedStable
<1>4. PICK j, k : j = Justify(m.block) /\ k = Justify(j)
    OBVIOUS
<1>5. j \in Blocks /\ k \in Blocks /\ Justify(m.block)' = j /\ Justify(j)' = k
    BY <1>1, <1>2, <1>4
<1>6. Height(Justify(Justify(m.block)))' = Height(k)'
    BY <1>5 DEF Height, Justify
<1>7. Height(Justify(Justify(m.block)))' = Height(Justify(Justify(m.block)))
    BY <1>2, <1>4, <1>5, <1>6
<1> QED BY <1>1, <1>2, <1>3, <1>7 DEF VotePair

\* What a vote promised of its voter's height and lock still holds when neither has
\* gone down.
LEMMA PromiseKept ==
    ASSUME TypeOK, TreeInv, [Next]_vars, NEW b \in Blocks, NEW q \in Replica,
           NEW l \in Blocks, b_lock'[q] = l,
           Height(b) <= vheight[q], Height(Justify(Justify(b))) <= Height(b_lock[q]),
           Height(b_lock[q]) <= Height(l), vheight[q] <= vheight'[q]
    PROVE  (Height(b) <= vheight[q] /\ Height(Justify(Justify(b))) <= Height(b_lock[q]))'
<1>1. \A c \in Blocks : /\ Justify(c)' = Justify(c) /\ Justify(c) \in Blocks
                        /\ Height(c)' = Height(c) /\ Height(c) \in Nat
    BY StepStable, TreeFacts DEF Justify, Height
<1>2. PICK j, k : j = Justify(b) /\ k = Justify(j)
    OBVIOUS
<1>3. /\ j \in Blocks /\ k \in Blocks /\ b_lock[q] \in Blocks
      /\ vheight[q] \in Nat /\ vheight'[q] \in Nat
    BY <1>1, <1>2, TypeStep DEF TypeOK
<1>4. /\ Justify(b)' = j /\ Justify(j)' = k
      /\ Height(k)' = Height(k) /\ Height(b)' = Height(b) /\ Height(l)' = Height(l)
    BY <1>1, <1>2, <1>3, Zenon
<1>5. Height(Justify(Justify(b)))' = Height(k)' /\ Height(b_lock[q])' = Height(l)'
    BY <1>4 DEF Height, Justify
<1>6. /\ Height(b) \in Nat /\ Height(k) \in Nat /\ Height(l) \in Nat
      /\ Height(b_lock[q]) \in Nat
    BY <1>1, <1>3, Zenon
<1>7. Height(b) <= vheight'[q] /\ Height(k) <= Height(l)
    BY <1>2, <1>3, <1>6
<1> QED BY <1>4, <1>5, <1>7, Zenon

\* Every step keeps the promises of the votes: the rule of on_receive_proposal
\* looks at vheight and b_lock, which the invariant ties to the votes cast before.
LEMMA VoteStep ==
    ASSUME IInv, FaultsTolerated, VHeightWide, [Next]_vars
    PROVE  VoteInv'
<1> USE DEF IInv
<1> DEFINE Promise(m) ==
        /\ Height(m.block) <= vheight[m.voter]
        /\ Height(Justify(Justify(m.block))) <= Height(b_lock[m.voter])
<1>1. SUFFICES ASSUME NEW m \in votes', m.voter \notin Amnesiac
               PROVE  /\ Promise(m)'
                      /\ \A n \in votes' : n.voter = m.voter => VotePair(m, n)'
    BY DEF VoteInv, VotePair
<1>2. \A b \in Blocks : /\ Justify(b)' = Justify(b) /\ Justify(b) \in Blocks
                        /\ Height(b)' = Height(b) /\ Height(b) \in Nat
                        /\ Anc(b)' = Anc(b) /\ Anc(b) \subseteq Blocks
    BY StepStable, TreeFacts DEF Justify, Height, Anc
<1>3. \A c : Certified(c) => Certified(c)'
    BY TypeStep, StepStable, CertifiedStable
<1>4. m.voter \in Replica /\ m.block \in Blocks'
    BY TypeStep DEF TypeOK
<1>5. \A v \in votes : v.block \in Blocks /\ v.voter \in Replica
    BY SMTT(20) DEF TypeOK
<1>6. ASSUME NEW v \in votes, NEW w \in votes, v.voter \notin Amnesiac, w.voter = v.voter
      PROVE  VotePair(v, w)'
    BY <1>6, VotePairStable DEF VoteInv, VotePair
<1>7. ASSUME NEW v \in votes, v.voter \notin Amnesiac,
             NEW l \in Blocks, b_lock'[v.voter] = l,
             Height(b_lock[v.voter]) <= Height(l), vheight[v.voter] <= vheight'[v.voter]
      PROVE  Promise(v)'
  <2>1. PICK b, q : b = v.block /\ q = v.voter
    OBVIOUS
  <2>2. /\ b \in Blocks /\ q \in Replica /\ b_lock'[q] = l
        /\ Height(b_lock[q]) <= Height(l) /\ vheight[q] <= vheight'[q]
    BY <1>5, <1>7, <2>1
  <2>3. Height(b) <= vheight[q] /\ Height(Justify(Justify(b))) <= Height(b_lock[q])
    BY <1>7, <2>1, Zenon DEF VoteInv
  <2>4. (Height(b) <= vheight[q] /\ Height(Justify(Justify(b))) <= Height(b_lock[q]))'
    BY <2>2, <2>3, PromiseKept
  <2> QED BY <2>1, <2>4 DEF Height, Justify
<1>8. ASSUME UNCHANGED votes, \A q \in Replica \ Amnesiac : vheight'[q] = vheight[q] /\ b_lock'[q] = b_lock[q]
      PROVE  /\ Promise(m)'
             /\ \A n \in votes' : n.voter = m.voter => VotePair(m, n)'
  <2>1. PICK l : l = b_lock[m.voter]
    OBVIOUS
  <2>2. l \in Blocks /\ vheight[m.voter] \in Nat
    BY <1>4, <2>1 DEF TypeOK
  <2>3. Promise(m)'
    BY <1>1, <1>2, <1>4, <1>7, <1>8, <2>1, <2>2
  <2> QED BY <1>1, <1>6, <1>8, <2>3
<1>9. CASE UNCHANGED vars
    BY <1>8, <1>9 DEF vars
<1>10. ASSUME NEW r \in Replica, NEW x \in Body, do_propose(r, x)
       PROVE  UNCHANGED votes /\ \A q \in Replica \ Amnesiac : vheight'[q] = vheight[q] /\ b_lock'[q] = b_lock[q]
    BY <1>10 DEF do_propose
<1>11. ASSUME NEW r \in Replica, NEW b \in Blocks, on_receive_vote(r, b)
       PROVE  UNCHANGED votes /\ \A q \in Replica \ Amnesiac : vheight'[q] = vheight[q] /\ b_lock'[q] = b_lock[q]
    BY <1>11 DEF on_receive_vote, network
<1>12. ASSUME NEW r \in Replica, reload_state_from_index(r)
       PROVE  UNCHANGED votes /\ \A q \in Replica \ Amnesiac : vheight'[q] = vheight[q] /\ b_lock'[q] = b_lock[q]
    BY <1>12 DEF reload_state_from_index, network, TypeOK
<1>13. ASSUME NEW r \in Replica, NEW p \in proposals, on_receive_proposal(r, p)
       PROVE  /\ Promise(m)'
              /\ \A n \in votes' : n.voter = m.voter => VotePair(m, n)'
  <2>1. PICK b, l : b = p.block /\ l = b_lock'[r]
    BY Zenon
  <2>2. b \in Blocks /\ update(r, b) /\ Height(b) \in 0..MaxHeight /\ vheight[r] \in Nat
    BY <1>13, <2>1 DEF on_receive_proposal, TypeOK, Height
  <2>3. vheight' = IF opinion(r, b) THEN [vheight EXCEPT ![r] = Height(b)] ELSE vheight
    BY <1>13, <2>1, <2>2, WideHeight DEF on_receive_proposal, do_vote
  <2>4. votes' = IF opinion(r, b) THEN votes \cup {[voter |-> r, block |-> b, to |-> p.proposer]}
                                  ELSE votes
    BY <1>13, <2>1 DEF on_receive_proposal, do_vote
  <2>5. /\ l \in Blocks /\ Height(b_lock[r]) <= Height(l)
        /\ Height(Justify(Justify(b))) <= Height(l)
        /\ \A q \in Replica \ {r} : b_lock'[q] = b_lock[q]
    BY <2>1, <2>2, UpdateFacts
  <2>6. \A q \in Replica : vheight[q] \in Nat /\ vheight[q] <= vheight'[q]
    <3>1. opinion(r, b) => Height(b) > vheight[r] /\ Height(b) \in Nat
        BY <2>2 DEF opinion
    <3>2. vheight \in [Replica -> Nat]
        BY DEF TypeOK
    <3> QED BY <2>3, <3>1, <3>2
  <2>7. ASSUME NEW v \in votes, v.voter \notin Amnesiac
        PROVE  Promise(v)'
    <3>1. CASE v.voter = r
        BY <1>7, <2>1, <2>5, <2>6, <2>7, <3>1
    <3>2. CASE v.voter # r
      <4>1. PICK k : k = b_lock[v.voter]
        OBVIOUS
      <4>2. k \in Blocks /\ b_lock'[v.voter] = k /\ Height(k) <= Height(k)
        BY <1>2, <1>5, <2>5, <3>2, <4>1 DEF TypeOK
      <4> QED BY <1>5, <1>7, <2>6, <2>7, <4>1, <4>2
    <3> QED BY <3>1, <3>2
  <2>8. CASE ~opinion(r, b)
    BY <1>1, <1>6, <2>4, <2>7, <2>8
  <2>9. CASE opinion(r, b)
    <3>1. PICK new : new = [voter |-> r, block |-> b, to |-> p.proposer]
        BY Zenon
    <3>2. /\ new.voter = r /\ new.block = b /\ votes' = votes \cup {new}
          /\ vheight'[r] = Height(b) /\ Height(b) > vheight[r]
        BY <2>3, <2>4, <2>9, <3>1 DEF opinion, TypeOK
    <3>3. PICK j, k : j = Justify(b) /\ k = Justify(j)
        OBVIOUS
    <3>4. /\ j \in Blocks /\ k \in Blocks /\ Height(b)' = Height(b)
          /\ Justify(b)' = j /\ Justify(j)' = k /\ Height(k)' = Height(k)
          /\ Height(l)' = Height(l)
        BY <1>2, <2>2, <2>5, <3>3
    <3>5. m = new => Promise(m)'
      <4>1. ASSUME m = new
            PROVE  /\ Height(m.block)' = Height(b)
                   /\ Height(Justify(Justify(m.block)))' = Height(k)
                   /\ Height(b_lock[m.voter])' = Height(l)
        BY <2>1, <3>2, <3>4, <4>1 DEF Height, Justify
      <4>2. Height(b) <= vheight'[r] /\ Height(k) <= Height(l)
        BY <1>2, <2>2, <2>5, <3>2, <3>3
      <4> QED BY <3>2, <4>1, <4>2
    <3>6. ASSUME NEW v \in votes, v.voter = r, r \notin Amnesiac
          PROVE  VotePair(new, v)' /\ VotePair(v, new)'
      <4>1. PICK u, i, g : u = v.block /\ i = Justify(u) /\ g = Justify(i)
        OBVIOUS
      <4>2. /\ u \in Blocks /\ i \in Blocks /\ g \in Blocks
            /\ Height(u) \in Nat /\ Height(u) <= vheight[r] /\ Height(g) <= Height(b_lock[r])
        BY <1>2, <1>5, <3>6, <4>1, SMTT(30) DEF VoteInv
      <4>3. /\ Height(v.block)' = Height(u) /\ Height(new.block)' = Height(b)
            /\ Anc(new.block)' = Anc(b)
            /\ Height(Justify(Justify(v.block)))' = Height(g)
        <5>1. /\ Height(u)' = Height(u) /\ Justify(u)' = i /\ Justify(i)' = g
              /\ Height(g)' = Height(g) /\ Anc(b)' = Anc(b)
            BY <1>2, <2>2, <4>1, <4>2
        <5> QED BY <3>2, <3>4, <4>1, <5>1 DEF Height, Justify, Anc
      <4>4. Height(u) < Height(b)
        BY <1>2, <2>2, <3>2, <4>2
      <4>5. VotePair(new, v)'
        BY <1>2, <2>2, <4>2, <4>3, <4>4 DEF VotePair
      <4>6. \E c \in Anc(b) : /\ Certified(c) /\ Height(g) <= Height(c) /\ Height(c) < Height(b)
        <5>1. b # Genesis /\ Height(b_lock[r]) \in Nat /\ b_lock[r] \in Blocks /\ Certified(b_lock[r])
              /\ Height(b_lock[r]) <= vheight[r]
          <6>1. b_lock[r] \in Blocks
            BY DEF TypeOK
          <6>2. Certified(b_lock[r]) /\ Height(b_lock[r]) <= vheight[r]
            BY DEF ReplicaInv
          <6>3. Height(Genesis) = 0
            BY TreeFacts
          <6>4. b # Genesis
            BY <2>2, <3>2, <6>3, SMTT(30)
          <6> QED BY <1>2, <6>1, <6>2, <6>4
        <5>2. CASE Height(j) > Height(b_lock[r])
          <6>1. j \in Anc(b) /\ Certified(j) /\ Height(j) < Height(b)
            <7>1. Certified(j) /\ Height(j) < Height(b)
                BY <2>2, <3>3, <5>1, TreeFacts
            <7>2. WellPlaced(b)
                BY <2>2 DEF TreeInv
            <7>3. j \in Anc(b)
                BY <3>3, <5>1, <7>2 DEF WellPlaced
            <7> QED BY <7>1, <7>3
          <6> QED BY <1>2, <3>4, <4>2, <5>1, <5>2, <6>1
        <5>3. CASE b_lock[r] \in Anc(b)
          <6>1. Height(b_lock[r]) < Height(b)
            BY <2>2, <3>2, <5>1
          <6> QED BY <4>2, <5>1, <5>3, <6>1
        <5> QED BY <2>9, <3>3, <5>2, <5>3 DEF opinion
      <4>7. \E c \in Anc(b) : /\ Certified(c)' /\ Height(g) <= Height(c)' /\ Height(c)' < Height(b)
        BY <1>2, <1>3, <2>2, <4>6
      <4>8. VotePair(v, new)'
        <5>1. PICK c \in Anc(b) : Certified(c)' /\ Height(g) <= Height(c)' /\ Height(c)' < Height(b)
            BY <4>7
        <5>2. Height(new.block)' # Height(v.block)'
            BY <2>2, <4>2, <4>3, <4>4
        <5>3. /\ c \in Anc(new.block)' /\ Height(c)' < Height(new.block)'
              /\ Height(Justify(Justify(v.block)))' <= Height(c)'
            BY <4>3, <5>1
        <5> QED BY <5>1, <5>2, <5>3, Zenon DEF VotePair
      <4> QED BY <4>5, <4>8
    <3>7. VotePair(new, new)'
      <4>1. Height(new.block)' \in Nat
        BY <1>2, <2>2, <3>2, <3>4 DEF Height
      <4> QED BY <4>1 DEF VotePair
    <3>8. Promise(m)'
        BY <1>1, <2>7, <3>2, <3>5
    <3>9. ASSUME NEW n \in votes', n.voter = m.voter
          PROVE  VotePair(m, n)'
        BY <1>1, <1>6, <3>2, <3>6, <3>7, <3>9
    <3> QED BY <3>8, <3>9
  <2> QED BY <2>8, <2>9
<1> QED BY <1>8, <1>9, <1>10, <1>11, <1>12, <1>13 DEF Next

\* The walk of update() from a three-chain meets b_exec, since both are committed.
LEMMA BreachStep ==
    ASSUME IInv, FaultsTolerated, [Next]_vars
    PROVE  NoSafetyBreach'
<1> USE DEF IInv, NoSafetyBreach
<1>1. ASSUME NEW r \in Replica, NEW m \in proposals, on_receive_proposal(r, m)
      PROVE  NoSafetyBreach'
  <2>1. m.block \in Blocks /\ update(r, m.block)
    BY <1>1 DEF on_receive_proposal, TypeOK
  <2> QED BY <2>1, UpdateFacts, Zenon
<1>2. CASE ~(\E r \in Replica, m \in proposals : on_receive_proposal(r, m))
    BY <1>2, Zenon DEF Next, vars, do_propose, on_receive_vote, reload_state_from_index
<1> QED BY <1>1, <1>2, SMTT(20)

\* The constructor of HotstuffCore establishes the invariant.
LEMMA IInvInit == Init => IInv
<1> SUFFICES ASSUME Init PROVE IInv
    OBVIOUS
<1>1. TypeOK
    BY TypeInit
<1>2. /\ Blocks = {Genesis} /\ tree[Genesis] = genesis_block
      /\ Height(Genesis) = 0 /\ Parent(Genesis) = Genesis /\ Justify(Genesis) = Genesis
      /\ Anc(Genesis) = {Genesis} /\ Certified(Genesis) /\ Committed(Genesis)
    BY DEF Init, Blocks, genesis_block, Height, Parent, Justify, Anc, Certified, Committed
<1>3. TreeInv
    BY <1>2 DEF TreeInv, WellPlaced
<1>4. ReplicaInv /\ LeafExtendsCertificate /\ DecidedOnDisk
    BY <1>2 DEF Init, ReplicaInv, LeafExtendsCertificate, DecidedOnDisk
<1>5. VoteInv /\ NoSafetyBreach
    BY DEF Init, VoteInv, NoSafetyBreach
<1> QED BY <1>1, <1>3, <1>4, <1>5 DEF IInv

\* Every handler of every replica keeps the invariant.
LEMMA InvariantStep ==
    ASSUME FaultsTolerated, VHeightWide
    PROVE  IInv /\ [Next]_vars => IInv'
<1> SUFFICES ASSUME IInv, [Next]_vars
             PROVE  IInv'
    OBVIOUS
<1>1. LocalInv' /\ VoteInv' /\ NoSafetyBreach'
    BY LocalPart, LocalStep, VoteStep, BreachStep DEF IInv
<1>2. (\A r \in Replica : Sound(r))'
    BY SoundStep, SMTT(20)
<1>3. ReplicaInv' /\ DecidedOnDisk'
    BY <1>1, <1>2, Zenon DEF LocalInv, Sound, ReplicaInv, DecidedOnDisk
<1> QED BY <1>1, <1>3 DEF IInv, LocalInv

\* The inductive invariant holds in every state, whenever two quorums share a
\* replica that never reloads (nfaulty of replica_config.cc) and every height
\* fits vheight: it ties each vote to the lock the voter held.
THEOREM Invariance == FaultsTolerated /\ VHeightWide => (Spec => []IInv)
<1> SUFFICES ASSUME FaultsTolerated, VHeightWide
             PROVE  Spec => []IInv
    OBVIOUS
<1>1. IInv /\ [Next]_vars => IInv'
    BY InvariantStep
<1> QED BY IInvInit, <1>1, PTL DEF Spec

\* The invariant rules out two decisions at one height.
LEMMA InvariantAgrees ==
    ASSUME IInv, FaultsTolerated
    PROVE  Agreement
<1> USE DEF IInv
<1>1. CommittedForever
    BY CommittedExtended
<1>2. ASSUME NEW r \in Replica, NEW q \in Replica, Height(b_exec[r]) <= Height(b_exec[q])
      PROVE  decided[r] \subseteq decided[q]
  <2>1. /\ b_exec[r] \in Blocks /\ b_exec[q] \in Blocks
        /\ Committed(b_exec[r]) /\ Certified(b_exec[q])
        /\ decided[r] = Anc(b_exec[r]) /\ decided[q] = Anc(b_exec[q])
    BY CommittedCertified DEF TypeOK, ReplicaInv
  <2>2. Height(b_exec[r]) \in Nat /\ Height(b_exec[q]) \in Nat
    BY <2>1, TreeFacts
  <2>3. b_exec[r] \in Anc(b_exec[q])
    BY <1>1, <1>2, <2>1, <2>2 DEF CommittedForever
  <2> QED BY <2>1, <2>3, AncestorFacts
<1>3. ASSUME NEW e \in Blocks, NEW a \in Anc(e), NEW b \in Anc(e), Height(a) = Height(b)
      PROVE  a = b
  <2>1. /\ a \in Blocks /\ b \in Blocks /\ Height(a) \in Nat /\ Height(b) \in Nat
        /\ Anc(b) = {c \in Anc(e) : Height(c) <= Height(b)}
    BY TreeFacts DEF TreeInv, WellPlaced
  <2>2. a \in Anc(b)
    BY <1>3, <2>1
  <2>3. a # b => Height(a) < Height(b)
    BY <2>1, <2>2, SMTT(30) DEF TreeInv, WellPlaced
  <2> QED BY <1>3, <2>1, <2>3
<1>4. \A r \in Replica : /\ b_exec[r] \in Blocks /\ decided[r] = Anc(b_exec[r])
                         /\ Height(b_exec[r]) \in Nat
    BY TreeFacts, SMTT(20) DEF TypeOK, ReplicaInv
<1> SUFFICES ASSUME NEW r \in Replica, NEW q \in Replica,
                    NEW a \in decided[r], NEW b \in decided[q], Height(a) = Height(b)
             PROVE  a = b
    BY Zenon DEF Agreement
<1>5. decided[r] \subseteq decided[q] \/ decided[q] \subseteq decided[r]
    BY <1>2, <1>4
<1> QED BY <1>3, <1>4, <1>5

\* Any number of replicas, proposers and restarts within the bound of
\* FaultsTolerated: no two replicas decide different blocks at one height.
THEOREM AgreementHolds == FaultsTolerated /\ VHeightWide => (Spec => []Agreement)
<1> SUFFICES ASSUME FaultsTolerated, VHeightWide
             PROVE  Spec => []Agreement
    OBVIOUS
<1>1. IInv => Agreement
    BY InvariantAgrees
<1>2. Spec => []IInv
    BY Invariance
<1> QED BY <1>1, <1>2, PTL

\* A block that heads a certified three-chain is extended by every block that
\* is ever certified at its height or above.
THEOREM CommittedForeverHolds == FaultsTolerated /\ VHeightWide => (Spec => []CommittedForever)
<1> SUFFICES ASSUME FaultsTolerated, VHeightWide
             PROVE  Spec => []CommittedForever
    OBVIOUS
<1>1. IInv => CommittedForever
    BY CommittedExtended DEF IInv
<1>2. Spec => []IInv
    BY Invariance
<1> QED BY <1>1, <1>2, PTL

\* update() never throws "safety breached".
THEOREM NoSafetyBreachHolds == FaultsTolerated /\ VHeightWide => (Spec => []NoSafetyBreach)
<1> SUFFICES ASSUME FaultsTolerated, VHeightWide
             PROVE  Spec => []NoSafetyBreach
    OBVIOUS
<1>1. IInv => NoSafetyBreach
    BY DEF IInv
<1>2. Spec => []IInv
    BY Invariance
<1> QED BY <1>1, <1>2, PTL

\* load_decided_block finds every block of the decided index on disk, although
\* update() only ever writes the locked block and its ancestors.
THEOREM DecidedOnDiskHolds == FaultsTolerated /\ VHeightWide => (Spec => []DecidedOnDisk)
<1> SUFFICES ASSUME FaultsTolerated, VHeightWide
             PROVE  Spec => []DecidedOnDisk
    OBVIOUS
<1>1. IInv => DecidedOnDisk
    BY DEF IInv
<1>2. Spec => []IInv
    BY Invariance
<1> QED BY <1>1, <1>2, PTL

\* With no assumption about quorums, restarts or the width of vheight, every replica
\* has decided one chain that ends in a committed block, and its pointers refer to
\* certified blocks: what one replica relies on does not depend on the others.
THEOREM LocalInvariance == Spec => []LocalInv
<1>1. Init => LocalInv
    BY IInvInit, LocalPart
<1> QED BY <1>1, LocalStep, PTL DEF Spec

\* Although update_hqc moves b_leaf on the event thread while do_propose mints on
\* the application thread, the next proposal extends the block it certifies.
THEOREM LeafExtendsCertificateHolds == Spec => []LeafExtendsCertificate
<1>1. LocalInv => LeafExtendsCertificate
    BY DEF LocalInv
<1> QED BY <1>1, LocalInvariance, PTL

\* Even where agreement is lost a replica only extends what it has decided: the walk
\* of update() down to b_exec makes it throw instead.
THEOREM OwnLogKeptHolds == Spec => OwnLogKept
<1>1. LocalInv /\ [Next]_vars => [\A r \in Replica : b_exec[r] \in Anc(b_exec[r])']_vars
    BY HoldsStep, Zenon
<1> QED BY <1>1, LocalInvariance, PTL DEF Spec, OwnLogKept

-----------------------------------------------------------------------------
(* Refinement *)

\* The log of a replica names, at each height up to b_exec, the decided block
\* of that height; stated for the state before a step and the one after it.
LogShape(r) ==
    /\ DecidedLog(r) = [h \in 1..Height(b_exec[r]) |-> DecidedLog(r)[h]]
    /\ \A h \in 1..Height(b_exec[r]) :
          DecidedLog(r)[h] \in decided[r] /\ Height(DecidedLog(r)[h]) = h
    /\ Height(b_exec[r]) \in Nat

\* The decided log has one block per height.
LEMMA LogShapeNow ==
    ASSUME TypeOK, TreeInv, ReplicaInv, NEW r \in Replica
    PROVE  LogShape(r)
<1>1. b_exec[r] \in Blocks /\ decided[r] = Anc(b_exec[r]) /\ Height(b_exec[r]) \in Nat
    BY DEF TypeOK, ReplicaInv, Height
<1>2. \A h \in 1..Height(b_exec[r]) : \E b \in decided[r] : Height(b) = h
    BY <1>1 DEF TreeInv, WellPlaced
<1>3. ASSUME NEW h \in 1..Height(b_exec[r])
      PROVE  DecidedLog(r)[h] \in decided[r] /\ Height(DecidedLog(r)[h]) = h
    BY <1>2 DEF DecidedLog
<1>4. DecidedLog(r) = [h \in 1..Height(b_exec[r]) |-> DecidedLog(r)[h]]
    BY DEF DecidedLog
<1> QED BY <1>1, <1>3, <1>4 DEF LogShape

\* The decided log has one block per height after a step.
LEMMA LogShapeNext ==
    ASSUME TypeOK', TreeInv', ReplicaInv', NEW r \in Replica
    PROVE  LogShape(r)'
<1>1. b_exec'[r] \in Blocks' /\ decided'[r] = Anc(b_exec[r])' /\ Height(b_exec[r])' \in Nat
    BY DEF TypeOK, ReplicaInv, Height
<1>2. \A h \in 1..Height(b_exec[r])' : \E b \in decided'[r] : Height(b)' = h
    BY <1>1 DEF TreeInv, WellPlaced, Height, Anc
<1>3. ASSUME NEW h \in 1..Height(b_exec[r])'
      PROVE  DecidedLog(r)'[h] \in decided'[r] /\ Height(DecidedLog(r)[h])' = h
  <2>1. DecidedLog(r)'[h] = CHOOSE b \in decided'[r] : Height(b)' = h
    BY DEF DecidedLog, Height
  <2>2. \E b \in decided'[r] : Height(b)' = h
    BY <1>2
  <2> QED BY <2>1, <2>2 DEF Height
<1>4. DecidedLog(r)' = [h \in 1..Height(b_exec[r])' |-> DecidedLog(r)'[h]]
    BY DEF DecidedLog
<1> QED BY <1>1, <1>3, <1>4 DEF LogShape

\* A step changes what at most one replica has decided, and only adds to it.
LEMMA OneDecides ==
    ASSUME IInv, FaultsTolerated, Next
    PROVE  \E r \in Replica :
              /\ \A q \in Replica \ {r} : b_exec'[q] = b_exec[q] /\ decided'[q] = decided[q]
              /\ decided[r] \subseteq decided'[r]
<1>1. ASSUME NEW r \in Replica, NEW m \in proposals, on_receive_proposal(r, m)
      PROVE  /\ \A q \in Replica \ {r} : b_exec'[q] = b_exec[q] /\ decided'[q] = decided[q]
             /\ decided[r] \subseteq decided'[r]
  <2>1. m.block \in Blocks /\ update(r, m.block)
    BY <1>1, SMTT(20) DEF on_receive_proposal, IInv, TypeOK
  <2> QED BY <2>1, UpdateFacts
<1>2. ASSUME NEW r \in Replica,
             \/ \E x \in Body : do_propose(r, x)
             \/ \E b \in Blocks : on_receive_vote(r, b)
             \/ reload_state_from_index(r)
      PROVE  /\ \A q \in Replica \ {r} : b_exec'[q] = b_exec[q] /\ decided'[q] = decided[q]
             /\ decided[r] \subseteq decided'[r]
    BY <1>2, Zenon DEF do_propose, on_receive_vote, reload_state_from_index
<1> QED BY <1>1, <1>2 DEF Next

\* A step extends the log of one replica, along the chain of the others, or none.
LEMMA LogStep ==
    ASSUME IInv, Agreement, IInv', Agreement', FaultsTolerated, [Next]_vars
    PROVE  [Log!Next]_decided_log
<1>1. CASE UNCHANGED vars
  <2>1. tree' = tree /\ b_exec' = b_exec /\ decided' = decided
    BY <1>1 DEF vars
  <2>2. \A r \in Replica : DecidedLog(r)' = DecidedLog(r)
    BY <2>1, SMT DEF DecidedLog, Height
  <2> QED BY <2>2 DEF decided_log
<1> USE DEF IInv
<1>2. CASE Next
  <2>1. PICK r \in Replica :
            /\ \A q \in Replica \ {r} : b_exec'[q] = b_exec[q] /\ decided'[q] = decided[q]
            /\ decided[r] \subseteq decided'[r]
    BY <1>2, OneDecides
  <2>2. \A q \in Replica : LogShape(q) /\ LogShape(q)'
    BY LogShapeNow, LogShapeNext, SMTT(20)
  <2>3. \A q \in Replica : /\ b_exec[q] \in Blocks /\ decided[q] = Anc(b_exec[q])
                           /\ decided[q] \subseteq Blocks /\ b_exec[q] \in decided[q]
    BY TreeFacts, Zenon DEF TypeOK, ReplicaInv
  <2>4. \A b \in Blocks : Height(b)' = Height(b)
    BY <1>2, StepStable DEF Height
  <2>5. ASSUME NEW q \in Replica, NEW h \in 1..Height(b_exec[q])
        PROVE  DecidedLog(q)[h] \in decided'[q] /\ Height(DecidedLog(q)[h]) = h
               /\ DecidedLog(q)[h] \in Blocks
    BY <2>1, <2>2, <2>3 DEF LogShape
  <2>6. ASSUME NEW q \in Replica \ {r}
        PROVE  DecidedLog(q)' = DecidedLog(q)
    <3>1. Height(b_exec[q])' = Height(b_exec[q])
      <4>1. PICK e : e = b_exec[q]
        OBVIOUS
      <4>2. Height(e)' = Height(e)
        BY <2>3, <2>4, <4>1
      <4> QED BY <2>1, <4>1, <4>2, Zenon DEF Height
    <3>2. ASSUME NEW h \in 1..Height(b_exec[q])
          PROVE  DecidedLog(q)'[h] = DecidedLog(q)[h]
      <4>1. PICK a, b : a = DecidedLog(q)[h] /\ b = DecidedLog(q)'[h]
        OBVIOUS
      <4>2. a \in decided[q] /\ Height(a) = h
        BY <2>2, <4>1 DEF LogShape
      <4>3. b \in decided[q] /\ Height(b)' = h
        BY <2>1, <2>2, <3>1, <4>1 DEF LogShape, Height
      <4>4. Height(b) = h
        BY <2>3, <2>4, <4>3
      <4> QED BY <4>1, <4>2, <4>3, <4>4 DEF Agreement
    <3>3. DecidedLog(q)' = [h \in 1..Height(b_exec[q]) |-> DecidedLog(q)'[h]]
        BY <2>2, <3>1 DEF LogShape
    <3>4. DecidedLog(q) = [h \in 1..Height(b_exec[q]) |-> DecidedLog(q)[h]]
        BY <2>2 DEF LogShape
    <3> QED BY <3>2, <3>3, <3>4, SMTT(20)
  <2>7. ASSUME NEW s \in Replica, NEW t \in Replica, Height(b_exec[s])' <= Height(b_exec[t])'
        PROVE  Log!IsPrefix(DecidedLog(s)', DecidedLog(t)')
    <3>1. /\ DOMAIN (DecidedLog(s)') = 1..Height(b_exec[s])'
          /\ DOMAIN (DecidedLog(t)') = 1..Height(b_exec[t])'
          /\ Height(b_exec[s])' \in Nat /\ Height(b_exec[t])' \in Nat
        BY <2>2 DEF LogShape
    <3>2. ASSUME NEW h \in 1..Height(b_exec[s])'
          PROVE  DecidedLog(s)'[h] = DecidedLog(t)'[h]
      <4>1. PICK a, b : a = DecidedLog(s)'[h] /\ b = DecidedLog(t)'[h]
        OBVIOUS
      <4>2. h \in 1..Height(b_exec[t])'
        BY <2>7, <3>1
      <4>3. a \in decided'[s] /\ Height(a)' = h /\ b \in decided'[t] /\ Height(b)' = h
        BY <2>2, <4>1, <4>2 DEF LogShape, Height
      <4> QED BY <4>1, <4>3 DEF Agreement
    <3> QED BY <2>7, <3>1, <3>2 DEF Log!IsPrefix
  <2>8. Log!IsPrefix(DecidedLog(r), DecidedLog(r)')
    <3>1. PICK e : e = b_exec[r]
        OBVIOUS
    <3>2. e \in Blocks /\ e \in decided'[r] /\ Height(e)' = Height(b_exec[r]) /\ Height(e) \in Nat
      <4>1. e \in Blocks /\ e \in decided'[r]
        BY <2>1, <2>3, <3>1
      <4> QED BY <2>4, <3>1, <4>1, TreeFacts
    <3>3. Height(e)' <= Height(b_exec[r])'
      <4>1. b_exec'[r] \in Blocks' /\ decided'[r] = Anc(b_exec[r])'
        BY Zenon DEF TypeOK, ReplicaInv, Anc
      <4>2. PICK f : f = b_exec'[r]
        OBVIOUS
      <4>3. f \in Blocks' /\ e \in Anc(f)' /\ Height(b_exec[r])' = Height(f)'
        BY <3>2, <4>1, <4>2, SMTT(30) DEF Anc, Height
      <4>4. e # f => Height(e)' < Height(f)'
        BY <4>3 DEF TreeInv, WellPlaced
      <4>5. Height(e)' \in Nat /\ Height(f)' \in Nat
        BY <2>2, <3>2, <4>3 DEF LogShape
      <4> QED BY <4>3, <4>4, <4>5, SMTT(20)
    <3>4. /\ DOMAIN DecidedLog(r) = 1..Height(b_exec[r])
          /\ DOMAIN (DecidedLog(r)') = 1..Height(b_exec[r])'
          /\ Height(b_exec[r]) \in Nat /\ Height(b_exec[r])' \in Nat
          /\ Height(b_exec[r]) <= Height(b_exec[r])'
        BY <2>2, <3>2, <3>3 DEF LogShape
    <3>5. ASSUME NEW h \in 1..Height(b_exec[r])
          PROVE  DecidedLog(r)[h] = DecidedLog(r)'[h]
      <4>1. PICK a, b : a = DecidedLog(r)[h] /\ b = DecidedLog(r)'[h]
        OBVIOUS
      <4>2. a \in decided'[r] /\ Height(a)' = h
        BY <2>4, <2>5, <4>1
      <4>3. h \in 1..Height(b_exec[r])'
        BY <3>4
      <4>4. b \in decided'[r] /\ Height(b)' = h
        BY <2>2, <4>1, <4>3 DEF LogShape, Height
      <4> QED BY <4>1, <4>2, <4>4 DEF Agreement
    <3> QED BY <3>4, <3>5 DEF Log!IsPrefix
  <2>9. \A q \in Replica : \/ Log!IsPrefix(DecidedLog(q), DecidedLog(r)')
                           \/ Log!IsPrefix(DecidedLog(r)', DecidedLog(q))
    <3>1. ASSUME NEW q \in Replica \ {r}
          PROVE  \/ Log!IsPrefix(DecidedLog(q), DecidedLog(r)')
                 \/ Log!IsPrefix(DecidedLog(r)', DecidedLog(q))
      <4>1. Height(b_exec[q])' \in Nat /\ Height(b_exec[r])' \in Nat
        BY <2>2 DEF LogShape
      <4> QED BY <2>6, <2>7, <4>1
    <3> QED BY <2>8, <3>1
  <2>10. Log!Extend(r)
    BY <2>6, <2>8, <2>9 DEF Log!Extend, decided_log
  <2> QED BY <2>10 DEF Log!Next
<1> QED BY <1>1, <1>2

\* The core implements the replicated log: what a replica has decided only
\* ever grows, and all replicas grow along one chain, restarts included.
THEOREM Refinement == FaultsTolerated /\ VHeightWide => (Spec => ImplementsLog)
<1> SUFFICES ASSUME FaultsTolerated, VHeightWide
             PROVE  Spec => ImplementsLog
    OBVIOUS
<1>1. Init => Log!Init
  <2> SUFFICES ASSUME Init PROVE Log!Init
    OBVIOUS
  <2>1. \A r \in Replica : Height(b_exec[r]) = 0
    BY DEF Init, Height, genesis_block
  <2>2. 1..0 = {}
    OBVIOUS
  <2>3. \A r \in Replica : DecidedLog(r) = [i \in {} |-> 0]
    BY <2>1, <2>2 DEF DecidedLog
  <2> QED BY <2>3 DEF Log!Init, decided_log
<1>2. IInv /\ Agreement /\ (IInv /\ Agreement)' /\ [Next]_vars => [Log!Next]_decided_log
    BY LogStep
<1>3. Spec => [](IInv /\ Agreement)
    BY Invariance, AgreementHolds, PTL
<1> QED BY <1>1, <1>2, <1>3, PTL DEF Spec, ImplementsLog, Log!Spec

=============================================================================
