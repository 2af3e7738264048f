---------------------------- MODULE HotstuffCore ----------------------------
(***************************************************************************)
(* The consensus core: class HotstuffCore (hotstuff/consensus.cc) together *)
(* with the proposal entry point of HotstuffAppBase (hotstuff/hotstuff.cc) *)
(* and the parts of HotstuffBlock and QuorumCertificate the                *)
(* core's handlers call.  Replicas run do_propose on the application       *)
(* thread and handle ProposalEvents and VoteEvents one at a time on the    *)
(* event-queue thread; the network delivers any message that was sent, at  *)
(* any later time, any number of times or never.                           *)
(*                                                                         *)
(* A block is named by its hash; tree holds the content of every block     *)
(* ever minted.  A handler finds all predecessors of its block in the      *)
(* replica's BlockStore, because an event is parked until they have been   *)
(* fetched, so the store itself does not appear here.  The field           *)
(* anc of a block is the set of blocks its parent pointers lead to, itself *)
(* included: the loops of consensus.cc that walk parent pointers down to a *)
(* height become membership in anc.                                        *)
(***************************************************************************)
EXTENDS Integers, FiniteSets

CONSTANTS
    Replica,         \* the replicas listed in ReplicaConfig
    Amnesiac,        \* those of them that may crash and reload from disk
    Proposers,       \* those whose application thread calls do_propose
    Body,            \* what may differ between two headers with the same
                     \* parent and the same certified block: the VM block,
                     \* and which quorum signed the certificate
    Genesis,         \* the hash of the genesis block
    Hash(_, _, _),   \* the header hash of (parent, certified block, body)
    MaxHeight,       \* bound: no block is minted above this height
    MaxBlocks,       \* bound: no more distinct blocks are minted
    VHeightModulus   \* vheight is a uint32_t: heights are stored modulo 2^32

ASSUME ConstantsAssumption ==
    /\ IsFiniteSet(Replica)
    /\ Amnesiac \subseteq Replica
    /\ Proposers \subseteq Replica
    /\ MaxHeight \in Nat
    /\ VHeightModulus \in Nat \ {0}

VARIABLES
    tree,            \* [hash -> block content], every block minted so far
    proposals,       \* ProposeMessages broadcast so far
    votes,           \* VoteMessages sent so far
    vheight,         \* [Replica -> height last voted at, truncated]
    hqc,             \* [Replica -> block of the highest known certificate]
    b_leaf,          \* [Replica -> block the next proposal extends]
    b_lock,          \* [Replica -> locked block]
    b_exec,          \* [Replica -> last executed block]
    decided,         \* [Replica -> blocks flagged decided and indexed]
    disk,            \* [Replica -> blocks written to disk]
    halted           \* replicas whose event thread threw "safety breached"

network == <<tree, proposals, votes>>
vars == <<tree, proposals, votes, vheight, hqc, b_leaf, b_lock, b_exec,
          decided, disk, halted>>

-----------------------------------------------------------------------------
(* Blocks and quorums *)

Blocks == DOMAIN tree
Parent(b) == tree[b].parent
Justify(b) == tree[b].justify
Height(b) == tree[b].height
Anc(b) == tree[b].anc

\* The root of every tree; it is decided from the start and has no
\* predecessors, so its own pointers are never followed.
genesis_block ==
    [parent |-> Genesis, justify |-> Genesis, height |-> 0, anc |-> {Genesis}]

\* mint_block fills the header; set_parent gives the block its height.
mint_block(p, j, b) ==
    [parent |-> p, justify |-> j, height |-> Height(p) + 1,
     anc |-> Anc(p) \cup {b}]

nfaulty_half == Cardinality(Replica) \div 2        \* mutant: a simple majority
nfaulty == Cardinality(Replica) \div 3
nmajority == Cardinality(Replica) - nfaulty
has_quorum_strict(signers) == Cardinality(signers) > nmajority  \* mutant: off by one
has_quorum(signers) == Cardinality(signers) >= nmajority

\* The replicas that have signed b, and the blocks a certificate can exist
\* for (the genesis certificate is accepted without signatures).
Signers(b) == {m.voter : m \in {v \in votes : v.block = b}}
Certified(b) == b = Genesis \/ has_quorum(Signers(b))

-----------------------------------------------------------------------------
Init ==
    /\ tree = [b \in {Genesis} |-> genesis_block]
    /\ proposals = {}
    /\ votes = {}
    /\ vheight = [r \in Replica |-> 0]
    /\ hqc = [r \in Replica |-> Genesis]
    /\ b_leaf = [r \in Replica |-> Genesis]
    /\ b_lock = [r \in Replica |-> Genesis]
    /\ b_exec = [r \in Replica |-> Genesis]
    /\ decided = [r \in Replica |-> {Genesis}]
    /\ disk = [r \in Replica |-> {Genesis}]
    /\ halted = {}

\* mutant: b_leaf stays where this replica's own proposals had put it.
update_hqc_keep_leaf(r, b) ==
    /\ UNCHANGED b_leaf
    /\ hqc' = [hqc EXCEPT ![r] = IF Height(b) > Height(hqc[r]) THEN b ELSE @]

\* A strictly higher certified block becomes hqc, and the next proposal is
\* made on top of it: b_leaf drops whatever this replica had proposed beyond.
update_hqc(r, b) ==
    IF Height(b) > Height(hqc[r])
    THEN /\ hqc' = [hqc EXCEPT ![r] = b]
         /\ b_leaf' = [b_leaf EXCEPT ![r] = b]
    ELSE UNCHANGED <<hqc, b_leaf>>

\* The application thread mints a block on b_leaf that carries hqc, under
\* proposal_mutex.  The header does not name its proposer: two replicas that
\* propose the same body on the same parent and certificate mint one block.
do_propose(r, x) ==
    LET b == Hash(b_leaf[r], hqc[r], x)
        minted == mint_block(b_leaf[r], hqc[r], b)
    IN /\ r \in Proposers \ halted
       /\ Height(b_leaf[r]) < MaxHeight
       /\ b \in Blocks => tree[b] = minted            \* hashes do not collide
       /\ Cardinality(Blocks \cup {b}) <= MaxBlocks
       /\ tree' = [i \in Blocks \cup {b} |-> IF i \in Blocks THEN tree[i] ELSE minted]
       /\ b_leaf' = [b_leaf EXCEPT ![r] = b]
       /\ proposals' = proposals \cup {[block |-> b, proposer |-> r]}
       /\ UNCHANGED <<votes, vheight, hqc, b_lock, b_exec, decided, disk, halted>>

\* mutants: vote without looking at the lock, or at the last voted height.
opinion_no_lock(r, b) == Height(b) > vheight[r]
opinion_no_vheight(r, b) ==
    \/ Height(Justify(b)) > Height(b_lock[r])
    \/ b_lock[r] \in Anc(b)

\* The voting rule of on_receive_proposal.
opinion(r, b) ==
    /\ Height(b) > vheight[r]
    /\ \/ Height(Justify(b)) > Height(b_lock[r])
       \/ b_lock[r] \in Anc(b)

\* do_vote: sign b and send the signature to the proposer named in the message.
do_vote(r, b, p) ==
    /\ vheight' = [vheight EXCEPT ![r] = Height(b) % VHeightModulus]
    /\ votes' = votes \cup {[voter |-> r, block |-> b, to |-> p]}

\* The three early-return conditions of update(): how far a new block's
\* justify chain blk2, blk1, blk gets.
Certifies(r, n) == Justify(n) \notin decided[r]
Locks(r, n) ==
    /\ Certifies(r, n)
    /\ Justify(Justify(n)) \notin decided[r]
Commits(r, n) ==
    LET blk2 == Justify(n)
        blk1 == Justify(blk2)
        blk == Justify(blk1)
    IN /\ Locks(r, n)
       /\ blk \notin decided[r]
       /\ Parent(blk2) = blk1
       /\ Parent(blk1) = blk

\* mutant: the locked block goes to disk without its ancestors.
lock_top_only(r, n) ==
    LET blk1 == Justify(Justify(n))
        top == IF Height(blk1) > Height(b_lock[r]) THEN blk1 ELSE b_lock[r]
    IN IF Locks(r, n)
       THEN /\ b_lock' = [b_lock EXCEPT ![r] = top]
            /\ disk' = [disk EXCEPT ![r] = @ \cup {top}]
       ELSE UNCHANGED <<b_lock, disk>>

\* b_lock moves up to blk1 and is written to disk with all its ancestors.
lock(r, n) ==
    LET blk1 == Justify(Justify(n))
        top == IF Height(blk1) > Height(b_lock[r]) THEN blk1 ELSE b_lock[r]
    IN IF Locks(r, n)
       THEN /\ b_lock' = [b_lock EXCEPT ![r] = top]
            /\ disk' = [disk EXCEPT ![r] = @ \cup Anc(top)]
       ELSE UNCHANGED <<b_lock, disk>>

\* mutant: the block locked by n is committed, one certificate too early.
commit_two_chain(r, n) ==
    LET blk == Justify(Justify(n))
    IN IF Locks(r, n) /\ Parent(Justify(n)) = blk
       THEN IF b_exec[r] \in Anc(blk)
            THEN /\ decided' = [decided EXCEPT ![r] = @ \cup Anc(blk)]
                 /\ b_exec' = [b_exec EXCEPT ![r] = blk]
                 /\ UNCHANGED halted
            ELSE /\ halted' = halted \cup {r}
                 /\ UNCHANGED <<decided, b_exec>>
       ELSE UNCHANGED <<decided, b_exec, halted>>

\* Everything between b_exec and blk is decided, applied and indexed in one
\* transaction; the thread throws when the walk from blk misses b_exec.
commit(r, n) ==
    LET blk == Justify(Justify(Justify(n)))
    IN IF Commits(r, n)
       THEN IF b_exec[r] \in Anc(blk)
            THEN /\ decided' = [decided EXCEPT ![r] = @ \cup Anc(blk)]
                 /\ b_exec' = [b_exec EXCEPT ![r] = blk]
                 /\ UNCHANGED halted
            ELSE /\ halted' = halted \cup {r}
                 /\ UNCHANGED <<decided, b_exec>>
       ELSE UNCHANGED <<decided, b_exec, halted>>

update(r, n) ==
    /\ IF Certifies(r, n) THEN update_hqc(r, Justify(n)) ELSE UNCHANGED <<hqc, b_leaf>>
    /\ lock(r, n)
    /\ commit(r, n)

\* A proposal whose predecessors are cached: inserted, voted on, and then, voted
\* on or not, used to advance certificate, lock and decision.
on_receive_proposal(r, m) ==
    /\ r \notin halted
    /\ IF opinion(r, m.block) THEN do_vote(r, m.block, m.proposer)
                              ELSE UNCHANGED <<vheight, votes>>
    /\ update(r, m.block)
    /\ UNCHANGED <<tree, proposals>>

\* Votes addressed to r accumulate in the block's self_qc; the one that
\* completes the quorum makes the certificate known to r, the others change
\* nothing else.
on_receive_vote(r, b) ==
    /\ r \notin halted
    /\ has_quorum({m.voter : m \in {v \in votes : v.block = b /\ v.to = r}})
    /\ update_hqc(r, b)
    /\ UNCHANGED <<network, vheight, b_lock, b_exec, decided, disk, halted>>

\* What a restart needs: with an empty index get_highest_qc throws, and with a
\* decided block missing on disk load_decided_block does.
index_nonempty(r) == b_exec[r] # Genesis
reload_decided_blocks(r) == decided[r] \subseteq disk[r]

\* mutant: the index names the certificate of the parent of the top block.
reload_one_behind(r) ==
    LET top == Parent(b_exec[r])
    IN /\ r \in Amnesiac \ halted
       /\ index_nonempty(r)
       /\ reload_decided_blocks(r)
       /\ vheight' = [vheight EXCEPT ![r] = Height(top) % VHeightModulus]
       /\ hqc' = [hqc EXCEPT ![r] = top]
       /\ b_leaf' = [b_leaf EXCEPT ![r] = top]
       /\ b_lock' = [b_lock EXCEPT ![r] = top]
       /\ b_exec' = [b_exec EXCEPT ![r] = top]
       /\ UNCHANGED <<network, decided, disk, halted>>

\* A crash and a restart with init_from_disk: the decided index survives, and
\* reload_state_from_index derives all other state from its top block.
reload_state_from_index(r) ==
    /\ r \in Amnesiac \ halted
    /\ index_nonempty(r)
    /\ reload_decided_blocks(r)
    /\ vheight' = [vheight EXCEPT ![r] = Height(b_exec[r]) % VHeightModulus]
    /\ hqc' = [hqc EXCEPT ![r] = b_exec[r]]
    /\ b_leaf' = [b_leaf EXCEPT ![r] = b_exec[r]]
    /\ b_lock' = [b_lock EXCEPT ![r] = b_exec[r]]
    /\ UNCHANGED <<network, b_exec, decided, disk, halted>>

Next ==
    \E r \in Replica :
        \/ \E x \in Body : do_propose(r, x)
        \/ \E m \in proposals : on_receive_proposal(r, m)
        \/ \E b \in Blocks : on_receive_vote(r, b)
        \/ reload_state_from_index(r)

Spec == Init /\ [][Next]_vars

-----------------------------------------------------------------------------
(* Properties *)

\* The type of the state.
TypeOK ==
    /\ Genesis \in Blocks
    /\ \A b \in Blocks :
          tree[b] \in [parent : Blocks, justify : Blocks, height : 0..MaxHeight,
                       anc : SUBSET Blocks]
    /\ proposals \subseteq [block : Blocks, proposer : Replica]
    /\ votes \subseteq [voter : Replica, block : Blocks, to : Replica]
    /\ vheight \in [Replica -> 0..MaxHeight]
    /\ hqc \in [Replica -> Blocks]
    /\ b_leaf \in [Replica -> Blocks]
    /\ b_lock \in [Replica -> Blocks]
    /\ b_exec \in [Replica -> Blocks]
    /\ decided \in [Replica -> SUBSET Blocks]
    /\ disk \in [Replica -> SUBSET Blocks]
    /\ halted \subseteq Replica

\* No two replicas ever decide different blocks at one height, however
\* proposals, votes and restarts interleave.
Agreement ==
    \A r, q \in Replica : \A a \in decided[r], b \in decided[q] :
        Height(a) = Height(b) => a = b

\* update() never throws "safety breached": the three-chain a replica commits
\* always leads back to the block it executed last.
NoSafetyBreach == halted = {}

\* Every decided block can be reloaded after a crash: it is on disk, although
\* update() writes b_lock and its ancestors and not the block it commits.
DecidedOnDisk == \A r \in Replica : decided[r] \subseteq disk[r]

\* do_propose always certifies an ancestor of the block it mints: update_hqc
\* and do_propose keep b_leaf on top of hqc across every race between the
\* application thread and the event thread.
LeafExtendsCertificate == \A r \in Replica : hqc[r] \in Anc(b_leaf[r])

\* Once a block heads a certified three-chain of direct parents, every block
\* certified at its height or above extends it: the lock that on_receive_proposal
\* enforces survives any later competition between proposers.
Committed(b) ==
    b = Genesis \/
    \E b1, b2 \in Blocks :
        /\ Parent(b1) = b /\ Justify(b1) = b
        /\ Parent(b2) = b1 /\ Justify(b2) = b1
        /\ Certified(b2)
CommittedForever ==
    \A b, w \in Blocks :
        Committed(b) /\ Certified(w) /\ Height(w) >= Height(b) => b \in Anc(w)

\* A replica never decides against its own decisions, whatever the quorums, the
\* restarts and the heights are: where agreement is lost, update() throws before it
\* would leave the chain the replica has executed.
OwnLogKept == [][\A r \in Replica : b_exec[r] \in Anc(b_exec[r])']_vars

\* The decided blocks of a replica in order of height: the core implements an
\* append-only log that all replicas agree on, across restarts.
DecidedLog(r) ==
    [h \in 1..Height(b_exec[r]) |-> CHOOSE b \in decided[r] : Height(b) = h]
decided_log == [r \in Replica |-> DecidedLog(r)]
Log == INSTANCE ReplicatedLog WITH log <- decided_log
ImplementsLog == Log!Spec

-----------------------------------------------------------------------------
(* The inductive invariant behind Agreement *)

\* Blocks form a tree under parent pointers, and certificates point down it.
WellPlaced(b) ==
    /\ b \in Anc(b)
    /\ Genesis \in Anc(b)
    /\ Certified(Justify(b))
    /\ b # Genesis =>
          /\ Height(b) = Height(Parent(b)) + 1
          /\ Anc(b) = Anc(Parent(b)) \cup {b}
          /\ Justify(b) \in Anc(Parent(b))
    /\ \A a \in Anc(b) :
          /\ a # b => Height(a) < Height(b)
          /\ Anc(a) = {c \in Anc(b) : Height(c) <= Height(a)}
    /\ \A h \in 0..Height(b) : \E a \in Anc(b) : Height(a) = h
TreeInv ==
    /\ tree[Genesis] = genesis_block
    /\ \A b \in Blocks : WellPlaced(b)

\* What a replica holds: certified pointers, a lock between its last decision
\* and its last vote, and exactly the ancestors of b_exec decided.
ReplicaInv ==
    \A r \in Replica :
        /\ Certified(hqc[r])
        /\ Certified(b_lock[r])
        /\ Committed(b_exec[r])
        /\ Height(b_exec[r]) <= Height(b_lock[r])
        /\ Height(b_lock[r]) <= vheight[r]
        /\ decided[r] = Anc(b_exec[r])

\* The part of this that needs nothing of quorums and heights: pointers refer to
\* certified blocks, and a replica has decided one chain, up to a committed block.
LocalInv ==
    /\ TypeOK
    /\ TreeInv
    /\ LeafExtendsCertificate
    /\ \A r \in Replica :
          /\ Certified(hqc[r]) /\ Certified(b_lock[r]) /\ Committed(b_exec[r])
          /\ decided[r] = Anc(b_exec[r])

\* What the votes of a replica that never lost its memory promise.  The last
\* conjunct is the lock: a vote at a greater height rests on a certified block
\* no lower than the one the earlier vote locked.
VoteInv ==
    \A m \in votes : m.voter \notin Amnesiac =>
        /\ Height(m.block) <= vheight[m.voter]
        /\ Height(Justify(Justify(m.block))) <= Height(b_lock[m.voter])
        /\ \A n \in votes : n.voter = m.voter =>
              /\ Height(n.block) = Height(m.block) => n.block = m.block
              /\ Height(n.block) > Height(m.block) =>
                    \E c \in Anc(n.block) :
                        /\ Certified(c)
                        /\ Height(Justify(Justify(m.block))) <= Height(c)
                        /\ Height(c) < Height(n.block)

\* The inductive invariant of the core: together with quorum intersection it
\* yields agreement, and it is preserved by every handler of consensus.cc.
IInv ==
    /\ TypeOK
    /\ TreeInv
    /\ ReplicaInv
    /\ VoteInv
    /\ LeafExtendsCertificate
    /\ DecidedOnDisk
    /\ NoSafetyBreach

\* When the constants allow agreement: two quorums share a replica that keeps
\* its memory, and heights fit vheight.
FaultsTolerated == 2 * nmajority - Cardinality(Replica) > Cardinality(Amnesiac)
VHeightWide == MaxHeight < VHeightModulus
=============================================================================
