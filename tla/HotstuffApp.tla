---------------------------- MODULE HotstuffApp -----------------------------
(***************************************************************************)
(* One whole replica, self, among replicas of which only the core is       *)
(* modelled: class HotstuffApp, that is HotstuffCore with the event queue  *)
(* in front of it, the speculative VM behind it (VMBridge) and the         *)
(* pacemaker PaceMakerWaitQC that drives it.                               *)
(*                                                                         *)
(* The application thread mints a block in do_propose, with a VM block if  *)
(* its leadership is stable, and waits for the certificate (or, if the     *)
(* application never calls wait_for_qc, does not).  The event thread takes *)
(* the replica's own messages in the order of the event queue and other    *)
(* replicas' messages as the network delivers them; a commit walks through *)
(* the decided blocks and hands them to the VM before the next event.      *)
(***************************************************************************)
EXTENDS HotstuffCore, Sequences

CONSTANTS
    self,            \* the replica modelled in full
    Pacing,          \* how its application uses the pacemaker: "eager" never calls
                     \* wait_for_qc, "wait" calls it after every do_propose, and
                     \* "cancel" may call cancel_wait_for_new_qc besides
    BufferTarget,    \* HotstuffConfigs::proposal_buffer_target
    Refill,          \* HotstuffConfigs::immediately_refill_proposal_buffer
    TopValue         \* bound: no replica's VM proposes beyond this value

\* A VM block is its CountingVM value (VMBridge), and that is what a body is here.
ASSUME AppAssumption ==
    /\ self \in Replica
    /\ Pacing \in {"eager", "wait", "cancel"}
    /\ BufferTarget \in Nat /\ Refill \in BOOLEAN /\ TopValue \in Nat
    /\ 0..(TopValue + BufferTarget) \subseteq Body

VARIABLES
    height_map, speculation_head, highest_committed, spec_mtx,
    blocks_to_validate, proposal_buffer, requests, is_proposer, target,
    highest_committed_id, state, last_committed_state, user, event, threw,
    body,            \* [hash -> VM block in it], every block minted so far
    store,           \* self's BlockStore: [hash -> proposer of the block object]
    leaf_proposer,   \* the proposer of the block object b_leaf points to
    events,          \* own ProposalEvents and VoteEvents not handled yet
    commit_queue,    \* decided blocks update() has yet to pass to the VM
    self_qc,         \* the votes self has counted: [block, proposer, voter], by the
                     \* block object, which hash and proposer identify
    latest_new_qc,   \* the block on_new_qc announced last, if any, as a set
    cancel_wait,     \* whether the wait for a certificate has been called off
    pacer            \* PaceMakerWaitQC: [pc, expected, proposer]

VM == INSTANCE VMBridge WITH TopHeight <- MaxHeight

vm_vars == <<height_map, speculation_head, highest_committed, spec_mtx,
             blocks_to_validate, proposal_buffer, requests, is_proposer, target,
             highest_committed_id, state, last_committed_state, user, event, threw>>
app_vars == <<body, store, leaf_proposer, events, commit_queue, self_qc, latest_new_qc, cancel_wait, pacer>>
all_vars == <<vars, vm_vars, app_vars>>

UNKNOWN_REPLICA == "unknown"

Value(b) == body[b]

\* A fresh replica whose application has called set_self_as_proposer.
AppInit ==
    /\ Init
    /\ VM!InitAt(0, 0)
    /\ body = [b \in {Genesis} |-> VM!NoBlock]
    /\ store = [b \in {Genesis} |-> UNKNOWN_REPLICA]
    /\ leaf_proposer = UNKNOWN_REPLICA
    /\ events = << >>
    /\ commit_queue = << >>
    /\ self_qc = {}
    /\ latest_new_qc = {}
    /\ cancel_wait = FALSE
    /\ pacer = [pc |-> "propose", expected |-> Genesis, proposer |-> self]

-----------------------------------------------------------------------------
(* The application thread *)

\* Leadership is stable on top of b_leaf: b_leaf and the two blocks below it are
\* self's, and each certifies its parent.
supports_nonempty_child_proposal ==
    LET b == b_leaf[self]
        below == {Parent(b), Parent(Parent(b))}
    IN /\ leaf_proposer = self
       /\ \A c \in below : store[c] = self
       /\ \A c \in below \cup {b} : Justify(c) = Parent(c)

\* Whoever mints it, a block has a body.
record(b, x) ==
    body' = [i \in DOMAIN body \cup {b} |-> IF i \in DOMAIN body THEN body[i] ELSE x]

\* The first block object inserted under a hash stays.
insert_block(b, p) ==
    store' = [i \in DOMAIN store \cup {b} |-> IF i \in DOMAIN store THEN store[i] ELSE p]

\* The rest of do_propose, with the VM's answer x: mint, store and broadcast, to
\* self first.  The pacemaker then expects a certificate for the new block.
mint(x) ==
    LET b == Hash(b_leaf[self], hqc[self], x)
    IN /\ do_propose(self, x)
       /\ record(b, x)
       /\ insert_block(b, self)
       /\ leaf_proposer' = self
       /\ events' = Append(events, [op |-> "proposal", block |-> b])
       /\ pacer' = [pc |-> IF Pacing = "eager" THEN "propose" ELSE "wait",
                    expected |-> b, proposer |-> self]
       /\ UNCHANGED <<commit_queue, self_qc, latest_new_qc, cancel_wait>>

\* do_propose holds proposal_mutex and asks the VM for a body; if the VM has none
\* ready it holds the mutex until there is one.
propose(supported) ==
    LET h == Height(b_leaf[self]) + 1
        ready == IF is_proposer /\ proposal_buffer # << >>
                 THEN Head(proposal_buffer) ELSE VM!NoBlock
    IN /\ pacer.pc = "propose" /\ pacer.proposer = self
       /\ user.pc = "idle" /\ self \in Proposers
       /\ h <= MaxHeight /\ Cardinality(Blocks) < MaxBlocks
       /\ \/ /\ ~supported
             /\ VM!make_empty_proposal(h)
             /\ mint(VM!NoBlock)
          \/ /\ supported
             /\ state + Len(blocks_to_validate) < TopValue          \* bound
             /\ VM!get_and_apply_next_proposal(h)
             /\ IF user'.pc = "waiting" THEN UNCHANGED <<vars, app_vars>> ELSE mint(ready)

do_propose_next == propose(supports_nonempty_child_proposal)
do_empty_propose == propose(FALSE)

finish_propose == VM!got_proposal /\ mint(Head(proposal_buffer))

\* wait_for_new_qc returns false if it was called off, and leaves an announced
\* certificate for the next wait; else it consumes whichever certificate was
\* announced last.  Unless that is the expected one the pacemaker goes on to look
\* who proposes now.
wait_for_qc ==
    /\ pacer.pc = "wait"
    /\ latest_new_qc # {} \/ cancel_wait
    /\ cancel_wait' = FALSE
    /\ latest_new_qc' = IF cancel_wait THEN latest_new_qc ELSE {}
    /\ pacer' = [pacer EXCEPT !.pc = IF ~cancel_wait /\ latest_new_qc = {pacer.expected}
                                     THEN "propose" ELSE "defer"]
    /\ UNCHANGED <<vars, vm_vars, body, store, leaf_proposer, events, commit_queue, self_qc>>

cancel_wait_for_new_qc ==
    /\ Pacing = "cancel"
    /\ cancel_wait' = TRUE
    /\ UNCHANGED <<vars, vm_vars, body, store, leaf_proposer, events, commit_queue, self_qc, latest_new_qc, pacer>>

get_last_proposer ==
    /\ pacer.pc = "defer"
    /\ pacer' = [pacer EXCEPT !.pc = "propose", !.proposer = store[hqc[self]]]
    /\ UNCHANGED <<vars, vm_vars, body, store, leaf_proposer, events, commit_queue, self_qc, latest_new_qc, cancel_wait>>

\* An application that calls waits off may also claim the lead again.
set_self_as_proposer ==
    /\ Pacing = "cancel"
    /\ pacer.pc = "propose"
    /\ pacer' = [pacer EXCEPT !.proposer = self]
    /\ UNCHANGED <<vars, vm_vars, body, store, leaf_proposer, events, commit_queue, self_qc, latest_new_qc, cancel_wait>>

-----------------------------------------------------------------------------
(* The event thread *)

\* Between two events: the last one did not throw, and what it committed has been
\* passed on to the VM.
Ready == event.pc = "idle" /\ commit_queue = << >> /\ self \notin halted

\* do_propose holds proposal_mutex while it waits for the VM.
proposal_mutex_free == user.pc # "waiting"

\* A new certificate moves b_leaf to the stored object of the certified block.
follow_leaf ==
    leaf_proposer' = IF hqc'[self] = hqc[self] THEN leaf_proposer
                     ELSE store[b_leaf'[self]]

\* mutant: a block is inserted before its predecessors.
network_event_unchecked(m) ==
    /\ m.block \notin DOMAIN store
    /\ insert_block(m.block, m.proposer)
    /\ UNCHANGED <<vars, vm_vars, body, leaf_proposer, events, commit_queue, self_qc,
                   latest_new_qc, cancel_wait, pacer>>

\* The network-event thread inserts another replica's proposal once its
\* predecessors are there, ahead of the event thread.
network_event(m) ==
    /\ m.block \notin DOMAIN store
    /\ {Parent(m.block), Justify(m.block)} \subseteq DOMAIN store
    /\ insert_block(m.block, m.proposer)
    /\ UNCHANGED <<vars, vm_vars, body, leaf_proposer, events, commit_queue, self_qc,
                   latest_new_qc, cancel_wait, pacer>>

\* mutant: the walk from the committed block down goes one block too far.
commit_order_from_exec(blk) ==
    LET exec == Height(b_exec[self])
    IN IF Height(blk) = exec THEN << >>
       ELSE [i \in 1..(Height(blk) - exec + 1) |->
                CHOOSE b \in Anc(blk) : Height(b) = exec + i - 1]

\* update() collects the blocks from the committed block blk down to b_exec, which
\* it leaves out, and goes through them from the bottom up.
commit_order(blk) ==
    LET exec == Height(b_exec[self])
    IN [i \in 1..(Height(blk) - exec) |-> CHOOSE b \in Anc(blk) : Height(b) = exec + i]

\* The core handles a proposal; what it decides is queued for the VM, lowest first.
handle_proposal(m) ==
    /\ Ready
    /\ m.block \in DOMAIN store
    /\ Certifies(self, m.block) => proposal_mutex_free
    /\ on_receive_proposal(self, m)
    /\ follow_leaf
    /\ commit_queue' = commit_order(b_exec'[self])
    /\ UNCHANGED <<vm_vars, body, store, self_qc, latest_new_qc, cancel_wait, pacer>>

\* The object a vote is counted on: self's own vote comes with the block it
\* minted, any other vote finds the stored one by its hash.
voted_object(b, voter) ==
    [block |-> b, proposer |-> IF voter = self THEN self ELSE store[b]]
signed(qc, o) ==
    {v.voter : v \in {w \in qc : w.block = o.block /\ w.proposer = o.proposer}}
with_vote(o, voter) ==
    self_qc \cup {[block |-> o.block, proposer |-> o.proposer, voter |-> voter]}

\* mutant: every vote wakes the pacemaker.
count_vote_wakes(o, voter) ==
    /\ self_qc' = with_vote(o, voter)
    /\ latest_new_qc' = {o.block}
    /\ IF has_quorum(signed(self_qc', o)) /\ ~has_quorum(signed(self_qc, o))
       THEN update_hqc(self, o.block) ELSE UNCHANGED <<hqc, b_leaf>>

\* on_receive_vote: the vote that completes the quorum on a block object makes it
\* the highest certified block, if it is higher, and wakes the pacemaker.
count_vote(o, voter) ==
    /\ self_qc' = with_vote(o, voter)
    /\ IF has_quorum(signed(self_qc', o)) /\ ~has_quorum(signed(self_qc, o))
       THEN proposal_mutex_free /\ update_hqc(self, o.block) /\ latest_new_qc' = {o.block}
       ELSE UNCHANGED <<hqc, b_leaf, latest_new_qc>>

handle_vote(b, voter) ==
    /\ Ready
    /\ count_vote(voted_object(b, voter), voter)
    /\ follow_leaf
    /\ UNCHANGED <<network, vheight, b_lock, b_exec, decided, disk, halted,
                   vm_vars, body, store, commit_queue, cancel_wait, pacer>>

\* mutant: a vote on the own proposal is queued whether or not self signed it.
own_event_always_votes ==
    /\ events # << >>
    /\ LET e == Head(events)
       IN \/ /\ e.op = "proposal"
             /\ handle_proposal([block |-> e.block, proposer |-> self])
             /\ events' = Append(Tail(events), [op |-> "vote", block |-> e.block])
          \/ /\ e.op = "vote"
             /\ handle_vote(e.block, self)
             /\ events' = Tail(events)

\* The events self sent to itself, first in first out.  Its vote on its own
\* proposal goes to the end of the queue.
own_event ==
    /\ events # << >>
    /\ LET e == Head(events)
       IN \/ /\ e.op = "proposal"
             /\ handle_proposal([block |-> e.block, proposer |-> self])
             /\ events' = IF opinion(self, e.block)
                          THEN Append(Tail(events), [op |-> "vote", block |-> e.block])
                          ELSE Tail(events)
          \/ /\ e.op = "vote"
             /\ handle_vote(e.block, self)
             /\ events' = Tail(events)

\* The events other replicas sent.
peer_event ==
    /\ \/ \E m \in proposals : m.proposer # self /\ handle_proposal(m)
       \/ \E v \in votes : v.to = self /\ v.voter # self /\ handle_vote(v.block, v.voter)
    /\ UNCHANGED events

\* One decided block goes through apply_block and notify_vm_of_commitment.
apply_next ==
    /\ commit_queue # << >>
    /\ VM!apply_block(Height(Head(commit_queue)), Value(Head(commit_queue)))
    /\ UNCHANGED <<vars, app_vars>>
pass_on ==
    /\ VM!submit_block_for_exec \/ VM!on_commit_hotstuff \/ VM!wait_for_async_task
    /\ UNCHANGED <<vars, app_vars>>

passed_on ==
    /\ VM!log_commitment
    /\ commit_queue' = Tail(commit_queue)
    /\ UNCHANGED <<vars, body, store, leaf_proposer, events, self_qc, latest_new_qc, cancel_wait, pacer>>

-----------------------------------------------------------------------------
\* The VM thread, and the application's orders to the VM.
vm_thread == VM!run /\ UNCHANGED <<vars, app_vars>>
vm_orders ==
    /\ VM!put_vm_in_proposer_mode \/ VM!stop_proposals
    /\ UNCHANGED <<vars, app_vars>>

\* Another replica: its core, and a VM.  do_propose takes a VM block if the
\* replica's leadership is stable and its VM is in proposer mode.  The block's value
\* is the VM's counter plus one, and nothing ties that counter to the leaf:
\* update_hqc moves b_leaf back and leaves the VM where it is, proposals are buffered
\* ahead, and exec_block skips a value out of turn.  So it may be any value.
Proposed(r, b) == [block |-> b, proposer |-> r] \in proposals
Stable(r) ==
    LET b == b_leaf[r]
    IN \A c \in {b, Parent(b), Parent(Parent(b))} : Proposed(r, c) /\ Justify(c) = Parent(c)
peer(r) ==
    /\ \/ \E x \in {VM!NoBlock} \cup (IF Stable(r) THEN 1..TopValue ELSE {}) :
             /\ do_propose(r, x)
             /\ record(Hash(b_leaf[r], hqc[r], x), x)
       \/ /\ \/ \E m \in proposals : on_receive_proposal(r, m)
             \/ \E b \in Blocks : on_receive_vote(r, b)
          /\ UNCHANGED body
    /\ UNCHANGED <<vm_vars, store, leaf_proposer, events, commit_queue, self_qc,
                   latest_new_qc, cancel_wait, pacer>>

AppNext ==
    \/ do_propose_next \/ do_empty_propose \/ finish_propose \/ wait_for_qc
    \/ cancel_wait_for_new_qc \/ get_last_proposer \/ set_self_as_proposer
    \/ \E m \in proposals : m.proposer # self /\ network_event(m)
    \/ own_event \/ peer_event
    \/ apply_next \/ pass_on \/ passed_on
    \/ vm_thread \/ vm_orders
    \/ \E r \in Replica \ {self} : peer(r)

\* Every thread of self keeps running.
AppFairness ==
    /\ WF_all_vars(finish_propose) /\ WF_all_vars(wait_for_qc) /\ WF_all_vars(get_last_proposer)
    /\ WF_all_vars(own_event)
    /\ WF_all_vars(apply_next) /\ WF_all_vars(pass_on) /\ WF_all_vars(passed_on)
    /\ WF_all_vars(vm_thread)

AppSpec == AppInit /\ [][AppNext]_all_vars
FairAppSpec == AppSpec /\ AppFairness

-----------------------------------------------------------------------------
(* Properties *)

\* The VM block at a height the bridge has been through: the decided one, or the
\* one speculated on above the committed height.
Ran(h) ==
    IF h <= highest_committed THEN Value(CHOOSE b \in decided[self] : Height(b) = h)
    ELSE height_map[h - highest_committed].id
RanTop == highest_committed + Len(height_map)
RanHeights == {h \in 1..RanTop : Ran(h) # VM!NoBlock}

\* No block that went to the gadget still has to be executed.
NothingOwed == blocks_to_validate = << >> /\ event.pc \notin {"submit", "relock"}

\* The VM stays in sync with the gadget of a leader that is alone and waits for its
\* certificates: the VM blocks it was, or is about to be, told about or has
\* speculated on are the values from 1 on, in order of height, and what it has run
\* ahead by beyond them is exactly the buffered proposals; nothing it proposed is lost.
VMInSync ==
    LET n == Cardinality({Ran(h) : h \in RanHeights})
    IN NothingOwed =>
          /\ {Ran(h) : h \in RanHeights} = 1..n
          /\ \A g, h \in RanHeights : g < h => Ran(g) < Ran(h)
          /\ state = n + Len(proposal_buffer)
          /\ \A i \in 1..Len(proposal_buffer) : proposal_buffer[i] = n + i

\* The counter of a CountingVM that has executed a sequence of VM blocks.
Replay(ids) ==
    LET count[i \in 0..Len(ids)] ==
            IF i = 0 THEN 0 ELSE VM!exec_block(count[i - 1], ids[i])
    IN count[Len(ids)]

\* A replica that never proposes executes the decided blocks one by one: its counter
\* is where CountingVM gets from the start over the decided bodies in order of height,
\* each executed once and none left out, although update() hands them over while the
\* VM thread runs.  This holds whatever values the leaders' VMs gave the blocks, of
\* which exec_block skips those out of turn: followers that have gone through the same
\* heights have the same counter.
VMReplays ==
    NothingOwed => state = Replay([h \in 1..RanTop |-> Ran(h)])

\* The pacemaker never waits forever for the certificate of its proposal while the
\* votes it needs arrive (here, its own): on_new_qc is not missed.
PacemakerProgress == pacer.pc = "wait" ~> pacer.pc = "propose"

\* When wait_for_qc reports success the certificate is the core's: the next
\* proposal certifies the awaited block or a higher one.  Stale announcements,
\* cancelled waits and the certificates of other leaders do not change that.
CertifiedWhenWoken ==
    [][pacer.pc = "wait" /\ pacer'.pc = "propose" =>
           Height(hqc[self]) >= Height(pacer.expected)]_all_vars

\* Consensus uses the bridge as the bridge expects: it decides height by height,
\* notifies right after applying, and proposes only above the committed height.
ImplementsBridge == VM!Spec

\* No handler looks for a block the BlockStore does not have: whatever self's core
\* points to is stored with all its predecessors, although the network-event thread
\* inserts blocks while the event thread and the application thread use them.
StoreComplete ==
    /\ \A b \in DOMAIN store : Anc(b) \subseteq DOMAIN store
    /\ {hqc[self], b_leaf[self], b_lock[self], b_exec[self]} \subseteq DOMAIN store

\* Each handler of the whole replica, with its own messages looped back through the
\* event queue and votes counted on block objects, is a step of the core or leaves
\* the core alone; so everything shown of HotstuffCore holds for it.
ImplementsCore == Spec

-----------------------------------------------------------------------------
(* The inductive invariant behind ImplementsCore and ImplementsBridge *)

\* Every block minted has a body, and only minted blocks are stored.
BodyType ==
    /\ body \in [Blocks -> VM!VMBlockID]
    /\ store \in [DOMAIN store -> Replica \cup {UNKNOWN_REPLICA}]
    /\ DOMAIN store \subseteq Blocks

\* Behind every message self handles or has counted there is one it was sent.
Sent ==
    {[op |-> "proposal", block |-> m.block] : m \in {p \in proposals : p.proposer = self}} \cup
    {[op |-> "vote", block |-> m.block] : m \in {v \in votes : v.voter = self /\ v.to = self}}
MessageInv ==
    /\ events \in Seq(Sent)
    /\ \A v \in self_qc : [voter |-> v.voter, block |-> v.block, to |-> self] \in votes

\* The height of the last decided block update() is done with, and the decided
\* blocks above it, one per height, that still have to go through the bridge.
Done == IF event.pc \in {"wait", "log"} THEN highest_committed - 1 ELSE highest_committed
QueueInv ==
    /\ commit_queue \in Seq(decided[self])
    /\ Done + Len(commit_queue) = Height(b_exec[self])
    /\ \A i \in 1..Len(commit_queue) : Height(commit_queue[i]) = Done + i
    /\ event.pc # "idle" => commit_queue # << >>

\* Self has stored what it proposed, and gets votes for nothing else.
OwnInv ==
    /\ \A m \in proposals : m.proposer = self => m.block \in DOMAIN store
    /\ \A v \in votes : v.to = self => [block |-> v.block, proposer |-> self] \in proposals

\* The certificate of the last decision lies above it, and whatever on_new_qc
\* announced is no higher than the highest certificate.
CertificateInv ==
    /\ Height(b_exec[self]) <= Height(hqc[self])
    /\ \A b \in latest_new_qc : b \in Blocks /\ Height(b) <= Height(hqc[self])
    /\ pacer \in [pc : {"propose", "wait", "defer"}, expected : Blocks,
                  proposer : Replica \cup {UNKNOWN_REPLICA}]
    /\ Pacing = "eager" => pacer.pc = "propose"

\* The VM does not count beyond what the bounds allow it to be asked for.
ValueInv ==
    LET n == Len(blocks_to_validate)
    IN /\ state \in VM!VMBlockID /\ n <= 1
       /\ event.pc = "submit" => event.id \in VM!VMBlockID
       /\ \A i \in 1..n : blocks_to_validate[i] \in VM!VMBlockID
       /\ \A i \in 1..Len(proposal_buffer) : proposal_buffer[i] \in VM!VMBlockID
       /\ requests > 0 => state + n + requests <= TopValue + BufferTarget
       /\ user.pc = "waiting" => state + n - Len(proposal_buffer) < TopValue

\* The inductive invariant of the whole replica: those of its parts, and what ties
\* the core, the event queue and the bridge together.
AppInv ==
    /\ IInv
    /\ VM!IInv
    /\ BodyType
    /\ MessageInv
    /\ QueueInv
    /\ OwnInv
    /\ StoreComplete
    /\ CertificateInv
    /\ ValueInv

-----------------------------------------------------------------------------
(* The inductive invariant behind VMInSync and VMReplays *)

\* VMReplays is about replicas that never propose, VMInSync about one that does so
\* alone and waits for each certificate.  A leader that runs ahead of its
\* certificates, or one that takes over, may have proposals dropped that its VM has
\* executed.
Follows == self \notin Proposers
LeadsAlone == Proposers = {self} /\ Pacing = "wait"

\* The VM blocks on the way to b, and the value that follows them.
Below(b) == {Value(a) : a \in Anc(b)} \ {VM!NoBlock}
NextValue(b) == Cardinality(Below(b)) + 1

\* With a leader that is alone the VM blocks on the way to a block are the values
\* from 1 on, and the block itself adds none or the next one.
BodyOrder ==
    /\ Value(Genesis) = VM!NoBlock
    /\ \A b \in Blocks :
          /\ Below(b) = 1..(NextValue(b) - 1)
          /\ b # Genesis => Value(b) \in {VM!NoBlock, NextValue(Parent(b))}

\* The bodies on the way to b, and where a VM gets over them.
Path(b) == [h \in 1..Height(b) |-> Value(CHOOSE a \in Anc(b) : Height(a) = h)]
Counter(b) == Replay(Path(b))

\* A follower's gadget holds at most the block being committed.  b is the last
\* block that went to the gadget; the VM has executed it, or is about to.
Owed == event.pc = "submit" \/ blocks_to_validate # << >>
InStep(b) ==
    /\ height_map # << >> => height_map[1].id = Value(b)
    /\ event.pc = "submit" => event.id = Value(b)
    /\ blocks_to_validate # << >> => blocks_to_validate = <<Value(b)>>
    /\ Owed => b # Genesis
    /\ \A c \in Blocks : c = (IF Owed THEN Parent(b) ELSE b) => state = Counter(c)
FollowInv ==
    /\ user.pc = "idle" /\ proposal_buffer = << >> /\ requests = 0
    /\ event.pc \notin {"relock", "dead"}
    /\ Len(height_map) = IF event.pc \in {"submit", "notify"} THEN 1 ELSE 0
    /\ event.pc \notin {"notify", "wait"} => blocks_to_validate = << >>
    /\ \A b \in decided[self] : Height(b) = highest_committed + Len(height_map) => InStep(b)

\* The leader's certificates: all blocks are its own and form one chain, of which
\* at most the last awaits its certificate; that is the one the pacemaker expects,
\* and no other is ever announced.
Counted(b) == has_quorum(signed(self_qc, [block |-> b, proposer |-> self]))
LeadInv ==
    /\ Anc(b_leaf[self]) = Blocks
    /\ Height(b_leaf[self]) <= Height(hqc[self]) + 1
    /\ \A b \in Blocks \ {Genesis} :
          /\ store[b] = self
          /\ Height(Justify(b)) <= Height(hqc[self])
          /\ Height(b) <= Height(hqc[self]) => Counted(b)
    /\ \A v \in votes : v.block # Genesis
    /\ ~cancel_wait /\ pacer.pc # "defer"
    /\ latest_new_qc \subseteq {b_leaf[self]}
    /\ pacer.pc = "propose" => latest_new_qc = {} /\ hqc[self] = b_leaf[self]
    /\ pacer.pc = "wait" => pacer.expected = b_leaf[self]
    /\ user.pc = "waiting" => pacer.pc = "propose" /\ user.height = Height(b_leaf[self]) + 1

\* The leader's gadget reaches up to b_leaf and agrees with the chain, so that
\* nothing is executed twice; what the VM ran ahead by beyond it is buffered.
AheadInv ==
    /\ Height(b_leaf[self]) = highest_committed + Len(height_map)
    /\ \A i \in 1..Len(height_map) : \A a \in Blocks :
          Height(a) = highest_committed + i => height_map[i].id = Value(a)
    /\ event.pc \notin {"submit", "relock", "dead"} /\ blocks_to_validate = << >>
    /\ state = NextValue(b_leaf[self]) - 1 + Len(proposal_buffer)
    /\ \A i \in 1..Len(proposal_buffer) : proposal_buffer[i] = NextValue(b_leaf[self]) - 1 + i

\* The invariant of the whole replica and, if it follows or leads alone, of the VM
\* with it.
SyncInv ==
    /\ AppInv
    /\ Follows => FollowInv
    /\ LeadsAlone => BodyOrder /\ LeadInv /\ AheadInv
=============================================================================
