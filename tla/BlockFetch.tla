----------------------------- MODULE BlockFetch -----------------------------
(***************************************************************************)
(* How a replica gets hold of the predecessors of the blocks it hears of:  *)
(* the NetworkEventQueue with its thread, the BlockStore it fills, the     *)
(* BlockFetchManager that parks events until a block arrives, one          *)
(* BlockFetchWorker per peer, and the BlockFetchHandler that answers at    *)
(* the peer.  HotstuffCore takes from here that every event it handles     *)
(* finds its predecessors in the store.                                    *)
(*                                                                         *)
(* The block tree is given.  Peers know a part of it, closed under         *)
(* predecessors, and send proposals and votes for blocks of that part.     *)
(* Each message that arrives has a number, so that it can be followed.     *)
(***************************************************************************)
EXTENDS Integers, Sequences, FiniteSets

CONSTANTS
    Block,           \* the blocks other than the genesis block
    Genesis,
    Parent, Justify, \* [Block -> Block \cup {Genesis}]
    Peer,            \* the other replicas
    Knows,           \* [Peer -> blocks in the peer's store]
    Own,             \* blocks do_propose mints here, maybe as some peer does
    Flushable,       \* blocks the garbage collectors of peers may flush
    MaxReceived      \* bound: no more messages arrive

Preds(b) == {Parent[b], Justify[b]}

ASSUME FetchAssumption ==
    /\ Genesis \notin Block
    /\ Parent \in [Block -> Block \cup {Genesis}]
    /\ Justify \in [Block -> Block \cup {Genesis}]
    /\ Knows \in [Peer -> SUBSET Block]
    /\ \A p \in Peer : \A b \in Knows[p] : Preds(b) \subseteq Knows[p] \cup {Genesis}
    /\ Own \subseteq Block
    /\ Flushable \subseteq Block
    /\ MaxReceived \in Nat

VARIABLES
    cache,           \* BlockStore::block_cache
    queue,           \* NetEvents not handled yet
    outstanding,     \* BlockFetchManager: [requested hash -> parked NetEvents]
    reqs,            \* [Peer -> hashes the worker has yet to ask for]
    inflight,        \* [Peer -> hashes of the fetch call under way]
    answers,         \* [Peer -> blocks of its response not yet posted]
    flushed,         \* [Peer -> blocks whose body the peer has dropped]
    received,        \* number of messages that have arrived
    handed           \* numbers of those handed to the core, in order

fetching == <<reqs, inflight, answers>>
vars == <<cache, queue, outstanding, reqs, inflight, answers, flushed, received, handed>>

\* mutant: the store starts empty.
Init_no_genesis ==
    /\ cache = {}
    /\ queue = << >>
    /\ outstanding = [h \in {} |-> << >>]
    /\ reqs = [p \in Peer |-> {}]
    /\ inflight = [p \in Peer |-> {}]
    /\ answers = [p \in Peer |-> {}]
    /\ flushed = [p \in Peer |-> {}]
    /\ received = 0
    /\ handed = << >>

Init ==
    /\ cache = {Genesis}
    /\ queue = << >>
    /\ outstanding = [h \in {} |-> << >>]
    /\ reqs = [p \in Peer |-> {}]
    /\ inflight = [p \in Peer |-> {}]
    /\ answers = [p \in Peer |-> {}]
    /\ flushed = [p \in Peer |-> {}]
    /\ received = 0
    /\ handed = << >>

\* A message from p gets into the queue: any proposal p may make or forward, or a
\* vote for a block minted here, now or before a restart.
receive(op, b, p) ==
    /\ received < MaxReceived
    /\ b \in Knows[p]
    /\ op = "vote" => b \in Own
    /\ received' = received + 1
    /\ queue' = Append(queue, [op |-> op, block |-> b, from |-> p, id |-> received + 1])
    /\ UNCHANGED <<cache, outstanding, fetching, flushed, handed>>

\* do_propose inserts its block from the application thread; nothing looks
\* whether an event is parked for it.
do_propose(b) ==
    /\ b \in Own
    /\ Preds(b) \subseteq cache
    /\ cache' = cache \cup {b}
    /\ UNCHANGED <<queue, outstanding, fetching, flushed, received, handed>>

-----------------------------------------------------------------------------
(* The network-event thread *)

\* mutant: the parent is not looked for.
missing_justify_only(b) == {Justify[b]} \ cache

missing(b) == Preds(b) \ cache
ParkedFor(h) == IF h \in DOMAIN outstanding THEN outstanding[h] ELSE << >>

\* mutant: the parked events are returned, and stay parked.
deliver_block_keep(b) == outstanding

\* The requests that stay when b has arrived.
deliver_block(b) == [h \in DOMAIN outstanding \ {b} |-> outstanding[h]]

\* add_fetch_request, for all hashes of H: p is asked, and the events wait for h.
add_fetch_request(requests, H, h, events, p) ==
    /\ outstanding' =
          [i \in DOMAIN requests \cup H |->
              (IF i \in DOMAIN requests THEN requests[i] ELSE << >>)
              \o (IF i = h THEN events ELSE << >>)]
    /\ reqs' = [reqs EXCEPT ![p] = @ \cup H]

hand_over(e) == handed' = IF e.op = "block" THEN handed ELSE Append(handed, e.id)

on_vote(e) ==
    /\ queue' = Tail(queue)
    /\ IF e.block \in cache
       THEN hand_over(e) /\ UNCHANGED <<outstanding, reqs>>
       ELSE /\ add_fetch_request(outstanding, {e.block}, e.block, <<e>>, e.from)
            /\ UNCHANGED handed
    /\ UNCHANGED cache

\* mutant: a block with missing predecessors leaves behind the events parked for it.
on_block_forget(e) ==
    LET b == e.block
        parked == ParkedFor(b)
    IN IF missing(b) = {}
       THEN /\ cache' = cache \cup {b}
            /\ queue' = Tail(queue) \o parked
            /\ outstanding' = deliver_block(b)
            /\ hand_over(e)
            /\ UNCHANGED reqs
       ELSE /\ queue' = Tail(queue)
            /\ add_fetch_request(deliver_block(b), missing(b),
                   IF Parent[b] \in missing(b) THEN Parent[b] ELSE Justify[b], <<e>>, e.from)
            /\ UNCHANGED <<cache, handed>>

\* A proposed or fetched block: with its predecessors there it is inserted, the
\* events parked for it go to the end of the queue, and a proposal goes to the
\* core.  Else it waits with them for its parent or, only if that is there, for
\* the block it certifies; both are asked for.
on_block(e) ==
    LET b == e.block
        parked == ParkedFor(b)
    IN IF missing(b) = {}
       THEN /\ cache' = cache \cup {b}
            /\ queue' = Tail(queue) \o parked
            /\ outstanding' = deliver_block(b)
            /\ hand_over(e)
            /\ UNCHANGED reqs
       ELSE /\ queue' = Tail(queue)
            /\ add_fetch_request(deliver_block(b), missing(b),
                   IF Parent[b] \in missing(b) THEN Parent[b] ELSE Justify[b],
                   Append(parked, e), e.from)
            /\ UNCHANGED <<cache, handed>>

on_event ==
    /\ queue # << >>
    /\ LET e == Head(queue)
       IN \/ e.op = "vote" /\ on_vote(e)
          \/ e.op # "vote" /\ on_block(e)
    /\ UNCHANGED <<inflight, answers, flushed, received>>

-----------------------------------------------------------------------------
(* The worker for peer p, and the peer *)

\* mutant: the worker takes up new requests while it is posting a response.
extract_reqs_unposted(p) ==
    /\ reqs[p] # {} /\ inflight[p] = {}
    /\ inflight' = [inflight EXCEPT ![p] = reqs[p]]
    /\ reqs' = [reqs EXCEPT ![p] = {}]
    /\ UNCHANGED <<cache, queue, outstanding, answers, flushed, received, handed>>

extract_reqs(p) ==
    /\ reqs[p] # {} /\ inflight[p] = {} /\ answers[p] = {}
    /\ inflight' = [inflight EXCEPT ![p] = reqs[p]]
    /\ reqs' = [reqs EXCEPT ![p] = {}]
    /\ UNCHANGED <<cache, queue, outstanding, answers, flushed, received, handed>>

\* mutant: the request is forgotten with the connection.
readd_nothing(p) ==
    /\ inflight[p] # {}
    /\ inflight' = [inflight EXCEPT ![p] = {}]
    /\ UNCHANGED <<cache, queue, outstanding, reqs, answers, flushed, received, handed>>

\* The call failed: the hashes are asked for again.
readd_request(p) ==
    /\ inflight[p] # {}
    /\ reqs' = [reqs EXCEPT ![p] = @ \cup inflight[p]]
    /\ inflight' = [inflight EXCEPT ![p] = {}]
    /\ UNCHANGED <<cache, queue, outstanding, answers, flushed, received, handed>>

\* The peer answers with the blocks it has and has not flushed; what it leaves
\* out is not asked for again.  A body that is flushed after the check, while it
\* is copied, may arrive damaged, and the hash check of post drops it.
fetch(p) ==
    /\ inflight[p] # {}
    /\ \E damaged \in SUBSET (inflight[p] \cap Knows[p] \cap Flushable) :
          /\ flushed' = [flushed EXCEPT ![p] = @ \cup damaged]
          /\ answers' = [answers EXCEPT ![p] = (inflight[p] \cap Knows[p]) \ flushed'[p]]
    /\ inflight' = [inflight EXCEPT ![p] = {}]
    /\ UNCHANGED <<cache, queue, outstanding, reqs, received, handed>>

\* The worker posts the blocks of the response one by one.
post(p) ==
    /\ \E b \in answers[p] :
          /\ answers' = [answers EXCEPT ![p] = @ \ {b}]
          /\ queue' = Append(queue, [op |-> "block", block |-> b, from |-> p, id |-> 0])
    /\ UNCHANGED <<cache, outstanding, reqs, inflight, flushed, received, handed>>

flush_from_memory(p, b) ==
    /\ b \in (Flushable \cap Knows[p]) \ flushed[p]
    /\ flushed' = [flushed EXCEPT ![p] = @ \cup {b}]
    /\ UNCHANGED <<cache, queue, outstanding, fetching, received, handed>>

replica_step ==
    \/ \E b \in Own : do_propose(b)
    \/ on_event
    \/ \E p \in Peer :
          \/ extract_reqs(p) \/ readd_request(p) \/ fetch(p) \/ post(p)
          \/ \E b \in Block : flush_from_memory(p, b)

Next ==
    \/ \E op \in {"proposal", "vote"}, b \in Block, p \in Peer : receive(op, b, p)
    \/ replica_step

Spec == Init /\ [][Next]_vars

-----------------------------------------------------------------------------
(* Properties *)

\* The type of the state.
Event == [op : {"proposal", "vote", "block"}, block : Block, from : Peer, id : 0..MaxReceived]
TypeOK ==
    /\ cache \subseteq Block \cup {Genesis}
    /\ queue \in Seq(Event)
    /\ DOMAIN outstanding \subseteq Block
    /\ \A h \in DOMAIN outstanding : outstanding[h] \in Seq(Event)
    /\ reqs \in [Peer -> SUBSET Block]
    /\ inflight \in [Peer -> SUBSET Block]
    /\ answers \in [Peer -> SUBSET Block]
    /\ flushed \in [Peer -> SUBSET Block]
    /\ received \in 0..MaxReceived
    /\ handed \in Seq(1..MaxReceived)

\* No message is lost or handled twice, however often it is parked, returned and
\* parked again: on_event, add_fetch_request and deliver_block only move it.
Times(i, s) == Cardinality({k \in DOMAIN s : s[k].id = i})
InQueueOrCore(i) == Times(i, queue) + Cardinality({k \in DOMAIN handed : handed[k] = i})
Waiting(i) == {h \in DOMAIN outstanding : Times(i, outstanding[h]) > 0}
Conserved ==
    \A i \in 1..received :
        \/ InQueueOrCore(i) = 1 /\ Waiting(i) = {}
        \/ /\ InQueueOrCore(i) = 0
           /\ \E h \in Waiting(i) : Waiting(i) = {h} /\ Times(i, outstanding[h]) = 1

\* The store is closed under predecessors, whatever order blocks arrive in: the
\* walks of consensus.cc along parent and justify never meet a null pointer.
PredecessorsStored == \A b \in cache \ {Genesis} : Preds(b) \subseteq cache

\* An event waits only for a block that is requested or on its way, or whose body
\* some peer has flushed: failed calls and repeated parking lose no request.
AlwaysAsked ==
    \A h \in DOMAIN outstanding :
        \/ \E p \in Peer : h \in reqs[p] \cup inflight[p] \cup answers[p] \cup flushed[p]
        \/ \E k \in DOMAIN queue : queue[k].op # "vote" /\ queue[k].block = h

\* The inductive invariant behind AlwaysAsked: a peer is only asked for what it
\* knows, because it is asked for predecessors of what it sent (on_event), and
\* so its answers leave out only what it has flushed.
KnownEvent == {e \in Event : e.block \in Knows[e.from] /\ (e.op = "block" <=> e.id = 0)}
AskInv ==
    /\ Genesis \in cache /\ cache \subseteq Block \cup {Genesis}
    /\ DOMAIN outstanding \subseteq Block
    /\ handed \in Seq(1..MaxReceived)
    /\ queue \in Seq(KnownEvent)
    /\ \A h \in DOMAIN outstanding : outstanding[h] \in Seq(KnownEvent)
    /\ reqs \in [Peer -> SUBSET Block]
    /\ inflight \in [Peer -> SUBSET Block]
    /\ answers \in [Peer -> SUBSET Block]
    /\ flushed \in [Peer -> SUBSET Block]
    /\ received \in 0..MaxReceived
    /\ \A p \in Peer :
          /\ reqs[p] \cup inflight[p] \cup answers[p] \subseteq Knows[p]
          /\ inflight[p] = {} \/ answers[p] = {}
    /\ AlwaysAsked
=============================================================================
