--------------------------- MODULE DeliveryProofs ---------------------------
(***************************************************************************)
(* Proofs about BlockFetch, for any arrivals, and about Delivery: the      *)
(* messages of a replica arrive in order, and what BlockFetch promises     *)
(* holds for these.                                                        *)
(***************************************************************************)
EXTENDS Delivery, FiniteSetTheorems, TLAPS

-----------------------------------------------------------------------------
(* The chain of cached blocks *)

\* insert_block, on either thread, adds a block only below which nothing is
\* missing, and no step removes one.
LEMMA CacheStep ==
    ASSUME [Next]_vars
    PROVE  \/ cache' = cache
           \/ \E b : cache' = cache \cup {b} /\ Preds(b) \subseteq cache
<1>1. ASSUME NEW b \in Own, do_propose(b)
      PROVE  cache' = cache \cup {b} /\ Preds(b) \subseteq cache
    BY <1>1 DEF do_propose
<1>2. CASE on_event
  <2> DEFINE e == Head(queue)
  <2>1. CASE on_vote(e)
    BY <2>1 DEF on_vote
  <2>2. CASE on_block(e)
    BY <2>2 DEF on_block, missing
  <2> QED BY <1>2, <2>1, <2>2 DEF on_event
<1>3. ASSUME NEW p \in Peer,
             \/ extract_reqs(p) \/ readd_request(p) \/ fetch(p) \/ post(p)
             \/ \E b \in Block : flush_from_memory(p, b)
      PROVE  cache' = cache
    BY <1>3 DEF extract_reqs, readd_request, fetch, post, flush_from_memory
<1>4. ASSUME NEW op, NEW b \in Block, NEW p \in Peer, receive(op, b, p)
      PROVE  cache' = cache
    BY <1>4 DEF receive
<1>5. CASE UNCHANGED vars
    BY <1>5 DEF vars
<1> QED BY <1>1, <1>2, <1>3, <1>4, <1>5 DEF Next, replica_step

\* For every block tree, every set of peers and every order of arrival the store
\* is closed under predecessors: parent and justify pointers that insert_block
\* sets are never null.
THEOREM PredecessorsStoredHolds == Spec => []PredecessorsStored
<1>1. Init => PredecessorsStored
    BY DEF Init, PredecessorsStored
<1>2. PredecessorsStored /\ [Next]_vars => PredecessorsStored'
    BY CacheStep DEF PredecessorsStored, Preds
<1> QED BY <1>1, <1>2, PTL DEF Spec
-----------------------------------------------------------------------------
(* No event waits in vain *)

\* Posting an event leaves every answer that is in the queue there.
LEMMA AppendKeeps ==
    ASSUME NEW q \in Seq(KnownEvent), NEW e \in KnownEvent, NEW k \in DOMAIN q
    PROVE  k \in DOMAIN Append(q, e) /\ Append(q, e)[k] = q[k]
OBVIOUS

\* Handling the first event leaves the others in the queue.
LEMMA TailKeeps ==
    ASSUME NEW q \in Seq(KnownEvent), NEW s \in Seq(KnownEvent), q # << >>,
           NEW k \in DOMAIN q, k # 1
    PROVE  /\ k - 1 \in DOMAIN (Tail(q) \o s)
           /\ (Tail(q) \o s)[k - 1] = q[k]
           /\ k - 1 \in DOMAIN Tail(q)
           /\ Tail(q)[k - 1] = q[k]
OBVIOUS

\* The requests and answers of the workers, and what has been flushed meanwhile.
Pending(h) == \E p \in Peer : h \in reqs[p] \cup inflight[p] \cup answers[p] \cup flushed[p]
Answered(h) == \E k \in DOMAIN queue : queue[k].op # "vote" /\ queue[k].block = h

\* AlwaysAsked in these terms.
LEMMA AskedMeans ==
    AlwaysAsked <=> \A h \in DOMAIN outstanding : Pending(h) \/ Answered(h)
BY DEF AlwaysAsked, Pending, Answered

\* The workers and the peers: a failed call is repeated, and an answer has every
\* block that was asked for and not flushed.
LEMMA WorkerStep ==
    ASSUME AskInv, NEW p \in Peer,
           extract_reqs(p) \/ readd_request(p) \/ fetch(p) \/ post(p)
    PROVE  AskInv'
<1>1. CASE extract_reqs(p)
    BY <1>1 DEF AskInv, extract_reqs, AlwaysAsked
<1>2. CASE readd_request(p)
    BY <1>2 DEF AskInv, readd_request, AlwaysAsked
<1>3. CASE fetch(p)
  <2>1. PICK damaged \in SUBSET (inflight[p] \cap Knows[p] \cap Flushable) :
            /\ flushed' = [flushed EXCEPT ![p] = @ \cup damaged]
            /\ answers' = [answers EXCEPT ![p] = (inflight[p] \cap Knows[p]) \ flushed'[p]]
    BY <1>3 DEF fetch
  <2>2. /\ flushed' = [flushed EXCEPT ![p] = @ \cup damaged]
        /\ answers' = [answers EXCEPT ![p] = inflight[p] \ flushed'[p]]
        /\ flushed'[p] = flushed[p] \cup damaged /\ damaged \in SUBSET Block
    BY <2>1 DEF AskInv
  <2> QED BY <1>3, <2>2 DEF AskInv, fetch, AlwaysAsked
<1>4. CASE post(p)
  <2>1. PICK b \in answers[p] :
            /\ answers' = [answers EXCEPT ![p] = @ \ {b}]
            /\ queue' = Append(queue, [op |-> "block", block |-> b, from |-> p, id |-> 0])
    BY <1>4 DEF post
  <2> DEFINE e == [op |-> "block", block |-> b, from |-> p, id |-> 0]
  <2>2. b \in Block /\ b \in Knows[p] /\ 0 \in 0..MaxReceived
    BY <2>1, FetchAssumption DEF AskInv
  <2>3. e \in KnownEvent
    BY <2>2 DEF KnownEvent, Event
  <2>4. queue \in Seq(KnownEvent) /\ queue' = Append(queue, e)
    BY <2>1 DEF AskInv
  <2> HIDE DEF e
  <2>5. queue' \in Seq(KnownEvent)
    BY <2>3, <2>4
  <2>6. AlwaysAsked'
    <3> SUFFICES ASSUME NEW h \in DOMAIN outstanding
                 PROVE  Pending(h)' \/ Answered(h)'
      BY <1>4 DEF post, AlwaysAsked, Pending, Answered
    <3>1. CASE h = b
      <4>1. Len(queue) + 1 \in DOMAIN queue' /\ queue'[Len(queue) + 1] = e
        BY <2>3, <2>4
      <4> QED BY <3>1, <4>1 DEF Answered, e
    <3>2. CASE h # b /\ Pending(h)
      BY <1>4, <2>1, <3>2 DEF post, Pending, AskInv
    <3>3. CASE Answered(h)
      BY <2>3, <2>4, <3>3, AppendKeeps DEF Answered
    <3> QED BY <3>1, <3>2, <3>3, AskedMeans DEF AskInv
  <2> QED BY <1>4, <2>1, <2>5, <2>6 DEF AskInv, post
<1> QED BY <1>1, <1>2, <1>3, <1>4

\* A message arrives.
LEMMA ReceiveStep ==
    ASSUME AskInv, NEW op \in {"proposal", "vote"}, NEW b \in Block, NEW p \in Peer,
           receive(op, b, p)
    PROVE  AskInv'
<1> DEFINE e == [op |-> op, block |-> b, from |-> p, id |-> received + 1]
<1>1. /\ b \in Knows[p] /\ received' = received + 1
      /\ received + 1 \in 0..MaxReceived /\ received + 1 # 0
      /\ queue \in Seq(KnownEvent) /\ queue' = Append(queue, e)
    BY FetchAssumption DEF AskInv, receive
<1>2. e \in KnownEvent
    BY <1>1 DEF KnownEvent, Event
<1> HIDE DEF e
<1>3. queue' \in Seq(KnownEvent)
    BY <1>1, <1>2
<1>4. AlwaysAsked'
  <2> SUFFICES ASSUME NEW h \in DOMAIN outstanding
               PROVE  Pending(h)' \/ Answered(h)'
    BY DEF receive, fetching, AlwaysAsked, Pending, Answered
  <2>1. CASE Pending(h)
    BY <2>1 DEF receive, fetching, Pending
  <2>2. CASE Answered(h)
    BY <1>1, <1>2, <2>2, AppendKeeps DEF Answered
  <2> QED BY <2>1, <2>2, AskedMeans DEF AskInv
<1> QED BY <1>1, <1>3, <1>4 DEF AskInv, receive, fetching

\* What is missing below a block that p sent, p knows.
LEMMA MissingKnown ==
    ASSUME AskInv, NEW e \in KnownEvent
    PROVE  missing(e.block) \subseteq Knows[e.from] /\ missing(e.block) \subseteq Block
<1>1. e.block \in Knows[e.from] /\ e.from \in Peer
    BY DEF KnownEvent, Event
<1> QED BY <1>1, FetchAssumption DEF AskInv, missing

\* Events are parked and the missing blocks asked for (add_fetch_request).
LEMMA AddKeeps ==
    ASSUME AskInv, NEW requests, \A i \in DOMAIN requests : requests[i] \in Seq(KnownEvent),
           NEW p \in Peer, NEW H \in SUBSET Block, H \subseteq Knows[p],
           NEW h, NEW events \in Seq(KnownEvent),
           add_fetch_request(requests, H, h, events, p)
    PROVE  /\ DOMAIN outstanding' = DOMAIN requests \cup H
           /\ \A i \in DOMAIN outstanding' : outstanding'[i] \in Seq(KnownEvent)
           /\ reqs' \in [Peer -> SUBSET Block]
           /\ \A q \in Peer : reqs[q] \subseteq reqs'[q] /\ reqs'[q] \subseteq Knows[q]
           /\ H \subseteq reqs'[p]
<1>1. << >> \in Seq(KnownEvent)
    OBVIOUS
<1>2. \A s, t \in Seq(KnownEvent) : s \o t \in Seq(KnownEvent)
    OBVIOUS
<1>3. \A i \in DOMAIN outstanding' : outstanding'[i] \in Seq(KnownEvent)
    BY <1>1, <1>2 DEF add_fetch_request
<1>4. DOMAIN outstanding' = DOMAIN requests \cup H
    BY DEF add_fetch_request
<1>5. reqs' = [reqs EXCEPT ![p] = @ \cup H] /\ reqs \in [Peer -> SUBSET Block]
    BY DEF add_fetch_request, AskInv
<1>6. \A q \in Peer : reqs[q] \subseteq Knows[q]
    BY DEF AskInv
<1> QED BY <1>3, <1>4, <1>5, <1>6

\* Only messages are handed to the core, by their number.
LEMMA HandOver ==
    ASSUME AskInv, NEW e \in KnownEvent, hand_over(e)
    PROVE  handed' \in Seq(1..MaxReceived)
<1>1. e.op = "block" \/ e.id \in 1..MaxReceived
    BY FetchAssumption DEF KnownEvent, Event
<1>2. handed \in Seq(1..MaxReceived)
    BY DEF AskInv
<1>3. CASE e.op = "block"
    BY <1>2, <1>3 DEF hand_over
<1>4. CASE e.op # "block"
  <2>1. handed' = Append(handed, e.id) /\ e.id \in 1..MaxReceived
    BY <1>1, <1>4 DEF hand_over
  <2> QED BY <1>2, <2>1
<1> QED BY <1>3, <1>4

\* The network-event thread handles a vote (on_event).
LEMMA VoteEventStep ==
    ASSUME AskInv, queue # << >>, NEW e, e = Head(queue), e.op = "vote", on_vote(e),
           UNCHANGED <<inflight, answers, flushed, received>>
    PROVE  AskInv'
<1>1. queue \in Seq(KnownEvent) /\ e \in KnownEvent /\ e = queue[1]
    BY DEF AskInv
<1>2. e.block \in Knows[e.from] /\ e.from \in Peer /\ e.block \in Block
    BY <1>1 DEF KnownEvent, Event
<1>3. queue' = Tail(queue) /\ queue' \in Seq(KnownEvent) /\ cache' = cache
    BY <1>1 DEF on_vote
<1>handed. handed' \in Seq(1..MaxReceived)
    BY <1>1, HandOver DEF on_vote, AskInv
<1>4. ASSUME NEW h, Answered(h)
      PROVE  Answered(h)'
  <2>1. PICK k \in DOMAIN queue : queue[k].op # "vote" /\ queue[k].block = h
    BY <1>4 DEF Answered
  <2>2. k # 1
    BY <1>1, <2>1
  <2>3. << >> \in Seq(KnownEvent)
    OBVIOUS
  <2>4. k - 1 \in DOMAIN Tail(queue) /\ Tail(queue)[k - 1] = queue[k]
    BY <1>1, <2>2, <2>3, TailKeeps
  <2> QED BY <1>3, <2>1, <2>4 DEF Answered
<1>5. CASE e.block \in cache
  <2>1. UNCHANGED <<outstanding, reqs>>
    BY <1>5 DEF on_vote
  <2>2. \A h : Pending(h) => Pending(h)'
    BY <2>1 DEF Pending
  <2>3. AlwaysAsked'
    BY <1>4, <2>1, <2>2, AskedMeans DEF AskInv, AlwaysAsked, Pending, Answered
  <2> QED BY <1>3, <1>handed, <2>1, <2>3 DEF AskInv
<1>6. CASE e.block \notin cache
  <2>1. PICK H, events :
          /\ H = {e.block} /\ events = <<e>>
          /\ add_fetch_request(outstanding, H, e.block, events, e.from)
    BY <1>6 DEF on_vote
  <2>2. events \in Seq(KnownEvent) /\ H \in SUBSET Block /\ H \subseteq Knows[e.from]
    BY <1>1, <1>2, <2>1
  <2>3. \A h \in DOMAIN outstanding : outstanding[h] \in Seq(KnownEvent)
    BY DEF AskInv
  <2>4. /\ DOMAIN outstanding' = DOMAIN outstanding \cup H
        /\ \A i \in DOMAIN outstanding' : outstanding'[i] \in Seq(KnownEvent)
        /\ reqs' \in [Peer -> SUBSET Block]
        /\ \A q \in Peer : reqs[q] \subseteq reqs'[q] /\ reqs'[q] \subseteq Knows[q]
        /\ H \subseteq reqs'[e.from]
    BY <1>2, <2>1, <2>2, <2>3, AddKeeps
  <2>5. \A h : Pending(h) => Pending(h)'
    BY <2>4 DEF Pending
  <2>6. \A h \in H : Pending(h)'
    BY <1>2, <2>4 DEF Pending
  <2>7. AlwaysAsked'
    BY <1>4, <2>4, <2>5, <2>6, AskedMeans DEF AskInv, AlwaysAsked, Pending, Answered
  <2> QED BY <1>3, <1>handed, <2>2, <2>4, <2>7 DEF AskInv
<1> QED BY <1>5, <1>6

\* The network-event thread handles a proposal or a fetched block (on_event): the
\* block's own request ends, and what is missing below it is asked for.
LEMMA BlockEventStep ==
    ASSUME AskInv, queue # << >>, NEW e, e = Head(queue), on_block(e),
           UNCHANGED <<inflight, answers, flushed, received>>
    PROVE  AskInv'
<1>1. queue \in Seq(KnownEvent) /\ e \in KnownEvent /\ e = queue[1]
    BY DEF AskInv
<1>2. e.block \in Knows[e.from] /\ e.from \in Peer /\ e.block \in Block
    BY <1>1 DEF KnownEvent, Event
<1>3. PICK parked : parked = ParkedFor(e.block)
    OBVIOUS
<1>4. parked \in Seq(KnownEvent) /\ << >> \in Seq(KnownEvent)
  <2>1. << >> \in Seq(KnownEvent)
    OBVIOUS
  <2> QED BY <1>3, <2>1 DEF ParkedFor, AskInv
<1>5. PICK requests : requests = deliver_block(e.block)
    OBVIOUS
<1>6. /\ DOMAIN requests = DOMAIN outstanding \ {e.block}
      /\ \A i \in DOMAIN requests : requests[i] \in Seq(KnownEvent)
    BY <1>5 DEF deliver_block, AskInv
<1>7. ASSUME NEW h, h # e.block, Answered(h),
             queue' = Tail(queue) \/ queue' = Tail(queue) \o parked
      PROVE  Answered(h)'
  <2>1. PICK k \in DOMAIN queue : queue[k].op # "vote" /\ queue[k].block = h
    BY <1>7 DEF Answered
  <2>2. k # 1
    BY <1>1, <1>7, <2>1
  <2>3. k - 1 \in DOMAIN queue' /\ queue'[k - 1] = queue[k]
    BY <1>1, <1>4, <1>7, <2>2, TailKeeps
  <2> QED BY <2>1, <2>3 DEF Answered
<1>handed. handed' \in Seq(1..MaxReceived)
    BY <1>1, HandOver DEF on_block, AskInv
<1>8. CASE missing(e.block) = {}
  <2>1. /\ cache' = cache \cup {e.block} /\ queue' = Tail(queue) \o parked
        /\ outstanding' = requests /\ reqs' = reqs
    BY <1>3, <1>5, <1>8 DEF on_block
  <2>2. Tail(queue) \in Seq(KnownEvent)
    BY <1>1
  <2>3. queue' \in Seq(KnownEvent)
    BY <1>4, <2>1, <2>2
  <2>4. \A h : Pending(h) => Pending(h)'
    BY <2>1 DEF Pending
  <2>5. AlwaysAsked'
    BY <1>6, <1>7, <2>1, <2>4, AskedMeans DEF AskInv, AlwaysAsked, Pending, Answered
  <2> QED BY <1>2, <1>6, <1>handed, <2>1, <2>3, <2>5 DEF AskInv
<1>9. CASE missing(e.block) # {}
  <2>1. PICK H, h0 :
          /\ H = missing(e.block) /\ queue' = Tail(queue) /\ cache' = cache
          /\ add_fetch_request(requests, H, h0, Append(parked, e), e.from)
    BY <1>3, <1>5, <1>9 DEF on_block
  <2>2. H \in SUBSET Block /\ H \subseteq Knows[e.from]
    BY <1>1, <2>1, MissingKnown
  <2>3. Append(parked, e) \in Seq(KnownEvent) /\ queue' \in Seq(KnownEvent)
    BY <1>1, <1>4, <2>1
  <2>4. /\ DOMAIN outstanding' = DOMAIN requests \cup H
        /\ \A i \in DOMAIN outstanding' : outstanding'[i] \in Seq(KnownEvent)
        /\ reqs' \in [Peer -> SUBSET Block]
        /\ \A q \in Peer : reqs[q] \subseteq reqs'[q] /\ reqs'[q] \subseteq Knows[q]
        /\ H \subseteq reqs'[e.from]
    BY <1>2, <1>6, <2>1, <2>2, <2>3, AddKeeps
  <2>5. \A h : Pending(h) => Pending(h)'
    BY <2>4 DEF Pending
  <2>6. \A h \in H : Pending(h)'
    BY <1>2, <2>4 DEF Pending
  <2>7. AlwaysAsked'
    BY <1>6, <1>7, <2>1, <2>4, <2>5, <2>6, AskedMeans
       DEF AskInv, AlwaysAsked, Pending, Answered
  <2> QED BY <1>6, <1>handed, <2>1, <2>2, <2>3, <2>4, <2>7 DEF AskInv
<1> QED BY <1>8, <1>9

\* Every event that waits for a block waits for an answer that will come, or for
\* a block that has been flushed: failed calls, duplicates and any order of
\* arrival included.
THEOREM AskInvariance == Spec => []AskInv
<1>1. Init => AskInv
    BY FetchAssumption DEF Init, AskInv, AlwaysAsked
<1>2. AskInv /\ [Next]_vars => AskInv'
  <2> SUFFICES ASSUME AskInv, [Next]_vars PROVE AskInv'
    OBVIOUS
  <2>1. ASSUME NEW b \in Own, do_propose(b) PROVE AskInv'
    BY <2>1, FetchAssumption DEF AskInv, do_propose, fetching, AlwaysAsked
  <2>2. CASE on_event
    BY <2>2, VoteEventStep, BlockEventStep DEF on_event
  <2>3. ASSUME NEW p \in Peer, NEW b \in Block, flush_from_memory(p, b) PROVE AskInv'
    BY <2>3 DEF flush_from_memory, fetching, AskInv, AlwaysAsked
  <2>4. CASE UNCHANGED vars
    BY <2>4 DEF vars, AskInv, AlwaysAsked
  <2> QED BY <2>1, <2>2, <2>3, <2>4, ReceiveStep, WorkerStep DEF Next, replica_step
<1> QED BY <1>1, <1>2, PTL DEF Spec

\* No event ever waits for a block that nobody is asked for (on_event,
\* readd_request), unless a peer has flushed it.
THEOREM AlwaysAskedHolds == Spec => []AlwaysAsked
<1>1. AskInv => AlwaysAsked
    BY DEF AskInv
<1>2. Spec => []AskInv
    BY AskInvariance
<1> QED BY <1>1, <1>2, PTL

\* The queue, the parked events and the requests keep their types, and only
\* messages, which have a number, are handed to the core (on_event).
THEOREM FetchTypeCorrect == Spec => []TypeOK
<1>1. AskInv => TypeOK
  <2> SUFFICES ASSUME AskInv PROVE TypeOK
    OBVIOUS
  <2>1. \A s \in Seq(KnownEvent) : s \in Seq(Event)
    BY DEF KnownEvent
  <2> QED BY <2>1 DEF AskInv, TypeOK
<1>2. Spec => []AskInv
    BY AskInvariance
<1> QED BY <1>1, <1>2, PTL
-----------------------------------------------------------------------------
(* No message is lost or handled twice *)

\* Message i is in a sequence of events, and is there no more than once; the same
\* for the numbers of the messages handed to the core.
Has(i, s) == \E k \in DOMAIN s : s[k].id = i
Lone(i, s) == \A k, l \in DOMAIN s : s[k].id = i /\ s[l].id = i => k = l
HasN(i, n) == \E k \in DOMAIN n : n[k] = i
LoneN(i, n) == \A k, l \in DOMAIN n : n[k] = i /\ n[l] = i => k = l

\* Message i is in one place of queue q, requests out and core n, or has not
\* arrived as r messages have.
OnceAt(i, q, out, n, r) ==
    /\ Lone(i, q) /\ LoneN(i, n)
    /\ \A h \in DOMAIN out : Lone(i, out[h])
    /\ Has(i, q) => ~HasN(i, n)
    /\ \A h \in DOMAIN out : Has(i, out[h]) => ~Has(i, q) /\ ~HasN(i, n)
    /\ \A g, h \in DOMAIN out : Has(i, out[g]) /\ Has(i, out[h]) => g = h
    /\ (Has(i, q) \/ HasN(i, n) \/ \E h \in DOMAIN out : Has(i, out[h])) <=> i <= r
OnceInv == \A i \in 1..MaxReceived : OnceAt(i, queue, outstanding, handed, received)

\* An event comes to the end of a sequence.
LEMMA AppendPlaces ==
    ASSUME NEW s \in Seq(KnownEvent), NEW e \in KnownEvent, NEW i
    PROVE  /\ Has(i, Append(s, e)) <=> Has(i, s) \/ e.id = i
           /\ Lone(i, s) /\ (Has(i, s) => e.id # i) => Lone(i, Append(s, e))
<1>1. /\ DOMAIN Append(s, e) = 1..Len(s) + 1 /\ DOMAIN s = 1..Len(s) /\ Len(s) \in Nat
      /\ Append(s, e)[Len(s) + 1] = e
      /\ \A k \in 1..Len(s) : Append(s, e)[k] = s[k]
    OBVIOUS
<1> QED BY <1>1 DEF Has, Lone

\* The first event leaves a sequence.
LEMMA TailPlaces ==
    ASSUME NEW s \in Seq(KnownEvent), s # << >>, NEW i
    PROVE  /\ Has(i, s) <=> Head(s).id = i \/ Has(i, Tail(s))
           /\ Lone(i, s) => Lone(i, Tail(s))
           /\ Lone(i, s) /\ Head(s).id = i => ~Has(i, Tail(s))
<1>1. /\ DOMAIN s = 1..Len(s) /\ Len(s) \in Nat /\ Len(s) > 0
      /\ DOMAIN Tail(s) = 1..Len(s) - 1
      /\ Head(s) = s[1]
      /\ \A k \in 1..Len(s) - 1 : Tail(s)[k] = s[k + 1]
    OBVIOUS
<1>2. PICK t : t = Tail(s)
    OBVIOUS
<1>3. \A k \in DOMAIN s : k = 1 \/ (k - 1 \in DOMAIN t /\ s[k] = t[k - 1])
    BY <1>1, <1>2
<1>4. \A k \in DOMAIN t : k + 1 \in DOMAIN s /\ k + 1 # 1 /\ t[k] = s[k + 1] /\ k \in Int
    BY <1>1, <1>2
<1>5. Has(i, s) <=> Head(s).id = i \/ Has(i, t)
  <2>1. ASSUME Has(i, s) PROVE Head(s).id = i \/ Has(i, t)
    BY <1>1, <1>3, <2>1 DEF Has
  <2>2. ASSUME Has(i, t) PROVE Has(i, s)
    BY <1>4, <2>2 DEF Has
  <2>3. 1 \in DOMAIN s /\ s[1] = Head(s)
    BY <1>1
  <2> QED BY <2>1, <2>2, <2>3 DEF Has
<1>6. Lone(i, s) => Lone(i, t)
    BY <1>4 DEF Lone
<1>7. Lone(i, s) /\ Head(s).id = i => ~Has(i, t)
  <2>1. 1 \in DOMAIN s /\ s[1] = Head(s)
    BY <1>1
  <2> QED BY <1>4, <2>1 DEF Lone, Has
<1> QED BY <1>2, <1>5, <1>6, <1>7

\* Events come to the end of a sequence.
LEMMA ConcatPlaces ==
    ASSUME NEW s \in Seq(KnownEvent), NEW t \in Seq(KnownEvent), NEW i
    PROVE  /\ Has(i, s \o t) <=> Has(i, s) \/ Has(i, t)
           /\ Lone(i, s) /\ Lone(i, t) /\ (Has(i, s) => ~Has(i, t)) => Lone(i, s \o t)
<1>1. /\ DOMAIN (s \o t) = 1..Len(s) + Len(t)
      /\ DOMAIN s = 1..Len(s) /\ Len(s) \in Nat
      /\ DOMAIN t = 1..Len(t) /\ Len(t) \in Nat
      /\ \A k \in 1..Len(s) : (s \o t)[k] = s[k]
      /\ \A k \in 1..Len(t) : (s \o t)[Len(s) + k] = t[k]
    OBVIOUS
<1>2. PICK u, m : u = s \o t /\ m = Len(s)
    OBVIOUS
<1>3. \A k \in DOMAIN u : \/ (k \in DOMAIN s /\ u[k] = s[k] /\ k <= m)
                           \/ (k - m \in DOMAIN t /\ u[k] = t[k - m] /\ k > m)
    BY <1>1, <1>2
<1>4. /\ \A k \in DOMAIN s : k \in DOMAIN u /\ u[k] = s[k]
      /\ \A k \in DOMAIN t : m + k \in DOMAIN u /\ u[m + k] = t[k]
      /\ DOMAIN u \subseteq Int /\ m \in Int
    BY <1>1, <1>2
<1>5. Has(i, u) <=> Has(i, s) \/ Has(i, t)
  <2>1. ASSUME Has(i, u) PROVE Has(i, s) \/ Has(i, t)
    BY <1>3, <2>1 DEF Has
  <2>2. ASSUME Has(i, s) \/ Has(i, t) PROVE Has(i, u)
    BY <1>4, <2>2 DEF Has
  <2> QED BY <2>1, <2>2
<1>6. ASSUME Lone(i, s), Lone(i, t), Has(i, s) => ~Has(i, t)
      PROVE  Lone(i, u)
  <2> SUFFICES ASSUME NEW k \in DOMAIN u, NEW l \in DOMAIN u, u[k].id = i, u[l].id = i
               PROVE  k = l
    BY DEF Lone
  <2>1. CASE k \in DOMAIN s /\ u[k] = s[k]
    BY <1>3, <1>6, <2>1 DEF Has, Lone
  <2>2. CASE k - m \in DOMAIN t /\ u[k] = t[k - m]
    <3>1. l - m \in DOMAIN t /\ u[l] = t[l - m]
      BY <1>3, <1>6, <2>2 DEF Has
    <3>2. k - m = l - m
      BY <1>6, <2>2, <3>1 DEF Lone
    <3> QED BY <1>4, <3>2
  <2> QED BY <1>3, <2>1, <2>2
<1> QED BY <1>2, <1>5, <1>6

\* A message is handed to the core.
LEMMA HandPlaces ==
    ASSUME NEW n \in Seq(1..MaxReceived), NEW m \in 1..MaxReceived, NEW i
    PROVE  /\ HasN(i, Append(n, m)) <=> HasN(i, n) \/ m = i
           /\ LoneN(i, n) /\ (HasN(i, n) => m # i) => LoneN(i, Append(n, m))
<1>1. /\ DOMAIN Append(n, m) = 1..Len(n) + 1 /\ DOMAIN n = 1..Len(n) /\ Len(n) \in Nat
      /\ Append(n, m)[Len(n) + 1] = m
      /\ \A k \in 1..Len(n) : Append(n, m)[k] = n[k]
    OBVIOUS
<1> QED BY <1>1 DEF HasN, LoneN

\* receive, and the answers of the workers, add an event to the queue.
LEMMA ArrivalOnce ==
    ASSUME NEW i \in 1..MaxReceived, NEW q \in Seq(KnownEvent), NEW out, NEW n, NEW r \in Nat,
           NEW e \in KnownEvent, OnceAt(i, q, out, n, r)
    PROVE  /\ e.id = r + 1 => OnceAt(i, Append(q, e), out, n, r + 1)
           /\ e.id = 0 => OnceAt(i, Append(q, e), out, n, r)
<1>1. /\ Has(i, Append(q, e)) <=> Has(i, q) \/ e.id = i
      /\ Lone(i, q) /\ (Has(i, q) => e.id # i) => Lone(i, Append(q, e))
    BY AppendPlaces
<1>2. PICK p : p = Append(q, e)
    OBVIOUS
<1>3. i \in Nat /\ i # 0
    OBVIOUS
<1>4. ASSUME e.id = 0 PROVE OnceAt(i, p, out, n, r)
  <2>1. Lone(i, p) /\ (Has(i, p) <=> Has(i, q))
    BY <1>1, <1>2, <1>3, <1>4 DEF OnceAt
  <2> QED BY <2>1 DEF OnceAt
<1>5. ASSUME e.id = r + 1, i # r + 1 PROVE OnceAt(i, p, out, n, r + 1)
  <2>1. Lone(i, p) /\ (Has(i, p) <=> Has(i, q)) /\ (i <= r <=> i <= r + 1)
    BY <1>1, <1>2, <1>3, <1>5 DEF OnceAt
  <2> QED BY <2>1 DEF OnceAt
<1>6. ASSUME e.id = r + 1, i = r + 1 PROVE OnceAt(i, p, out, n, r + 1)
  <2>1. ~(i <= r) /\ i <= r + 1
    BY <1>3, <1>6
  <2>2. ~Has(i, q) /\ ~HasN(i, n) /\ \A h \in DOMAIN out : ~Has(i, out[h])
    BY <2>1 DEF OnceAt
  <2>3. Lone(i, p) /\ Has(i, p)
    BY <1>1, <1>2, <1>6, <2>2 DEF OnceAt
  <2> QED BY <2>1, <2>2, <2>3 DEF OnceAt
<1> QED BY <1>2, <1>4, <1>5, <1>6

\* deliver_block: p is what waited for one block, or nothing, and out1 what is left
\* of the requests out.
Released(out, p, out1) ==
    /\ \A h \in DOMAIN out1 : out1[h] = out[h]
    /\ \/ p = << >> /\ DOMAIN out1 = DOMAIN out
       \/ \E b \in DOMAIN out : p = out[b] /\ DOMAIN out1 = DOMAIN out \ {b}

\* add_fetch_request: the requests out, those for H, and the events evs for h.
With(out, H, h, evs) ==
    [g \in DOMAIN out \cup H |->
        (IF g \in DOMAIN out THEN out[g] ELSE << >>) \o (IF g = h THEN evs ELSE << >>)]

\* The first event of the queue is handed to the core, and the events of a request
\* that has been answered, if there is one, come to the end of the queue.
LEMMA HandedOnce ==
    ASSUME NEW i \in 1..MaxReceived, NEW q \in Seq(KnownEvent), q # << >>, NEW out,
           NEW n \in Seq(1..MaxReceived), NEW r, OnceAt(i, q, out, n, r),
           NEW n1, n1 = IF Head(q).op = "block" THEN n ELSE Append(n, Head(q).id),
           NEW p \in Seq(KnownEvent), NEW out1,
           Released(out, p, out1)
    PROVE  OnceAt(i, Tail(q) \o p, out1, n1, r)
<1>1. PICK e, t, u : e = Head(q) /\ t = Tail(q) /\ u = t \o p
    OBVIOUS
<1>2. e \in KnownEvent /\ t \in Seq(KnownEvent)
    BY <1>1
<1>3. (e.op = "block" /\ e.id = 0) \/ (e.op # "block" /\ e.id \in 1..MaxReceived)
    BY <1>2, FetchAssumption DEF KnownEvent, Event
<1>4. /\ Has(i, q) <=> e.id = i \/ Has(i, t)
      /\ Lone(i, t) /\ (e.id = i => ~Has(i, t))
    BY <1>1, TailPlaces DEF OnceAt
<1>5. /\ HasN(i, n1) <=> HasN(i, n) \/ e.id = i
      /\ LoneN(i, n1)
  <2>1. CASE e.op = "block"
    BY <1>1, <1>3, <2>1 DEF OnceAt
  <2>2. CASE e.op # "block"
    <3>1. n1 = Append(n, e.id) /\ e.id \in 1..MaxReceived
      BY <1>1, <1>3, <2>2
    <3>2. HasN(i, n) => e.id # i
      BY <1>4 DEF OnceAt
    <3> QED BY <3>1, <3>2, HandPlaces DEF OnceAt
  <2> QED BY <2>1, <2>2
<1>6. /\ Has(i, u) <=> Has(i, t) \/ Has(i, p)
      /\ Lone(i, t) /\ Lone(i, p) /\ (Has(i, t) => ~Has(i, p)) => Lone(i, u)
    BY <1>1, <1>2, ConcatPlaces
<1>7. CASE p = << >> /\ DOMAIN out1 = DOMAIN out
  <2>1. ~Has(i, p) /\ Lone(i, p)
    BY <1>7 DEF Has, Lone
  <2>2. \A h \in DOMAIN out : out1[h] = out[h]
    BY <1>7 DEF Released
  <2> QED BY <1>1, <1>4, <1>5, <1>6, <1>7, <2>1, <2>2 DEF OnceAt
<1>8. ASSUME NEW b \in DOMAIN out, p = out[b], DOMAIN out1 = DOMAIN out \ {b}
      PROVE  OnceAt(i, u, out1, n1, r)
  <2>1. DOMAIN out1 = DOMAIN out \ {b} /\ \A h \in DOMAIN out1 : out1[h] = out[h]
    BY <1>8 DEF Released
  <2>2. Lone(i, p) /\ (Has(i, p) => ~Has(i, q) /\ ~HasN(i, n))
    BY <1>8 DEF OnceAt
  <2>3. Lone(i, u) /\ LoneN(i, n1) /\ (Has(i, u) => ~HasN(i, n1))
    BY <1>4, <1>5, <1>6, <2>2 DEF OnceAt
  <2>4. \A h \in DOMAIN out1 : Lone(i, out1[h]) /\ (Has(i, out1[h]) => ~Has(i, u) /\ ~HasN(i, n1))
    BY <1>4, <1>5, <1>6, <1>8, <2>1 DEF OnceAt
  <2>5. \A g, h \in DOMAIN out1 : Has(i, out1[g]) /\ Has(i, out1[h]) => g = h
    BY <2>1 DEF OnceAt
  <2>6. (Has(i, u) \/ HasN(i, n1) \/ \E h \in DOMAIN out1 : Has(i, out1[h])) <=> i <= r
    BY <1>4, <1>5, <1>6, <1>8, <2>1 DEF OnceAt
  <2> QED BY <2>3, <2>4, <2>5, <2>6 DEF OnceAt
<1> QED BY <1>1, <1>7, <1>8 DEF Released
\* The first event of the queue, behind the events p of the request for its block,
\* if there is one, waits for block h.
LEMMA ParkedOnce ==
    ASSUME NEW i \in 1..MaxReceived, NEW q \in Seq(KnownEvent), q # << >>, NEW out,
           \A g \in DOMAIN out : out[g] \in Seq(KnownEvent),
           NEW n, NEW r, OnceAt(i, q, out, n, r),
           NEW p \in Seq(KnownEvent), NEW out1,
           Released(out, p, out1), NEW H, NEW h \in H
    PROVE  OnceAt(i, Tail(q), With(out1, H, h, Append(p, Head(q))), n, r)
<1> DEFINE evs == Append(p, Head(q))
           out2 == With(out1, H, h, evs)
<1>1. PICK e, t : e = Head(q) /\ t = Tail(q)
    OBVIOUS
<1>2. e \in KnownEvent
    BY <1>1
<1>3. /\ Has(i, q) <=> e.id = i \/ Has(i, t)
      /\ Lone(i, t) /\ (e.id = i => ~Has(i, t))
    BY <1>1, TailPlaces DEF OnceAt
<1>4. /\ DOMAIN out1 \subseteq DOMAIN out
      /\ \A g \in DOMAIN out1 : out1[g] = out[g]
      /\ \A g \in DOMAIN out1 : Has(i, p) => ~Has(i, out[g])
      /\ Lone(i, p) /\ (Has(i, p) => ~Has(i, q) /\ ~HasN(i, n))
      /\ (\E g \in DOMAIN out : Has(i, out[g]))
         <=> (Has(i, p) \/ \E g \in DOMAIN out1 : Has(i, out[g]))
  <2>1. CASE p = << >> /\ DOMAIN out1 = DOMAIN out
    <3>1. ~Has(i, p) /\ Lone(i, p)
      BY <2>1 DEF Has, Lone
    <3> QED BY <2>1, <3>1 DEF Released
  <2>2. CASE \E b \in DOMAIN out : p = out[b] /\ DOMAIN out1 = DOMAIN out \ {b}
    <3>1. PICK b \in DOMAIN out : p = out[b] /\ DOMAIN out1 = DOMAIN out \ {b}
      BY <2>2
    <3>2. \A g \in DOMAIN out1 : out1[g] = out[g]
      BY DEF Released
    <3> QED BY <3>1, <3>2 DEF OnceAt
  <2> QED BY <2>1, <2>2 DEF Released
<1>5. /\ evs \in Seq(KnownEvent)
      /\ Has(i, evs) <=> Has(i, p) \/ e.id = i
      /\ Lone(i, evs)
  <2>1. Has(i, p) => e.id # i
    BY <1>3, <1>4
  <2> QED BY <1>1, <1>2, <1>4, <2>1, AppendPlaces
<1>6. /\ Has(i, evs) => ~Has(i, t) /\ ~HasN(i, n)
      /\ \A g \in DOMAIN out1 : Has(i, out1[g]) => ~Has(i, evs) /\ ~Has(i, t) /\ ~HasN(i, n)
    BY <1>3, <1>4, <1>5 DEF OnceAt
<1>7. \A g \in DOMAIN out1 : out1[g] \in Seq(KnownEvent) /\ Lone(i, out1[g])
    BY <1>4 DEF OnceAt
<1>9. DOMAIN out2 = DOMAIN out1 \cup H /\ h \in DOMAIN out2
    BY DEF With
<1> HIDE DEF evs, out2
<1>8. ASSUME NEW g \in DOMAIN out2
      PROVE  /\ Lone(i, out2[g])
             /\ Has(i, out2[g]) <=> ((g \in DOMAIN out1 /\ Has(i, out1[g])) \/ (g = h /\ Has(i, evs)))
  <2>1. PICK u, w : /\ u = IF g \in DOMAIN out1 THEN out1[g] ELSE << >>
                    /\ w = IF g = h THEN evs ELSE << >>
    OBVIOUS
  <2>0. << >> \in Seq(KnownEvent)
    OBVIOUS
  <2>2. u \in Seq(KnownEvent) /\ w \in Seq(KnownEvent)
    BY <1>5, <1>7, <2>0, <2>1, Zenon
  <2>out. out2[g] = u \o w
    BY <1>9, <2>1, Zenon DEF With, out2
  <2>3. Lone(i, << >>) /\ ~Has(i, << >>)
    BY DEF Lone, Has
  <2>4. /\ Lone(i, u) /\ Lone(i, w)
        /\ Has(i, u) <=> g \in DOMAIN out1 /\ Has(i, out1[g])
        /\ Has(i, w) <=> g = h /\ Has(i, evs)
    BY <1>5, <1>7, <2>1, <2>3
  <2>5. Has(i, u) => ~Has(i, w)
    BY <1>6, <2>4
  <2> QED BY <2>2, <2>4, <2>5, <2>out, ConcatPlaces
<1>10. \A g \in DOMAIN out2 : Has(i, out2[g]) => ~Has(i, t) /\ ~HasN(i, n)
    BY <1>6, <1>8
<1>11. \A f, g \in DOMAIN out2 : Has(i, out2[f]) /\ Has(i, out2[g]) => f = g
  <2>1. \A f, g \in DOMAIN out1 : Has(i, out1[f]) /\ Has(i, out1[g]) => f = g
    BY <1>4 DEF OnceAt
  <2> QED BY <1>6, <1>8, <2>1
<1>12. (\E g \in DOMAIN out2 : Has(i, out2[g])) <=> (Has(i, evs) \/ \E g \in DOMAIN out1 : Has(i, out1[g]))
    BY <1>8, <1>9
<1>13. (Has(i, t) \/ HasN(i, n) \/ \E g \in DOMAIN out2 : Has(i, out2[g])) <=> i <= r
    BY <1>3, <1>4, <1>5, <1>12 DEF OnceAt
<1>14. LoneN(i, n) /\ (Has(i, t) => ~HasN(i, n))
    BY <1>3 DEF OnceAt
<1>15. OnceAt(i, t, out2, n, r)
    BY <1>3, <1>8, <1>10, <1>11, <1>13, <1>14 DEF OnceAt
<1> QED BY <1>1, <1>15 DEF evs, out2
\* Every step of the network-event thread, the workers and the senders.
LEMMA OnceStep ==
    ASSUME AskInv, OnceInv, [Next]_vars
    PROVE  OnceInv'
<1> SUFFICES ASSUME NEW i \in 1..MaxReceived
             PROVE  OnceAt(i, queue', outstanding', handed', received')
    BY DEF OnceInv
<1>1. /\ queue \in Seq(KnownEvent) /\ handed \in Seq(1..MaxReceived)
      /\ \A h \in DOMAIN outstanding : outstanding[h] \in Seq(KnownEvent)
      /\ received \in 0..MaxReceived /\ received \in Nat
      /\ OnceAt(i, queue, outstanding, handed, received)
    BY FetchAssumption DEF AskInv, OnceInv
<1>2. ASSUME NEW op \in {"proposal", "vote"}, NEW b \in Block, NEW p \in Peer, receive(op, b, p)
      PROVE  OnceAt(i, queue', outstanding', handed', received')
  <2>1. PICK e : e = [op |-> op, block |-> b, from |-> p, id |-> received + 1]
    OBVIOUS
  <2>2. /\ b \in Knows[p] /\ received + 1 \in 0..MaxReceived /\ received + 1 # 0
        /\ queue' = Append(queue, e) /\ received' = received + 1
        /\ outstanding' = outstanding /\ handed' = handed
    BY <1>1, <1>2, <2>1, FetchAssumption DEF receive
  <2>3. e \in KnownEvent /\ e.id = received + 1
    BY <2>1, <2>2 DEF KnownEvent, Event
  <2> QED BY <1>1, <2>2, <2>3, ArrivalOnce
<1>3. ASSUME NEW p \in Peer, post(p)
      PROVE  OnceAt(i, queue', outstanding', handed', received')
  <2>1. PICK b, e :
            /\ b \in answers[p] /\ e = [op |-> "block", block |-> b, from |-> p, id |-> 0]
            /\ queue' = Append(queue, e)
    BY <1>3 DEF post
  <2>2. b \in Block /\ b \in Knows[p] /\ 0 \in 0..MaxReceived
    BY <2>1, FetchAssumption DEF AskInv
  <2>3. e \in KnownEvent /\ e.id = 0
    BY <2>1, <2>2 DEF KnownEvent, Event
  <2>4. UNCHANGED <<outstanding, handed, received>>
    BY <1>3 DEF post
  <2> QED BY <1>1, <2>1, <2>3, <2>4, ArrivalOnce
<1>4. CASE on_event
  <2>1. PICK e : e = Head(queue)
    OBVIOUS
  <2>2. queue # << >> /\ received' = received /\ (on_vote(e) \/ on_block(e))
    BY <1>4, <2>1 DEF on_event
  <2>3. e \in KnownEvent /\ << >> \in Seq(KnownEvent)
    BY <1>1, <2>1, <2>2
  <2>4. CASE on_vote(e) /\ e.block \in cache
    <3>1. /\ queue' = Tail(queue) /\ outstanding' = outstanding
          /\ handed' = IF Head(queue).op = "block" THEN handed ELSE Append(handed, Head(queue).id)
      BY <2>1, <2>4 DEF on_vote, hand_over
    <3>2. Tail(queue) \o << >> = Tail(queue)
      BY <1>1, <2>2
    <3>3. OnceAt(i, Tail(queue) \o << >>, outstanding', handed', received)
      BY <1>1, <2>2, <2>3, <3>1, HandedOnce DEF Released
    <3> QED BY <2>2, <3>1, <3>2, <3>3
  <2>5. CASE on_vote(e) /\ e.block \notin cache
    <3>1. PICK H : H = {e.block} /\ add_fetch_request(outstanding, H, e.block, <<e>>, e.from)
      BY <2>5 DEF on_vote
    <3>2. /\ queue' = Tail(queue) /\ handed' = handed
          /\ e.block \in H /\ <<e>> = Append(<< >>, Head(queue))
      BY <2>1, <2>5, <3>1 DEF on_vote
    <3>3. outstanding' = With(outstanding, H, e.block, Append(<< >>, Head(queue)))
      BY <3>1, <3>2 DEF add_fetch_request, With
    <3>4. Released(outstanding, << >>, outstanding)
      BY DEF Released
    <3>5. OnceAt(i, Tail(queue), With(outstanding, H, e.block, Append(<< >>, Head(queue))), handed, received)
      BY <1>1, <2>2, <2>3, <3>2, <3>4, ParkedOnce
    <3> QED BY <2>2, <3>2, <3>3, <3>5
  <2>6. CASE on_block(e)
    <3>1. PICK p, out1 : p = ParkedFor(e.block) /\ out1 = deliver_block(e.block)
      OBVIOUS
    <3>2. p \in Seq(KnownEvent) /\ Released(outstanding, p, out1)
      BY <1>1, <2>3, <3>1 DEF ParkedFor, deliver_block, Released
    <3>3. CASE missing(e.block) = {}
      <4>1. /\ queue' = Tail(queue) \o p /\ outstanding' = out1
            /\ handed' = IF Head(queue).op = "block" THEN handed ELSE Append(handed, Head(queue).id)
        BY <2>1, <2>6, <3>1, <3>3 DEF on_block, hand_over
      <4>2. OnceAt(i, Tail(queue) \o p, outstanding', handed', received)
        BY <1>1, <2>2, <3>2, <4>1, HandedOnce
      <4> QED BY <2>2, <4>1, <4>2
    <3>4. CASE missing(e.block) # {}
      <4>1. PICK H, h :
              /\ H = missing(e.block) /\ h \in H
              /\ add_fetch_request(out1, H, h, Append(p, Head(queue)), e.from)
        BY <2>1, <2>6, <3>1, <3>4 DEF on_block, missing, Preds
      <4>2. queue' = Tail(queue) /\ handed' = handed
        BY <2>6, <3>4 DEF on_block
      <4>3. outstanding' = With(out1, H, h, Append(p, Head(queue)))
        BY <4>1 DEF add_fetch_request, With
      <4>4. OnceAt(i, Tail(queue), With(out1, H, h, Append(p, Head(queue))), handed, received)
        BY <1>1, <2>2, <3>2, <4>1, ParkedOnce
      <4> QED BY <2>2, <4>2, <4>3, <4>4
    <3> QED BY <3>3, <3>4
  <2> QED BY <2>2, <2>4, <2>5, <2>6
<1>5. ASSUME \/ \E b \in Own : do_propose(b)
             \/ \E p \in Peer : \/ extract_reqs(p) \/ readd_request(p) \/ fetch(p)
                                \/ \E b \in Block : flush_from_memory(p, b)
             \/ UNCHANGED vars
      PROVE  UNCHANGED <<queue, outstanding, handed, received>>
    BY <1>5 DEF do_propose, extract_reqs, readd_request, fetch, flush_from_memory, vars
<1> QED BY <1>1, <1>2, <1>3, <1>4, <1>5 DEF Next, replica_step

\* A message that is nowhere is in no position; one that is in a place is in one.
LEMMA CountPlaces ==
    ASSUME NEW i, NEW s
    PROVE  /\ ~Has(i, s) => Times(i, s) = 0
           /\ Has(i, s) /\ Lone(i, s) => Times(i, s) = 1
<1>1. ASSUME ~Has(i, s) PROVE Times(i, s) = 0
  <2>1. {k \in DOMAIN s : s[k].id = i} = {}
    BY <1>1 DEF Has
  <2> QED BY <2>1, FS_EmptySet DEF Times
<1>2. ASSUME Has(i, s), Lone(i, s) PROVE Times(i, s) = 1
  <2>1. PICK k \in DOMAIN s : s[k].id = i
    BY <1>2 DEF Has
  <2>2. {l \in DOMAIN s : s[l].id = i} = {k}
    BY <1>2, <2>1 DEF Lone
  <2> QED BY <2>2, FS_Singleton DEF Times
<1> QED BY <1>1, <1>2

\* The same for the numbers of the messages handed to the core.
LEMMA CountHanded ==
    ASSUME NEW i, NEW n
    PROVE  /\ ~HasN(i, n) => Cardinality({k \in DOMAIN n : n[k] = i}) = 0
           /\ HasN(i, n) /\ LoneN(i, n) => Cardinality({k \in DOMAIN n : n[k] = i}) = 1
<1>1. ASSUME ~HasN(i, n) PROVE Cardinality({k \in DOMAIN n : n[k] = i}) = 0
  <2>1. {k \in DOMAIN n : n[k] = i} = {}
    BY <1>1 DEF HasN
  <2> QED BY <2>1, FS_EmptySet
<1>2. ASSUME HasN(i, n), LoneN(i, n) PROVE Cardinality({k \in DOMAIN n : n[k] = i}) = 1
  <2>1. PICK k \in DOMAIN n : n[k] = i
    BY <1>2 DEF HasN
  <2>2. {l \in DOMAIN n : n[l] = i} = {k}
    BY <1>2, <2>1 DEF LoneN
  <2> QED BY <2>2, FS_Singleton
<1> QED BY <1>1, <1>2

\* However often a message is parked, returned to the queue and parked again
\* (on_event, add_fetch_request, deliver_block), it is in exactly one place until
\* it is handed to the core, and it is handed over once.
THEOREM ConservedHolds == Spec => []Conserved
<1>1. Init => OnceInv
  <2> SUFFICES ASSUME Init, NEW i \in 1..MaxReceived
               PROVE  OnceAt(i, queue, outstanding, handed, received)
    BY DEF OnceInv
  <2>1. /\ DOMAIN queue = {} /\ DOMAIN handed = {} /\ DOMAIN outstanding = {}
        /\ received = 0 /\ ~(i <= 0)
    BY FetchAssumption DEF Init
  <2> QED BY <2>1 DEF OnceAt, Has, Lone, HasN, LoneN
<1>2. AskInv /\ OnceInv => Conserved
  <2> SUFFICES ASSUME AskInv, OnceInv, NEW i \in 1..received
               PROVE  \/ InQueueOrCore(i) = 1 /\ Waiting(i) = {}
                      \/ /\ InQueueOrCore(i) = 0
                         /\ \E h \in Waiting(i) : Waiting(i) = {h} /\ Times(i, outstanding[h]) = 1
    BY DEF Conserved
  <2>1. i \in 1..MaxReceived /\ i <= received
    BY FetchAssumption DEF AskInv
  <2>2. OnceAt(i, queue, outstanding, handed, received)
    BY <2>1 DEF OnceInv
  <2>3. /\ ~Has(i, queue) => Times(i, queue) = 0
        /\ Has(i, queue) => Times(i, queue) = 1
        /\ \A h \in DOMAIN outstanding : /\ ~Has(i, outstanding[h]) => Times(i, outstanding[h]) = 0
                                         /\ Has(i, outstanding[h]) => Times(i, outstanding[h]) = 1
    BY <2>2, CountPlaces DEF OnceAt
  <2>4. /\ ~HasN(i, handed) => Cardinality({k \in DOMAIN handed : handed[k] = i}) = 0
        /\ HasN(i, handed) => Cardinality({k \in DOMAIN handed : handed[k] = i}) = 1
    BY <2>2, CountHanded DEF OnceAt
  <2>5. Waiting(i) = {h \in DOMAIN outstanding : Has(i, outstanding[h])}
    BY <2>3 DEF Waiting
  <2>6. CASE Has(i, queue) \/ HasN(i, handed)
    <3>1. InQueueOrCore(i) = 1
      BY <2>2, <2>3, <2>4, <2>6 DEF InQueueOrCore, OnceAt
    <3>2. Waiting(i) = {}
      BY <2>2, <2>5, <2>6 DEF OnceAt
    <3> QED BY <3>1, <3>2
  <2>7. CASE ~Has(i, queue) /\ ~HasN(i, handed)
    <3>1. InQueueOrCore(i) = 0
      BY <2>3, <2>4, <2>7 DEF InQueueOrCore
    <3>2. PICK h \in DOMAIN outstanding : Has(i, outstanding[h])
      BY <2>1, <2>2, <2>7 DEF OnceAt
    <3>3. Waiting(i) = {h} /\ Times(i, outstanding[h]) = 1
      BY <2>2, <2>3, <2>5, <3>2 DEF OnceAt
    <3> QED BY <3>1, <3>3
  <2> QED BY <2>6, <2>7
<1>3. Spec => []AskInv
    BY AskInvariance
<1>4. AskInv /\ OnceInv /\ [Next]_vars => OnceInv'
    BY OnceStep
<1> QED BY <1>1, <1>2, <1>3, <1>4, PTL DEF Spec

-----------------------------------------------------------------------------
(* Arrivals through the clients *)

\* The part of ClientInv that speaks of one sender.
ClientInvOf(p) ==
    /\ Done(p) \in Nat
    /\ \A i \in DOMAIN todo[p] : todo[p][i].number = Done(p) + i
    /\ \A i \in DOMAIN work[p] : work[p][i].number = Done(p) + Len(todo[p]) + i
    /\ \A j \in DOMAIN arrived : arrived[j].from = p => arrived[j].number <= Done(p) + 1
    /\ \A k \in 1..Done(p) : \E j \in DOMAIN arrived : arrived[j] = [from |-> p, number |-> k]

ClientTypes ==
    /\ work \in [Sender -> Seq(Message)]
    /\ todo \in [Sender -> Seq(Message)]
    /\ open \in [Sender -> BOOLEAN]
    /\ sent \in [Sender -> Nat]
    /\ arrived \in Seq([from : Sender, number : Nat])

\* ClientInv, sender by sender.
LEMMA ClientInvMeans ==
    ClientInv <=> ClientTypes /\ (\A p \in Sender : ClientInvOf(p)) /\ InOrder
BY DEF ClientInv, ClientTypes, ClientInvOf

\* Steps that leave the lists and the history alone.
LEMMA Unmoved ==
    ASSUME ClientInv, UNCHANGED <<work, todo, sent, arrived>>, open' \in [Sender -> BOOLEAN]
    PROVE  ClientInv'
<1>1. ClientTypes /\ (\A q \in Sender : ClientInvOf(q)) /\ InOrder
    BY ClientInvMeans
<1>2. ClientTypes'
    BY <1>1 DEF ClientTypes
<1>3. ASSUME NEW q \in Sender PROVE ClientInvOf(q)'
  <2>1. Done(q)' = Done(q)
    BY DEF Done
  <2> QED BY <1>1, <2>1 DEF ClientInvOf
<1>4. InOrder'
    BY <1>1 DEF InOrder
<1> QED BY <1>2, <1>3, <1>4 DEF ClientInv, ClientTypes, ClientInvOf

\* Putting a message on the list (propose, vote) gives it the next number.
LEMMA SendStep ==
    ASSUME ClientInv, NEW p \in Sender, NEW m \in Payload, send(p, m)
    PROVE  ClientInv'
<1> DEFINE e == [says |-> m, number |-> sent[p] + 1]
<1>1. ClientTypes /\ (\A q \in Sender : ClientInvOf(q)) /\ InOrder
    BY ClientInvMeans
<1>2. /\ sent' = [sent EXCEPT ![p] = @ + 1]
      /\ work' = [work EXCEPT ![p] = Append(@, e)]
      /\ UNCHANGED <<todo, open, arrived>>
    BY DEF send
<1>3. e \in Message /\ e.number = sent[p] + 1
    BY <1>1 DEF Message, ClientTypes
<1> HIDE DEF e
<1>4. ClientTypes'
    BY <1>1, <1>2, <1>3 DEF ClientTypes
<1>5. ASSUME NEW q \in Sender PROVE ClientInvOf(q)'
  <2>1. CASE q # p
    BY <1>1, <1>2, <2>1 DEF ClientInvOf, Done, ClientTypes
  <2>2. CASE q = p
    <3>1. /\ work[p] \in Seq(Message) /\ work'[p] = Append(work[p], e)
          /\ todo'[p] = todo[p] /\ sent'[p] = sent[p] + 1 /\ sent[p] \in Nat
          /\ Len(todo[p]) \in Nat
      BY <1>1, <1>2 DEF ClientTypes
    <3>2. /\ Len(work'[p]) = Len(work[p]) + 1 /\ Len(work[p]) \in Nat
          /\ DOMAIN work'[p] = 1..Len(work[p]) + 1 /\ DOMAIN work[p] = 1..Len(work[p])
          /\ work'[p][Len(work[p]) + 1] = e
          /\ \A i \in 1..Len(work[p]) : work'[p][i] = work[p][i]
      BY <1>3, <3>1
    <3>3. Done(p)' = Done(p)
      BY <3>1, <3>2 DEF Done
    <3>4. \A i \in DOMAIN work'[p] : work'[p][i].number = Done(p) + Len(todo[p]) + i
      <4>1. \A i \in 1..Len(work[p]) : work[p][i].number = Done(p) + Len(todo[p]) + i
        BY <1>1, <3>2 DEF ClientInvOf
      <4>2. sent[p] + 1 = Done(p) + Len(todo[p]) + (Len(work[p]) + 1)
        BY <3>1, <3>2 DEF Done
      <4>3. \A i \in DOMAIN work'[p] : i \in 1..Len(work[p]) \/ i = Len(work[p]) + 1
        BY <3>2
      <4> QED BY <1>3, <3>2, <4>1, <4>2, <4>3
    <3> QED BY <1>1, <1>2, <2>2, <3>1, <3>3, <3>4 DEF ClientInvOf
  <2> QED BY <2>1, <2>2
<1>6. InOrder'
    BY <1>1, <1>2 DEF InOrder
<1> QED BY <1>4, <1>5, <1>6, ClientInvMeans DEF ClientInv, ClientTypes, ClientInvOf

\* The thread takes the list (run), or the connection changes.
LEMMA LocalStep ==
    ASSUME ClientInv, NEW p \in Sender,
           take_work(p) \/ open_connection(p) \/ call_failed(p)
    PROVE  ClientInv'
<1>1. ClientTypes /\ (\A q \in Sender : ClientInvOf(q)) /\ InOrder
    BY ClientInvMeans
<1>2. CASE take_work(p)
  <2>1. /\ todo' = [todo EXCEPT ![p] = work[p]] /\ work' = [work EXCEPT ![p] = << >>]
        /\ todo[p] = << >> /\ UNCHANGED <<open, sent, arrived>>
    BY <1>2 DEF take_work
  <2>2. << >> \in Seq(Message) /\ Len(<< >>) = 0 /\ DOMAIN << >> = {}
    OBVIOUS
  <2>3. ClientTypes'
    BY <1>1, <2>1, <2>2 DEF ClientTypes
  <2>4. ASSUME NEW q \in Sender PROVE ClientInvOf(q)'
    <3>1. CASE q # p
      BY <1>1, <2>1, <3>1 DEF ClientInvOf, Done, ClientTypes
    <3>2. CASE q = p
      <4>1. /\ todo'[p] = work[p] /\ work'[p] = << >> /\ sent'[p] = sent[p]
            /\ sent[p] \in Nat /\ work[p] \in Seq(Message)
        BY <1>1, <2>1 DEF ClientTypes
      <4>2. Done(p)' = Done(p) /\ Done(p) \in Nat
        BY <1>1, <2>1, <2>2, <4>1 DEF Done, ClientInvOf
      <4>3. \A i \in DOMAIN todo'[p] : todo'[p][i].number = Done(p) + i
        BY <1>1, <2>1, <2>2, <4>1, <4>2 DEF ClientInvOf
      <4> QED BY <1>1, <2>1, <2>2, <3>2, <4>1, <4>2, <4>3 DEF ClientInvOf
    <3> QED BY <3>1, <3>2
  <2>5. InOrder'
    BY <1>1, <2>1 DEF InOrder
  <2> QED BY <2>3, <2>4, <2>5 DEF ClientInv, ClientTypes, ClientInvOf
<1>3. CASE open_connection(p) \/ call_failed(p)
  <2>1. UNCHANGED <<work, todo, sent, arrived>> /\ open' \in [Sender -> BOOLEAN]
    BY <1>1, <1>3 DEF open_connection, call_failed, ClientTypes
  <2> QED BY <2>1, Unmoved
<1> QED BY <1>2, <1>3

\* What a call does to the history: the number that arrives is the next one, or
\* the one that arrived last.
LEMMA ArriveStep ==
    ASSUME ClientInv, NEW p \in Sender, arrive(p)
    PROVE  /\ arrived' \in Seq([from : Sender, number : Nat])
           /\ DOMAIN arrived' = 1..Len(arrived) + 1 /\ DOMAIN arrived = 1..Len(arrived)
           /\ \A j \in DOMAIN arrived : arrived'[j] = arrived[j]
           /\ arrived'[Len(arrived) + 1] = [from |-> p, number |-> Done(p) + 1]
           /\ Len(arrived) \in Nat
           /\ todo[p] # << >>
           /\ InOrder'
<1>1. ClientTypes /\ (\A q \in Sender : ClientInvOf(q)) /\ InOrder
    BY ClientInvMeans
<1>2. PICK n : n = Head(todo[p]).number
    OBVIOUS
<1>3. todo[p] # << >> /\ arrived' = Append(arrived, [from |-> p, number |-> n])
    BY <1>2 DEF arrive
<1>4. todo[p] \in Seq(Message) /\ 1 \in DOMAIN todo[p] /\ Head(todo[p]) = todo[p][1]
    BY <1>1, <1>3 DEF ClientTypes
<1>5. n = Done(p) + 1 /\ Done(p) \in Nat
    BY <1>1, <1>2, <1>4 DEF ClientInvOf
<1>6. PICK a : a = [from |-> p, number |-> n]
    OBVIOUS
<1>7. a \in [from : Sender, number : Nat] /\ a.from = p /\ a.number = n
    BY <1>5, <1>6
<1>8. arrived \in Seq([from : Sender, number : Nat]) /\ arrived' = Append(arrived, a)
    BY <1>1, <1>3, <1>6 DEF ClientTypes
<1>9. /\ arrived' \in Seq([from : Sender, number : Nat])
      /\ Len(arrived') = Len(arrived) + 1 /\ Len(arrived) \in Nat
      /\ DOMAIN arrived' = 1..Len(arrived) + 1 /\ DOMAIN arrived = 1..Len(arrived)
      /\ \A j \in DOMAIN arrived : arrived'[j] = arrived[j]
      /\ arrived'[Len(arrived) + 1] = a
    BY <1>7, <1>8
<1>10. InOrder'
  <2>1. ASSUME NEW i \in DOMAIN arrived, NEW k \in 1..arrived[i].number - 1
        PROVE  \E j \in 1..i - 1 : arrived'[j] = [from |-> arrived[i].from, number |-> k]
    <3>1. PICK j \in 1..i - 1 : arrived[j] = [from |-> arrived[i].from, number |-> k]
      BY <1>1 DEF InOrder
    <3>2. j \in DOMAIN arrived
      BY <1>9
    <3> QED BY <1>9, <3>1, <3>2
  <2>2. ASSUME NEW k \in 1..n - 1
        PROVE  \E j \in 1..Len(arrived) : arrived'[j] = [from |-> p, number |-> k]
    BY <1>1, <1>5, <1>9 DEF ClientInvOf
  <2>3. ASSUME NEW i \in DOMAIN arrived, NEW j \in i..Len(arrived) + 1,
               arrived'[j].from = arrived[i].from
        PROVE  arrived[i].number <= arrived'[j].number
    <3>1. CASE j \in i..Len(arrived)
      BY <1>1, <1>9, <2>3, <3>1 DEF InOrder
    <3>2. CASE j = Len(arrived) + 1
      BY <1>1, <1>5, <1>7, <1>9, <2>3, <3>2 DEF ClientInvOf
    <3> QED BY <1>9, <3>1, <3>2
  <2>4. \A i \in DOMAIN arrived' :
            (i \in DOMAIN arrived /\ arrived'[i] = arrived[i]) \/ i = Len(arrived) + 1
    BY <1>9
  <2>5. ASSUME NEW i \in DOMAIN arrived'
        PROVE  \A k \in 1..arrived'[i].number - 1 :
                   \E j \in 1..i - 1 : arrived'[j] = [from |-> arrived'[i].from, number |-> k]
    <3>1. CASE i \in DOMAIN arrived /\ arrived'[i] = arrived[i]
      BY <2>1, <3>1
    <3>2. CASE i = Len(arrived) + 1
      <4>1. i - 1 = Len(arrived) /\ arrived'[i].number = n /\ arrived'[i].from = p
        BY <1>7, <1>9, <3>2
      <4> QED BY <2>2, <4>1
    <3> QED BY <2>4, <3>1, <3>2
  <2>6. ASSUME NEW i \in DOMAIN arrived', NEW j \in i..Len(arrived'),
               arrived'[j].from = arrived'[i].from
        PROVE  arrived'[i].number <= arrived'[j].number
    <3>1. CASE i \in DOMAIN arrived /\ arrived'[i] = arrived[i]
      BY <1>9, <2>3, <2>6, <3>1
    <3>2. CASE i = Len(arrived) + 1
      <4>1. j = i /\ arrived'[i].number \in Nat
        BY <1>5, <1>7, <1>9, <3>2
      <4> QED BY <4>1
    <3> QED BY <2>4, <3>1, <3>2
  <2> QED BY <2>5, <2>6 DEF InOrder
<1> QED BY <1>3, <1>5, <1>6, <1>9, <1>10

\* A call is handled; its message stays first unless the call returns (do_work).
LEMMA CallStep ==
    ASSUME ClientInv, NEW p \in Sender, call(p) \/ call_unanswered(p)
    PROVE  ClientInv'
<1>1. ClientTypes /\ (\A q \in Sender : ClientInvOf(q)) /\ InOrder
    BY ClientInvMeans
<1>2. arrive(p)
    BY DEF call, call_unanswered
<1>3. /\ arrived' \in Seq([from : Sender, number : Nat])
      /\ DOMAIN arrived' = 1..Len(arrived) + 1 /\ DOMAIN arrived = 1..Len(arrived)
      /\ \A j \in DOMAIN arrived : arrived'[j] = arrived[j]
      /\ arrived'[Len(arrived) + 1] = [from |-> p, number |-> Done(p) + 1]
      /\ Len(arrived) \in Nat
      /\ todo[p] # << >>
      /\ InOrder'
    BY <1>2, ArriveStep
<1>4. work' = work /\ sent' = sent /\ open' \in [Sender -> BOOLEAN]
    BY <1>1 DEF call, call_unanswered, ClientTypes
<1>5. ASSUME NEW q \in Sender, NEW d \in Nat, d >= Done(q), q = p => d <= Done(p) + 1
      PROVE  /\ \A j \in DOMAIN arrived' : arrived'[j].from = q => arrived'[j].number <= d + 1
             /\ q # p => \A k \in 1..Done(q) : \E j \in DOMAIN arrived' :
                             arrived'[j] = [from |-> q, number |-> k]
             /\ q = p => \A k \in 1..Done(q) + 1 : \E j \in DOMAIN arrived' :
                             arrived'[j] = [from |-> q, number |-> k]
  <2>1. Done(q) \in Nat /\ Done(p) \in Nat
    BY <1>1 DEF ClientInvOf
  <2>2. ASSUME NEW j \in DOMAIN arrived', arrived'[j].from = q
        PROVE  arrived'[j].number <= d + 1
    <3>1. CASE j \in DOMAIN arrived
      <4>1. arrived'[j] = arrived[j] /\ arrived[j].number \in Nat
        <5>1. arrived[j] \in [from : Sender, number : Nat]
          <6>1. PICK Call : Call = [from : Sender, number : Nat]
            OBVIOUS
          <6>2. arrived \in Seq(Call)
            BY <1>1, <6>1 DEF ClientTypes
          <6>3. arrived[j] \in Call
            BY <3>1, <6>2
          <6> QED BY <6>1, <6>3
        <5> QED BY <1>3, <3>1, <5>1
      <4>2. arrived[j].number <= Done(q) + 1
        BY <1>1, <2>2, <3>1, <4>1 DEF ClientInvOf
      <4> QED BY <1>5, <2>1, <4>1, <4>2
    <3>2. CASE j = Len(arrived) + 1
      BY <1>3, <1>5, <2>1, <2>2, <3>2
    <3> QED BY <1>3, <3>1, <3>2
  <2>3. \A k \in 1..Done(q) : \E j \in DOMAIN arrived' : arrived'[j] = [from |-> q, number |-> k]
    BY <1>1, <1>3 DEF ClientInvOf
  <2>4. \A k \in 1..Done(q) + 1 : k \in 1..Done(q) \/ k = Done(q) + 1
    BY <2>1
  <2>5. Len(arrived) + 1 \in DOMAIN arrived'
    BY <1>3
  <2> QED BY <1>3, <2>2, <2>3, <2>4, <2>5
<1>6. CASE call(p)
  <2>1. todo' = [todo EXCEPT ![p] = Tail(@)]
    BY <1>6 DEF call
  <2>2. ClientTypes'
    BY <1>1, <1>3, <1>4, <2>1 DEF ClientTypes
  <2>3. ASSUME NEW q \in Sender PROVE ClientInvOf(q)'
    <3>1. CASE q # p
      <4>1. todo'[q] = todo[q] /\ Done(q)' = Done(q) /\ Done(q) \in Nat
        BY <1>1, <1>4, <2>1, <3>1 DEF Done, ClientInvOf, ClientTypes
      <4> QED BY <1>1, <1>4, <1>5, <3>1, <4>1 DEF ClientInvOf
    <3>2. CASE q = p
      <4>1. todo[p] \in Seq(Message) /\ todo'[p] = Tail(todo[p]) /\ work'[p] = work[p]
        BY <1>1, <1>4, <2>1 DEF ClientTypes
      <4>2. /\ Len(todo'[p]) = Len(todo[p]) - 1 /\ Len(todo[p]) \in Nat
            /\ DOMAIN todo'[p] = 1..Len(todo[p]) - 1 /\ DOMAIN todo[p] = 1..Len(todo[p])
            /\ \A i \in 1..Len(todo[p]) - 1 : todo'[p][i] = todo[p][i + 1]
        BY <1>3, <4>1
      <4>3. sent[p] \in Nat /\ Len(work[p]) \in Nat /\ DOMAIN work[p] = 1..Len(work[p])
        BY <1>1 DEF ClientTypes
      <4>4. Done(p)' = Done(p) + 1 /\ Done(p) \in Nat
        <5>1. Done(p) \in Nat
          BY <1>1 DEF ClientInvOf
        <5> QED BY <1>4, <4>1, <4>2, <4>3, <5>1 DEF Done
      <4>5. \A i \in DOMAIN todo'[p] : todo'[p][i].number = Done(p) + 1 + i
        <5>1. \A i \in 1..Len(todo[p]) : todo[p][i].number = Done(p) + i
          BY <1>1, <4>2 DEF ClientInvOf
        <5> QED BY <4>2, <4>4, <5>1
      <4>6. \A i \in DOMAIN work[p] : work[p][i].number = Done(p) + 1 + Len(todo'[p]) + i
        <5>1. \A i \in 1..Len(work[p]) : work[p][i].number = Done(p) + Len(todo[p]) + i
          BY <1>1, <4>3 DEF ClientInvOf
        <5> QED BY <4>2, <4>3, <4>4, <5>1
      <4>7. /\ \A j \in DOMAIN arrived' :
                   arrived'[j].from = p => arrived'[j].number <= Done(p) + 1 + 1
            /\ \A k \in 1..Done(p) + 1 : \E j \in DOMAIN arrived' :
                   arrived'[j] = [from |-> p, number |-> k]
        BY <1>5, <4>4
      <4> QED BY <3>2, <4>1, <4>4, <4>5, <4>6, <4>7 DEF ClientInvOf
    <3> QED BY <3>1, <3>2
  <2> QED BY <1>3, <2>2, <2>3 DEF ClientInv, ClientTypes, ClientInvOf
<1>7. CASE call_unanswered(p)
  <2>1. todo' = todo
    BY <1>7 DEF call_unanswered
  <2>2. ClientTypes'
    BY <1>1, <1>3, <1>4, <2>1 DEF ClientTypes
  <2>3. ASSUME NEW q \in Sender PROVE ClientInvOf(q)'
    <3>1. Done(q)' = Done(q) /\ Done(q) \in Nat
      BY <1>1, <1>4, <2>1 DEF Done, ClientInvOf
    <3>2. /\ \A j \in DOMAIN arrived' : arrived'[j].from = q => arrived'[j].number <= Done(q) + 1
          /\ \A k \in 1..Done(q) : \E j \in DOMAIN arrived' :
                 arrived'[j] = [from |-> q, number |-> k]
      BY <1>5, <3>1
    <3> QED BY <1>1, <1>4, <2>1, <3>1, <3>2 DEF ClientInvOf
  <2> QED BY <1>3, <2>2, <2>3 DEF ClientInv, ClientTypes, ClientInvOf
<1> QED BY <1>6, <1>7

\* The inductive invariant holds for any number of replicas, messages and lost
\* answers.
THEOREM ClientInvariance == DeliverySpec => []ClientInv
<1>1. DeliveryInit => ClientInv
    BY DEF DeliveryInit, ClientInit, ClientInv, Done, InOrder
<1>2. ClientInv /\ [DeliveryNext]_delivery_vars => ClientInv'
  <2> SUFFICES ASSUME ClientInv, [DeliveryNext]_delivery_vars PROVE ClientInv'
    OBVIOUS
  <2>1. CASE UNCHANGED client_vars
    BY <2>1, Unmoved DEF client_vars, ClientInv
  <2>2. ASSUME NEW p \in Peer, NEW m \in Payload, send_message(p, m) PROVE ClientInv'
    BY <2>2, SendStep, DeliveryAssumption DEF send_message
  <2>3. ASSUME NEW p \in Peer, client_step(p) PROVE ClientInv'
    BY <2>3, LocalStep, DeliveryAssumption DEF client_step
  <2>4. ASSUME NEW p \in Peer, call(p) \/ call_unanswered(p) PROVE ClientInv'
    BY <2>4, CallStep, DeliveryAssumption
  <2> QED BY <2>1, <2>2, <2>3, <2>4 DEF DeliveryNext, delivery_vars
<1> QED BY <1>1, <1>2, PTL DEF DeliverySpec

\* The messages of a replica arrive in order and without gaps, repeated calls
\* included (do_work).
THEOREM InOrderHolds == DeliverySpec => []InOrder
<1>1. ClientInv => InOrder
    BY DEF ClientInv
<1> QED BY <1>1, ClientInvariance, PTL

\* Clients that lose connections and repeat calls are a source of messages as
\* BlockFetch assumes it: every arrival is one of its receive steps.
THEOREM DeliveryImplementsFetch == DeliverySpec => Spec
<1>1. DeliveryInit => Init
    BY DEF DeliveryInit
<1>2. ClientInv /\ [DeliveryNext]_delivery_vars => [Next]_vars
  <2> SUFFICES ASSUME ClientInv, [DeliveryNext]_delivery_vars PROVE [Next]_vars
    OBVIOUS
  <2>1. CASE UNCHANGED vars
    BY <2>1
  <2>2. CASE replica_step
    BY <2>2 DEF Next
  <2>3. ASSUME NEW p \in Peer, handle_call(p) PROVE Next
    <3>1. PICK m : m = Head(todo[p]).says /\ receive(m.op, m.block, p)
      BY <2>3 DEF handle_call
    <3>2. todo[p] \in Seq(Message) /\ todo[p] # << >>
      BY <2>3, DeliveryAssumption DEF handle_call, ClientInv
    <3>3. m \in [op : {"proposal", "vote"}, block : Block]
      <4>1. Head(todo[p]) \in Message
        BY <3>2
      <4>2. Head(todo[p]).says \in Payload
        BY <4>1 DEF Message
      <4> QED BY <3>1, <4>2, DeliveryAssumption
    <3> QED BY <3>1, <3>3 DEF Next
  <2> QED BY <2>1, <2>2, <2>3 DEF DeliveryNext, delivery_vars, send_message, client_step
<1> QED BY <1>1, <1>2, ClientInvariance, PTL DEF DeliverySpec, Spec

=============================================================================
