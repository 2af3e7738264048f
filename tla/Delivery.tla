------------------------------ MODULE Delivery ------------------------------
(***************************************************************************)
(* The way of a message from a peer's HotstuffProtocolClient through the   *)
(* server of this replica into its NetworkEventQueue: ProtocolClient and   *)
(* BlockFetch put together.                                                *)
(***************************************************************************)
EXTENDS BlockFetch, ProtocolClient

ASSUME DeliveryAssumption ==
    /\ Sender = Peer
    /\ Payload \subseteq [op : {"proposal", "vote"}, block : Block]

delivery_vars == <<vars, client_vars>>

DeliveryInit == Init /\ ClientInit

\* p proposes or forwards a block it knows, or votes for one minted here, now or
\* before a restart.
send_message(p, m) ==
    /\ m.block \in Knows[p]
    /\ m.op = "vote" => m.block \in Own
    /\ send(p, m)
    /\ UNCHANGED vars

client_step(p) ==
    /\ take_work(p) \/ open_connection(p) \/ call_failed(p)
    /\ UNCHANGED vars

\* HotstuffProtocolHandler: the call is handled, the event queued.
handle_call(p) ==
    /\ todo[p] # << >>
    /\ LET m == Head(todo[p]).says IN receive(m.op, m.block, p)

DeliveryNext ==
    \/ \E p \in Peer :
          \/ \E m \in Payload : send_message(p, m)
          \/ client_step(p)
          \/ handle_call(p) /\ call(p)
          \/ handle_call(p) /\ call_unanswered(p)
    \/ replica_step /\ UNCHANGED client_vars

DeliverySpec == DeliveryInit /\ [][DeliveryNext]_delivery_vars

\* A call that is made again and again returns at some point.
DeliveryFairness ==
    /\ WF_delivery_vars(on_event /\ UNCHANGED client_vars)
    /\ \A p \in Peer :
          /\ WF_delivery_vars((extract_reqs(p) \/ post(p)) /\ UNCHANGED client_vars)
          /\ SF_delivery_vars(fetch(p) /\ UNCHANGED client_vars)
          /\ WF_delivery_vars((take_work(p) \/ open_connection(p)) /\ UNCHANGED vars)
          /\ SF_delivery_vars(handle_call(p) /\ call(p))

FairDeliverySpec == DeliverySpec /\ DeliveryFairness

-----------------------------------------------------------------------------
(* Properties *)

\* Every message a peer sends is handed to the core in the end, although calls
\* and answers get lost and blocks arrive out of order, unless some peer has
\* flushed a block by then.
AllHanded == \A p \in Peer : \A k \in UNION {1..c.sent[p] : c \in Budgets} :
    sent[p] >= k ~> \/ \E i \in DOMAIN handed : arrived[handed[i]] = [from |-> p, number |-> k]
                    \/ \E q \in Peer : flushed[q] # {}
=============================================================================
