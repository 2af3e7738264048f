---------------------------- MODULE MCBlockFetch ----------------------------
(***************************************************************************)
(* An instance of Delivery for TLC: a chain 1, 2, 3 whose last block       *)
(* certifies the first one, and a competing block 4 on block 1.            *)
(***************************************************************************)
EXTENDS Delivery

CONSTANTS p1, p2

MCBlock == 1..4
MCParent == <<0, 1, 2, 1>>
MCJustify == <<0, 1, 1, 0>>
MCPayload ==
    {[op |-> "proposal", block |-> 3], [op |-> "proposal", block |-> 4],
     [op |-> "vote", block |-> 2]}
MCBudgets ==
    {[sent |-> [p \in Peer |-> 1], lost |-> 0],
     [sent |-> [p \in Peer |-> IF p = p2 THEN 2 ELSE 0], lost |-> 1]}
MCKnows == [p \in Peer |-> IF p = p1 THEN {1, 2, 3} ELSE {1, 2, 4}]
=============================================================================
