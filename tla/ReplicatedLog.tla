--------------------------- MODULE ReplicatedLog ----------------------------
(***************************************************************************)
(* What consensus promises the replicated state machines: every replica    *)
(* has a log of decided blocks that only ever grows at its end, and of any *)
(* two logs one is a prefix of the other.  A log maps 1..n to blocks.      *)
(***************************************************************************)
EXTENDS Naturals

CONSTANT Replica
VARIABLE log          \* [Replica -> log]

IsPrefix(s, t) ==
    /\ DOMAIN s \subseteq DOMAIN t
    /\ \A i \in DOMAIN s : s[i] = t[i]

Init == log = [r \in Replica |-> [i \in {} |-> 0]]

\* One replica extends its log by one or more blocks, and stays comparable
\* with every other replica.
Extend(r) ==
    /\ \A q \in Replica \ {r} : log'[q] = log[q]
    /\ DOMAIN log' = Replica
    /\ IsPrefix(log[r], log'[r])
    /\ \A q \in Replica : IsPrefix(log[q], log'[r]) \/ IsPrefix(log'[r], log[q])

Next == \E r \in Replica : Extend(r)

Spec == Init /\ [][Next]_log
=============================================================================
