--------------------------- MODULE MCHotstuffCore ---------------------------
(***************************************************************************)
(* Instances of HotstuffCore for TLC.                                      *)
(***************************************************************************)
EXTENDS HotstuffCore

\* Hashes are numbers: the digits of a block's hash in base HashBase are the
\* steps of its path from genesis, one digit for the height of the certified
\* block and the body.  The certified block is always an ancestor of the
\* parent, so equal digits mean equal headers.
HashBase == 16
HashHeight(b) ==
    CHOOSE h \in 0..MaxHeight : HashBase^h > b /\ (h = 0 \/ HashBase^(h - 1) <= b)
MCHash(p, j, x) == p * HashBase + HashHeight(j) * Cardinality(Body) + x + 1
=============================================================================
