--------------------------- MODULE MCHotstuffApp ----------------------------
(***************************************************************************)
(* Instances of HotstuffApp for TLC.                                       *)
(***************************************************************************)
EXTENDS HotstuffApp

\* A hash is the path from genesis, one step per block: the height of the
\* certified block, which is always an ancestor of the parent, and the body.
MCGenesis == << >>
MCHash(p, j, x) == Append(p, <<Len(j), x>>)
=============================================================================
