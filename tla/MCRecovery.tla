----------------------------- MODULE MCRecovery -----------------------------
(***************************************************************************)
(* Instances of Recovery for TLC.  Block 3 certifies block 1, not its      *)
(* parent, so that the first commit takes three blocks at once.            *)
(***************************************************************************)
EXTENDS Recovery

MCJustify == <<0, 1, 1, 3, 4, 5, 6>>
Speculative == [bridge |-> "speculative", vm |-> "ignores empty"]
Nonspeculative == [bridge |-> "nonspeculative", vm |-> "ignores empty"]
Counting == [bridge |-> "speculative", vm |-> "CountingVM"]
TolerantSetups == {Speculative, Nonspeculative}
CountingSetup == {Counting}
=============================================================================
