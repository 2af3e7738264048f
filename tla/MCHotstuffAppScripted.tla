----------------------- MODULE MCHotstuffAppScripted ------------------------
(***************************************************************************)
(* HotstuffApp for TLC, started deep: r2 has led several rounds, of which  *)
(* the first three give empty blocks and the others any VM block or none;  *)
(* both replicas have voted and r1 has passed its first decided blocks on  *)
(* to its VM.  Either r2 has gathered every certificate (Prompt), and r1   *)
(* decides block by block, or r2 has proposed block 5 without waiting for  *)
(* the certificate of block 4 (Eager), and r1 decides blocks 2 to 5 at     *)
(* once.  After the script every interleaving is explored.                 *)
(***************************************************************************)
EXTENDS MCHotstuffApp

CONSTANTS r1, r2, Scripts
VARIABLES script, step

Propose == [op |-> "propose"]
Insert(h) == [op |-> "insert", h |-> h]
Receive(r, h) == [op |-> "receive", r |-> r, h |-> h]
Certify(h) == [op |-> "certify", h |-> h]
Led(h) == <<Propose, Insert(h), Receive(r2, h), Receive(r1, h), Certify(h)>>
Pass == [op |-> "pass"]
Decided == <<Pass, Pass, Pass, Pass, Pass, Pass>>
Prompt == Led(1) \o Led(2) \o Led(3) \o Led(4) \o Decided \o Led(5) \o Decided \o Led(6)
Eager == Led(1) \o Led(2) \o Led(3) \o <<Propose, Insert(4), Receive(r2, 4), Receive(r1, 4)>>
    \o Decided \o Led(5) \o Led(6) \o Led(7)
FollowerScripts == {Prompt, Eager}

At(h, m) == Height(m.block) = h
Scripted(a) ==
    CASE a.op = "insert" -> \E m \in proposals : At(a.h, m) /\ network_event(m)
      [] a.op = "receive" /\ a.r = self ->
             \E m \in proposals : At(a.h, m) /\ handle_proposal(m) /\ UNCHANGED events
      [] a.op = "propose" -> peer(r2) /\ tree' # tree
      [] a.op = "receive" /\ a.r # self ->
             \E m \in proposals : At(a.h, m) /\ on_receive_proposal(r2, m) /\ peer(r2)
      [] a.op = "pass" -> apply_next \/ pass_on \/ passed_on \/ vm_thread
      [] a.op = "certify" -> peer(r2) /\ hqc' # hqc /\ Height(hqc'[r2]) = a.h

MCInit == AppInit /\ script \in Scripts /\ step = 0
MCNext ==
    \/ /\ step < Len(script)
       /\ Scripted(script[step + 1])
       /\ step' = step + 1
       /\ UNCHANGED script
    \/ /\ step = Len(script)
       /\ AppNext
       /\ UNCHANGED <<script, step>>
MCSpec == MCInit /\ [][MCNext]_<<all_vars, script, step>>
=============================================================================
