----------------------- MODULE MCHotstuffCoreScripted -----------------------
(***************************************************************************)
(* HotstuffCore for TLC, started deep: every behaviour begins with the     *)
(* script of one of the Scenarios and continues with every interleaving    *)
(* the scenario's bounds allow.  In the free part each replica proposes    *)
(* one body: its own, so that proposals of different replicas are          *)
(* different blocks, or, from genesis, one they share.                     *)
(***************************************************************************)
EXTENDS MCHotstuffCore, Sequences

CONSTANTS r1, r2, r3, r4, Scenarios
VARIABLES scenario, step

Propose(r, x) == [op |-> "propose", r |-> r, x |-> x]
Receive(r, p, h) == [op |-> "receive", r |-> r, p |-> p, h |-> h]
Certify(r, h) == [op |-> "certify", r |-> r, h |-> h]
Restart(r) == [op |-> "restart", r |-> r]

\* One round in which leader p gathers a certificate for its block at height h
\* from itself and one or two followers, and a proposal without a certificate.
Led(p, q, x, h) ==
    <<Propose(p, x), Receive(p, p, h), Receive(q, p, h), Certify(p, h)>>
LedThree(p, q, s, x, h) ==
    <<Propose(p, x), Receive(p, p, h), Receive(q, p, h), Receive(s, p, h), Certify(p, h)>>
Alone(p, x, h) == <<Propose(p, x), Receive(p, p, h)>>

\* A partition of three replicas: r1 leads r3 through three certified blocks,
\* and r2, cut off, proposes three blocks of its own.
LockScript ==
    Led(r1, r3, 0, 1) \o Led(r1, r3, 0, 2) \o Led(r1, r3, 0, 3)
    \o Alone(r2, 1, 1) \o Alone(r2, 1, 2) \o Alone(r2, 1, 3)

\* The same partition, healed one block earlier: nobody is locked yet.
CommitScript ==
    Led(r1, r3, 0, 1) \o Led(r1, r3, 0, 2)
    \o Alone(r2, 1, 1) \o Alone(r2, 1, 2) \o Alone(r2, 1, 3)

\* Four replicas: r1 leads r3 and r4 through four certified blocks, so all three
\* have decided the first one; r2 saw the second one and then, cut off, extended
\* the first by two blocks of its own.
RestartScript ==
    LedThree(r1, r3, r4, 0, 1) \o LedThree(r1, r3, r4, 0, 2)
    \o LedThree(r1, r3, r4, 0, 3) \o LedThree(r1, r3, r4, 0, 4)
    \o <<Receive(r2, r1, 2)>> \o Alone(r2, 1, 2) \o Alone(r2, 1, 3)

\* Three replicas: r1 decides the first two blocks with r3's help; r3, which
\* decided only the first, restarts and certifies r2's third block.
SplitScript ==
    Led(r1, r3, 0, 1) \o Led(r1, r3, 0, 2) \o Led(r1, r3, 0, 3) \o Led(r1, r3, 0, 4)
    \o Alone(r1, 0, 5)
    \o <<Receive(r2, r1, 2)>> \o Alone(r2, 1, 2) \o Alone(r2, 1, 3)
    \o <<Restart(r3), Receive(r3, r2, 3), Certify(r2, 3)>> \o Led(r2, r3, 1, 4)

Shared == [r \in Replica |-> 0]
Distinct == [r \in Replica |-> IF r = r2 THEN 1 ELSE 0]
Scenario(script, body, height, blocks) ==
    [script |-> script, body |-> body, height |-> height, blocks |-> blocks]
CommitScenarios ==
    {Scenario(<< >>, Shared, 3, 4),
     Scenario(LockScript, Distinct, 7, 10),
     Scenario(CommitScript, Distinct, 7, 9)}
RestartScenarios == {Scenario(RestartScript, Distinct, 7, 9)}
SplitScenarios == {Scenario(SplitScript, Distinct, 7, 11)}

Scripted(a) ==
    CASE a.op = "propose" -> do_propose(a.r, a.x)
      [] a.op = "receive" -> \E m \in proposals :
             m.proposer = a.p /\ Height(m.block) = a.h /\ on_receive_proposal(a.r, m)
      [] a.op = "certify" -> \E b \in Blocks : Height(b) = a.h /\ on_receive_vote(a.r, b)
      [] a.op = "restart" -> reload_state_from_index(a.r)

MCInit == Init /\ step = 0 /\ scenario \in Scenarios
MCNext ==
    \/ /\ step < Len(scenario.script)
       /\ Scripted(scenario.script[step + 1])
       /\ step' = step + 1
       /\ UNCHANGED scenario
    \/ /\ step = Len(scenario.script)
       /\ \E r \in Replica :
             \/ /\ Height(b_leaf[r]) < scenario.height
                /\ do_propose(r, scenario.body[r])
                /\ Cardinality(Blocks') <= scenario.blocks
             \/ \E m \in proposals : on_receive_proposal(r, m)
             \/ \E b \in Blocks : on_receive_vote(r, b)
             \/ reload_state_from_index(r)
       /\ UNCHANGED <<scenario, step>>
MCSpec == MCInit /\ [][MCNext]_<<vars, scenario, step>>
=============================================================================
