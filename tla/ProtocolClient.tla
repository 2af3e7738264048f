--------------------------- MODULE ProtocolClient ---------------------------
(***************************************************************************)
(* How the messages of other replicas get to this one: each of them has a  *)
(* HotstuffProtocolClient for it, whose thread takes messages from a work  *)
(* list and calls the server until the call returns, opening the           *)
(* connection again whenever it broke (NonblockingRpcClient).  A call      *)
(* whose answer got lost is made again, though the server has the message. *)
(***************************************************************************)
EXTENDS Integers, Sequences

CONSTANTS
    Sender,          \* the replicas that send to this one
    Payload,         \* what a message says
    Budgets          \* bound: how many messages may be sent, and answers lost

ASSUME ClientAssumption == Budgets \subseteq [sent : [Sender -> Nat], lost : Nat]

VARIABLES
    work,            \* [Sender -> messages put on the list]
    todo,            \* [Sender -> messages do_work has yet to get through]
    open,            \* [Sender -> client # nullptr]
    sent,            \* [Sender -> number of messages so far]
    lost,            \* number of answers lost
    arrived,         \* the calls the server has handled, in order
    budget           \* the bound this behaviour keeps to

client_vars == <<work, todo, open, sent, lost, arrived, budget>>

ClientInit ==
    /\ work = [p \in Sender |-> << >>]
    /\ todo = [p \in Sender |-> << >>]
    /\ open = [p \in Sender |-> FALSE]
    /\ sent = [p \in Sender |-> 0]
    /\ lost = 0
    /\ arrived = << >>
    /\ budget \in Budgets

\* propose, vote: the next message for p's thread.
send(p, m) ==
    /\ sent[p] < budget.sent[p]
    /\ sent' = [sent EXCEPT ![p] = @ + 1]
    /\ work' = [work EXCEPT ![p] = Append(@, [says |-> m, number |-> sent[p] + 1])]
    /\ UNCHANGED <<todo, open, lost, arrived, budget>>

\* mutant: the list is handed to do_work and not cleared.
take_work_keep(p) ==
    /\ todo[p] = << >> /\ work[p] # << >>
    /\ todo' = [todo EXCEPT ![p] = work[p]]
    /\ UNCHANGED <<work, open, sent, lost, arrived, budget>>

\* run: do_work is through with the last list.
take_work(p) ==
    /\ todo[p] = << >> /\ work[p] # << >>
    /\ todo' = [todo EXCEPT ![p] = work[p]]
    /\ work' = [work EXCEPT ![p] = << >>]
    /\ UNCHANGED <<open, sent, lost, arrived, budget>>

\* wait_for_try_open_connection, at the attempt that works.
open_connection(p) ==
    /\ todo[p] # << >> /\ ~open[p]
    /\ open' = [open EXCEPT ![p] = TRUE]
    /\ UNCHANGED <<work, todo, sent, lost, arrived, budget>>

\* The server has the call, and its handler runs.
arrive(p) ==
    /\ todo[p] # << >> /\ open[p]
    /\ arrived' = Append(arrived, [from |-> p, number |-> Head(todo[p]).number])

\* try_action_void: the call returns.
call(p) ==
    /\ arrive(p)
    /\ todo' = [todo EXCEPT ![p] = Tail(@)]
    /\ UNCHANGED <<work, open, sent, lost, budget>>

\* mutant: the message of a failed call goes back to the end of the list.
call_unanswered_requeue(p) ==
    /\ arrive(p)
    /\ lost < budget.lost
    /\ lost' = lost + 1
    /\ open' = [open EXCEPT ![p] = FALSE]
    /\ todo' = [todo EXCEPT ![p] = Append(Tail(@), Head(@))]
    /\ UNCHANGED <<work, sent, budget>>

\* try_action_void: the connection breaks before the call returns; the message
\* stays first.
call_unanswered(p) ==
    /\ arrive(p)
    /\ lost < budget.lost
    /\ lost' = lost + 1
    /\ open' = [open EXCEPT ![p] = FALSE]
    /\ UNCHANGED <<work, todo, sent, budget>>

\* try_action_void: the call does not get to the server.
call_failed(p) ==
    /\ todo[p] # << >> /\ open[p]
    /\ open' = [open EXCEPT ![p] = FALSE]
    /\ UNCHANGED <<work, todo, sent, lost, arrived, budget>>

-----------------------------------------------------------------------------
(* Properties *)

\* Messages of a replica arrive in the order it sent them, none is skipped, and
\* one is repeated only before the next has come: do_work stays with a message
\* until its call returns, whatever was put on the list meanwhile.
InOrder ==
    \A i \in DOMAIN arrived :
        /\ \A k \in 1..arrived[i].number - 1 :
              \E j \in 1..i - 1 : arrived[j] = [from |-> arrived[i].from, number |-> k]
        /\ \A j \in i..Len(arrived) :
              arrived[j].from = arrived[i].from => arrived[i].number <= arrived[j].number

\* The inductive invariant behind InOrder: what do_work is not through with is
\* the end of what was sent, and of it at most the first message has arrived.
Message == [says : Payload, number : Nat]
Done(p) == sent[p] - Len(work[p]) - Len(todo[p])
ClientInv ==
    /\ work \in [Sender -> Seq(Message)]
    /\ todo \in [Sender -> Seq(Message)]
    /\ open \in [Sender -> BOOLEAN]
    /\ sent \in [Sender -> Nat]
    /\ arrived \in Seq([from : Sender, number : Nat])
    /\ \A p \in Sender :
          /\ Done(p) \in Nat
          /\ \A i \in DOMAIN todo[p] : todo[p][i].number = Done(p) + i
          /\ \A i \in DOMAIN work[p] : work[p][i].number = Done(p) + Len(todo[p]) + i
          /\ \A j \in DOMAIN arrived : arrived[j].from = p => arrived[j].number <= Done(p) + 1
          /\ \A k \in 1..Done(p) : \E j \in DOMAIN arrived : arrived[j] = [from |-> p, number |-> k]
    /\ InOrder
=============================================================================
