----------------------------- MODULE TicketGate -----------------------------
(***************************************************************************)
(* What the assistant promises of its one side effect, without sessions,   *)
(* states, attempts or retries: a ticket is issued for a task only after   *)
(* that task's single decision approved it, there is one ticket for each   *)
(* wanted text, tickets are numbered without gaps, and a task's receipt    *)
(* names the ticket it wanted and is never withdrawn.                      *)
(***************************************************************************)
EXTENDS Naturals, FiniteSets

CONSTANTS
  Tasks,
  Keys,   \* what a ticket can be for
  NoKey   \* no such key: a task that proposes no ticket

VARIABLES
  wants,      \* for each task the key of the ticket it proposes, or NoKey
  decision,   \* for each task "none", "approved" or "rejected"
  issued,     \* tickets [key, num]
  confirmed   \* for each task the number on its receipt, or 0

gateVars == <<wants, decision, issued, confirmed>>

Ticket(k, n) == [key |-> k, num |-> n]

Init ==
  /\ wants = [t \in Tasks |-> NoKey]
  /\ decision = [t \in Tasks |-> "none"]
  /\ issued = {}
  /\ confirmed = [t \in Tasks |-> 0]

Propose(t, k) ==
  /\ wants[t] = NoKey
  /\ wants' = [wants EXCEPT ![t] = k]
  /\ UNCHANGED <<decision, issued, confirmed>>

\* A task is decided once, and only when there is something to decide.
Decide(t, d) ==
  /\ wants[t] # NoKey
  /\ decision[t] = "none"
  /\ decision' = [decision EXCEPT ![t] = d]
  /\ UNCHANGED <<wants, issued, confirmed>>

Issue(t) ==
  /\ wants[t] # NoKey
  /\ decision[t] = "approved"
  /\ \A x \in issued : x.key # wants[t]
  /\ issued' = issued \cup {Ticket(wants[t], Cardinality(issued) + 1)}
  /\ UNCHANGED <<wants, decision, confirmed>>

Confirm(t, n) ==
  /\ decision[t] = "approved"
  /\ Ticket(wants[t], n) \in issued
  /\ confirmed[t] \in {0, n}
  /\ confirmed' = [confirmed EXCEPT ![t] = n]
  /\ UNCHANGED <<wants, decision, issued>>

Next ==
  \E t \in Tasks :
    \/ \E k \in Keys : Propose(t, k)
    \/ \E d \in {"approved", "rejected"} : Decide(t, d)
    \/ Issue(t)
    \/ \E n \in {x.num : x \in issued} : Confirm(t, n)

Spec == Init /\ [][Next]_gateVars
=============================================================================
