---------------------------- MODULE TicketStore ----------------------------
(***************************************************************************)
(* The table external_tickets behind tools/fake_jira.py.                   *)
(*                                                                         *)
(* FakeJira.create_ticket is not one transaction.  It looks the key up, it *)
(* counts the rows, and it inserts: three statements, between which any    *)
(* other request may insert.  Only the two unique constraints of the table *)
(* are checked inside the insert.                                          *)
(***************************************************************************)
EXTENDS Naturals, FiniteSets

VARIABLE tickets  \* rows [key, num]: the idempotency key and the n of RFI-n

\* find_by_idempotency_key: the row with this key, as a set of at most one.
FindByKey(k) == {x \in tickets : x.key = k}

\* A count taken for the next number, and the number that follows it.
NumberAfterZeroBased(count) == count
NumberAfter(count) == count + 1

\* ticket_key = f"RFI-{count + 1:04d}", from a count of the rows.
NextNumber == NumberAfter(Cardinality(tickets))

\* A table without the constraint on ticket_key.
ClashesOnKeyOnly(k, n) == \E x \in tickets : x.key = k

\* unique=True on idempotency_key and on ticket_key.
Clashes(k, n) == \E x \in tickets : x.key = k \/ x.num = n

AddTicket(k, n) == tickets' = tickets \cup {[key |-> k, num |-> n]}
=============================================================================
