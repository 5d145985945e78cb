------------------------------- MODULE Tickets -------------------------------
(***************************************************************************)
(* The probe-ticket manager of internal/p2p/tickets.go.  Each operation is *)
(* what a method does while it holds the manager's mutex; the time it uses *)
(* was read before the mutex was taken, so it is a parameter.  A ticket is *)
(* 256 random bits, taken never to collide: tickets are numbered in the    *)
(* order they are stored.                                                  *)
(***************************************************************************)
EXTENDS GoMap

CONSTANTS
    TicketTTL,      \* the lifetime of a ticket
    MaxTickets      \* bound on the tickets issued

\* main refuses a lifetime that is not positive.
ASSUME TicketAssumption == TicketTTL \in Nat \ {0} /\ MaxTickets \in Nat

VARIABLES
    tickets,        \* ticket -> ProbeTicket
    issued          \* tickets 1..issued have been stored

ticketVars == <<tickets, issued>>

TicketsInit == tickets = Empty /\ issued = 0

Names(ticket, n) == n \in {ticket.SourceNode, ticket.TargetNode}

\* pruneLocked
Unexpired(now) == Drop(tickets, {k \in DOMAIN tickets : now >= tickets[k].ExpiresAt})

\* Issue, from the lock on: prune, then store.
Issue(source, target, now) ==
    /\ issued < MaxTickets
    /\ tickets' = Put(Unexpired(now), issued + 1,
                      [SourceNode |-> source, TargetNode |-> target,
                       ExpiresAt |-> now + TicketTTL])
    /\ issued' = issued + 1

\* Prune, and the side effect of ListForNode.
Prune(now) ==
    /\ tickets' = Unexpired(now)
    /\ UNCHANGED issued

\* Mutant of ForgetNode: tickets that name the node as target stay.
ForgetNodeAsSource(n) ==
    /\ tickets' = Drop(tickets, {k \in DOMAIN tickets : tickets[k].SourceNode = n})
    /\ UNCHANGED issued

\* ForgetNode
ForgetNode(n) ==
    /\ tickets' = Drop(tickets, {k \in DOMAIN tickets : Names(tickets[k], n)})
    /\ UNCHANGED issued
==============================================================================
