---------------------------- MODULE SupportTickets -----------------------------
(* The support tickets of the backend: api/support_portal.py, which the agents'*)
(* portal calls, and api/support.py, which the customer's pages call. A handler*)
(* reads the ticket into its session and commits later the columns it changed, *)
(* with no lock or version: a concurrent handler may commit in between.        *)
EXTENDS Naturals, FiniteSets

CONSTANTS Tickets, Technical,  \* tickets, and those of category technical
          Me, Colleague,       \* the agent whose portal is modelled, and another
          MaxSupportWrites, MaxWritesElsewhere, MaxDeskReads, MaxPageReads, MaxSupportFaults

ASSUME SupportAssumption ==
    /\ Technical \subseteq Tickets
    /\ Me # Colleague /\ {Me, Colleague} \cap {"nobody", "customer", "phone"} = {}
    /\ {MaxSupportWrites, MaxWritesElsewhere, MaxDeskReads, MaxPageReads, MaxSupportFaults}
           \subseteq Nat

VARIABLES
    ticket,        \* the row of each ticket: status, queue, holder, escalated
    requests,      \* requests under way, with what sent them: the tab, or the mounting
    supportBudget

ticketVars == <<ticket, requests, supportBudget>>

Nobody == "nobody"
Customer == "customer"
Phone == "phone"          \* the customer, from their phone
OtherActors == {Colleague, Phone}
Agents == {Me, Colleague}
NoTicket == "none"
Statuses == {"open", "resolved", "closed"}
Queues == {"resolved", "closed", "queued", "assigned", "in_progress", "escalated"}

Rows == [status : Statuses, queue : Queues, holder : Agents \cup {Nobody}, escalated : BOOLEAN]
NewRow == [status |-> "open", queue |-> "queued", holder |-> Nobody, escalated |-> FALSE]

AgentWrites == {"reply", "pickup", "toMe", "toColleague", "escalate", "resolved", "closed"}
CustomerWrites == {"message", "close"}
Writes == AgentWrites \cup CustomerWrites

Charge(b) == supportBudget[b] > 0 /\ supportBudget' = [supportBudget EXCEPT ![b] = @ - 1]

(* create_ticket gives a ticket this row; it exists when the pages are opened. *)
TicketsInit ==
    /\ ticket = [t \in Tickets |-> NewRow] /\ requests = {}
    /\ supportBudget = [writes |-> MaxSupportWrites, elsewhere |-> MaxWritesElsewhere,
                        deskReads |-> MaxDeskReads, pageReads |-> MaxPageReads,
                        faults |-> MaxSupportFaults]
--------------------------------------------------------------------------------
Unseen == [t \in Tickets |-> NewRow]
Request(by, what, t, tab) ==
    [by |-> by, what |-> what, ticket |-> t, tab |-> tab, mount |-> 0, at |-> "sent", seen |-> Unseen,
     id |-> CHOOSE n \in 1..Cardinality(requests) + 1 : \A r \in requests : r.id # n]

Becomes(r, new) == requests' = (requests \ {r}) \cup {new}

(* _resolve_queue_status, the same in both files.                              *)
ResolveQueueStatus(row) ==
    CASE row.status # "open" -> row.status
      [] row.status = "open" /\ row.escalated -> "escalated"
      [] row.status = "open" /\ ~row.escalated /\ row.holder # Nobody -> "assigned"
      [] OTHER -> "queued"
Requeued(row) == [row EXCEPT !.queue = ResolveQueueStatus(row)]

HolderOr(row, agent) == IF row.holder = Nobody THEN agent ELSE row.holder

Reply(row, agent) == [row EXCEPT !.status = "open", !.queue = "in_progress",
                                 !.holder = HolderOr(row, agent)]
SetStatusOnly(row, s) == [row EXCEPT !.status = s]
SetStatus(row, s) == Requeued([row EXCEPT !.status = s])
GiveTo(row, agent) == [row EXCEPT !.queue = "assigned", !.holder = agent]
Escalate(row, agent) == [row EXCEPT !.queue = "escalated", !.escalated = TRUE,
                                    !.holder = HolderOr(row, agent)]
AddMessageAsReply(row) == Reply(row, Customer)
AddMessage(row) == Requeued([row EXCEPT !.status = IF @ = "resolved" THEN "open" ELSE @])
CloseTicket(row) == [row EXCEPT !.status = "closed", !.queue = "closed"]

Seen(r) == r.seen[r.ticket]

Rewritten(r) ==
    CASE r.what = "reply" -> Reply(Seen(r), r.by)
      [] r.what \in {"resolved", "closed"} -> SetStatus(Seen(r), r.what)
      [] r.what = "pickup" -> GiveTo(Seen(r), r.by)
      [] r.what = "toMe" -> GiveTo(Seen(r), Me)
      [] r.what = "toColleague" -> GiveTo(Seen(r), Colleague)
      [] r.what = "escalate" -> Escalate(Seen(r), r.by)
      [] r.what = "message" -> AddMessage(Seen(r))
      [] r.what = "close" -> CloseTicket(Seen(r))

Conflicts(r) ==
    \/ r.what = "pickup" /\ Seen(r).holder \notin {Nobody, r.by}
    \/ r.what = "escalate" /\ r.ticket \notin Technical

(* A handler has read the ticket, or every ticket for a list.                  *)
HandlerReads ==
    \E r \in requests :
        /\ r.at = "sent"
        /\ Becomes(r, [r EXCEPT !.at = IF r.what \in Writes THEN "read" ELSE "done",
                                !.seen = ticket])
        /\ UNCHANGED <<ticket, supportBudget>>

(* Only the columns it changed are written. Answers to others are not followed.*)
HandlerCommits ==
    \E r \in requests :
        /\ r.at = "read" /\ ~Conflicts(r)
        /\ ticket' = [ticket EXCEPT ![r.ticket] = [c \in DOMAIN @ |->
                          IF Rewritten(r)[c] # Seen(r)[c] THEN Rewritten(r)[c] ELSE @[c]]]
        /\ IF r.by \in OtherActors THEN requests' = requests \ {r}
           ELSE Becomes(r, [r EXCEPT !.at = "done", !.seen = Unseen])
        /\ UNCHANGED supportBudget

HandlerRefuses ==
    \E r \in requests :
        /\ r.at = "read" /\ Conflicts(r)
        /\ IF r.by \in OtherActors THEN requests' = requests \ {r}
           ELSE Becomes(r, [r EXCEPT !.at = "refused", !.seen = Unseen])
        /\ UNCHANGED <<ticket, supportBudget>>

(* Another agent from a portal of their own, the customer from their phone.    *)
ElsewhereActs ==
    /\ Charge("elsewhere")
    /\ \E t \in Tickets :
          \/ \E w \in AgentWrites \ {"toColleague"} :
                requests' = requests \cup {Request(Colleague, w, t, NoTicket)}
          \/ \E w \in CustomerWrites :
                requests' = requests \cup {Request(Phone, w, t, NoTicket)}
    /\ UNCHANGED ticket

(* The colleague deletes their account: the key is ON DELETE SET NULL. Not in  *)
(* TicketsNext: NobodyForgotten does not survive it.                           *)
ColleagueDeleted ==
    /\ ticket' = [t \in Tickets |-> [ticket[t] EXCEPT !.holder =
                      IF @ = Colleague THEN Nobody ELSE @]]
    /\ UNCHANGED <<requests, supportBudget>>

TicketsNext == HandlerReads \/ HandlerCommits \/ HandlerRefuses \/ ElsewhereActs
TicketsFairness == WF_ticketVars(HandlerReads \/ HandlerCommits \/ HandlerRefuses)
--------------------------------------------------------------------------------
TicketsTypeOK ==
    /\ ticket \in [Tickets -> Rows]
    /\ \A r \in requests : /\ r.what \in Writes \cup {"list", "open", "refresh", "mine", "page", "reread"}
                           /\ r.at \in {"sent", "read", "done", "refused"}
                           /\ r.ticket \in Tickets \cup {NoTicket}

(* A ticket nobody holds is where agents look for it: queued while it is open, *)
(* under its status when it is not; whatever the handlers overlap. One that    *)
(* were assigned or in progress with no holder would be in nobody's list.      *)
NobodyForgotten ==
    \A t \in Tickets : ticket[t].holder = Nobody =>
        ticket[t].queue = IF ticket[t].status = "open" THEN "queued" ELSE ticket[t].status
================================================================================
