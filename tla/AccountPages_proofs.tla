-------------------------- MODULE AccountPages_proofs --------------------------
(* Theorems about the settings, household, portal and support pages together:  *)
(* what they show is what is stored, whatever requests and devices overlap; a  *)
(* ticket that nobody holds stays where agents look for it, whatever handlers  *)
(* overlap; and the dashboard is never shown without a session.                *)
EXTENDS MCAccountPages, FiniteSetTheorems, TLAPS

--------------------------------------------------------------------------------
(* The rows of tickets.                                                        *)

\* A row nobody holds is queued under its status and is not escalated.
RowGood(row) ==
  row.holder = Nobody =>
    /\ ~row.escalated
    /\ row.queue = IF row.status = "open" THEN "queued" ELSE row.status

\* What a commit makes of the row: the changed columns, over what is stored.
Merge(new, seen, stored) ==
  [c \in DOMAIN stored |-> IF new[c] # seen[c] THEN new[c] ELSE stored[c]]

LEMMA MergedRow ==
  ASSUME NEW new \in Rows, NEW seen \in Rows, NEW stored \in Rows
  PROVE  /\ Merge(new, seen, stored) \in Rows
         /\ \A c \in {"status", "queue", "holder", "escalated"} :
              Merge(new, seen, stored)[c] = IF new[c] # seen[c] THEN new[c] ELSE stored[c]
  <1> DEFINE m == Merge(new, seen, stored)
  <1>1. DOMAIN stored = {"status", "queue", "holder", "escalated"}
    BY DEF Rows
  <1>2. \A c \in DOMAIN stored : m[c] = IF new[c] # seen[c] THEN new[c] ELSE stored[c]
    BY DEF Merge
  <1>3. m = [status |-> m.status, queue |-> m.queue, holder |-> m.holder,
             escalated |-> m.escalated]
    BY <1>1 DEF Merge
  <1>4. m.status \in Statuses /\ m.queue \in Queues /\ m.holder \in Agents \cup {Nobody}
        /\ m.escalated \in BOOLEAN
    BY <1>1, <1>2 DEF Rows
  <1> QED BY <1>1, <1>2, <1>3, <1>4 DEF Rows

\* The lemma of the proof: a handler that decided on an older row than the one
\* it commits over still leaves a good row, since whoever has taken the ticket
\* meanwhile keeps it, and an unheld row is settled by its status alone.
LEMMA MergeKeepsRows ==
  ASSUME SupportAssumption,
         NEW r, r.what \in Writes, r.what \in AgentWrites => r.by \in Agents,
         Seen(r) \in Rows, RowGood(Seen(r)),
         NEW stored \in Rows, RowGood(stored),
         Seen(r).holder # Nobody => stored.holder # Nobody
  PROVE  /\ Rewritten(r) \in Rows
         /\ Merge(Rewritten(r), Seen(r), stored) \in Rows
         /\ RowGood(Merge(Rewritten(r), Seen(r), stored))
         /\ stored.holder # Nobody => Merge(Rewritten(r), Seen(r), stored).holder # Nobody
  <1> DEFINE s == Seen(r)  n == Rewritten(r)  m == Merge(n, s, stored)
  <1> USE DEF Statuses, Queues
  <1>0. s \in [status : Statuses, queue : Queues, holder : Agents \cup {Nobody}, escalated : BOOLEAN]
    BY DEF Rows
  <1>a. Nobody \notin Agents /\ Me \in Agents /\ Colleague \in Agents
    BY DEF SupportAssumption, Nobody, Agents
  <1>1. ASSUME r.what \in {"reply", "pickup", "toMe", "toColleague", "escalate"}
        PROVE  n \in Rows /\ n.holder # Nobody
    <2>1. r.by \in Agents
      BY <1>1 DEF AgentWrites
    <2>2. HolderOr(s, r.by) \in Agents
      BY <2>1, <1>0, <1>a DEF HolderOr
    <2>3. CASE r.what = "reply"
      <3>1. n = Reply(s, r.by)
        BY <2>3 DEF Rewritten
      <3>2. n = [status |-> "open", queue |-> "in_progress",
                 holder |-> HolderOr(s, r.by), escalated |-> s.escalated]
        BY <3>1, <1>0 DEF Reply
      <3> QED BY <3>2, <2>2, <1>0, <1>a DEF Rows
    <2>4. CASE r.what \in {"pickup", "toMe", "toColleague"}
      <3>1. \E a \in Agents : n = GiveTo(s, a)
        BY <2>4, <2>1, <1>a DEF Rewritten
      <3> QED BY <3>1, <1>0, <1>a DEF GiveTo, Rows
    <2>5. CASE r.what = "escalate"
      <3>1. n = Escalate(s, r.by)
        BY <2>5 DEF Rewritten
      <3> QED BY <3>1, <2>2, <1>0, <1>a DEF Escalate, Rows
    <2> QED BY <1>1, <2>3, <2>4, <2>5
  <1>2. ASSUME r.what \in {"resolved", "closed", "message", "close"}
        PROVE  /\ n \in Rows /\ n.holder = s.holder /\ n.escalated = s.escalated
               /\ s.holder = Nobody => n.queue = IF n.status = "open" THEN "queued" ELSE n.status
    <2>1. CASE r.what \in {"resolved", "closed"}
      <3>1. n = [s EXCEPT !.status = r.what, !.queue = r.what]
        <4>1. n = SetStatus(s, r.what)
          BY <2>1 DEF Rewritten
        <4> QED BY <4>1, <2>1, <1>0 DEF SetStatus, Requeued, ResolveQueueStatus
      <3> QED BY <3>1, <2>1, <1>0 DEF Rows
    <2>2. CASE r.what = "close"
      <3>1. n = [s EXCEPT !.status = "closed", !.queue = "closed"]
        BY <2>2 DEF Rewritten, CloseTicket
      <3> QED BY <3>1, <1>0 DEF Rows
    <2>3. CASE r.what = "message"
      <3> DEFINE o == [s EXCEPT !.status = IF @ = "resolved" THEN "open" ELSE @]
      <3>1. n = [o EXCEPT !.queue = ResolveQueueStatus(o)]
        BY <2>3 DEF Rewritten, AddMessage, Requeued
      <3>2. o \in Rows /\ o.holder = s.holder /\ o.escalated = s.escalated
        BY <1>0 DEF Rows
      <3>3. ResolveQueueStatus(o) \in Queues
        BY <3>2 DEF ResolveQueueStatus, Rows
      <3>4. s.holder = Nobody =>
              ResolveQueueStatus(o) = IF o.status = "open" THEN "queued" ELSE o.status
        BY <3>2 DEF ResolveQueueStatus, Rows, RowGood
      <3>5. n = [status |-> o.status, queue |-> ResolveQueueStatus(o),
                 holder |-> o.holder, escalated |-> o.escalated]
        BY <3>1, <3>2 DEF Rows
      <3> QED BY <3>2, <3>3, <3>4, <3>5 DEF Rows
    <2> QED BY <1>2, <2>1, <2>2, <2>3
  <1>3. n \in Rows
    BY <1>1, <1>2 DEF Writes, AgentWrites, CustomerWrites
  <1>4. m \in Rows /\ \A c \in {"status", "queue", "holder", "escalated"} :
                        m[c] = IF n[c] # s[c] THEN n[c] ELSE stored[c]
    BY <1>3, MergedRow
  <1>5. CASE r.what \in {"reply", "pickup", "toMe", "toColleague", "escalate"}
    <2>1. m.holder # Nobody
      BY <1>1, <1>4, <1>5
    <2> QED BY <1>3, <1>4, <2>1 DEF RowGood
  <1>6. CASE r.what \in {"resolved", "closed", "message", "close"}
    <2>1. m.holder = stored.holder /\ m.escalated = stored.escalated
      BY <1>2, <1>4, <1>6
    <2>2. ASSUME m.holder = Nobody
          PROVE  m.queue = IF m.status = "open" THEN "queued" ELSE m.status
      <3>1. s.holder = Nobody /\ stored.holder = Nobody
        BY <2>1, <2>2
      <3>2. /\ s.queue = IF s.status = "open" THEN "queued" ELSE s.status
            /\ stored.queue = IF stored.status = "open" THEN "queued" ELSE stored.status
            /\ n.queue = IF n.status = "open" THEN "queued" ELSE n.status
        BY <1>2, <1>6, <3>1 DEF RowGood
      <3>3. s.status \in Statuses /\ n.status \in Statuses /\ stored.status \in Statuses
        BY <1>3 DEF Rows
      <3>4. CASE n.status = s.status
        BY <3>2, <3>4, <1>4
      <3>5. CASE n.status # s.status
        <4>1. n.queue # s.queue
          BY <3>2, <3>3, <3>5
        <4> QED BY <3>2, <3>5, <4>1, <1>4
      <3> QED BY <3>4, <3>5
    <2> QED BY <1>3, <1>4, <2>1, <2>2 DEF RowGood
  <1> QED BY <1>5, <1>6 DEF Writes, AgentWrites, CustomerWrites

--------------------------------------------------------------------------------
(* The invariant of the tickets: every row is good, and so is every row that a *)
(* handler has read; a ticket that was held when it was read still is.         *)

\* A request has its eight fields, and agents' writes come from agents.
RequestShape(r) ==
  /\ DOMAIN r = {"by", "what", "ticket", "tab", "mount", "at", "seen", "id"}
  /\ r.what \in AgentWrites => r.by \in Agents

\* What a handler that has read its ticket knows of it.
ReadGood(r) ==
  r.at = "read" /\ r.ticket \in Tickets =>
    /\ r.what \in Writes
    /\ Seen(r) \in Rows /\ RowGood(Seen(r))
    /\ Seen(r).holder # Nobody => ticket[r.ticket].holder # Nobody

TicketsInv ==
  /\ ticket \in [Tickets -> Rows]
  /\ \A t \in Tickets : RowGood(ticket[t])
  /\ \A r \in requests : RequestShape(r) /\ ReadGood(r)

LEMMA TicketsInvImplies ==
  ASSUME TicketsInv PROVE NobodyForgotten
  BY DEF TicketsInv, RowGood, NobodyForgotten

LEMMA TicketsInvInit ==
  ASSUME TicketsInit PROVE TicketsInv
  <1>1. NewRow \in Rows /\ RowGood(NewRow)
    BY DEF NewRow, Rows, RowGood, Statuses, Queues
  <1>2. ticket \in [Tickets -> Rows] /\ \A t \in Tickets : ticket[t] = NewRow
    BY <1>1 DEF TicketsInit
  <1>3. \A t \in Tickets : RowGood(ticket[t])
    BY <1>1, <1>2 DEF RowGood
  <1> QED BY <1>2, <1>3 DEF TicketsInit, TicketsInv

\* A request that a page has just sent has read nothing yet.
Sent(r) == RequestShape(r) /\ r.at = "sent"

LEMMA RequestSent ==
  ASSUME NEW by, NEW what, NEW t, NEW from, NEW mount,
         what \in AgentWrites => by \in Agents
  PROVE  /\ Sent(Request(by, what, t, from))
         /\ Sent([Request(by, what, t, from) EXCEPT !.mount = mount])
         /\ Request(by, what, t, from).ticket = t
  BY DEF Sent, RequestShape, Request

\* The pages send requests and drop them; they do not touch the rows.
LEMMA PagesKeepTickets ==
  ASSUME TicketsInv, ticket' = ticket, \A r \in requests' : r \in requests \/ Sent(r)
  PROVE  TicketsInv'
  <1>1. ASSUME NEW r \in requests'
        PROVE  RequestShape(r) /\ ReadGood(r)'
    <2>1. CASE r \in requests
      BY <2>1 DEF TicketsInv, ReadGood, Seen
    <2>2. CASE Sent(r)
      BY <2>2 DEF Sent, ReadGood
    <2> QED BY <1>1, <2>1, <2>2
  <1> QED BY <1>1 DEF TicketsInv, RequestShape

LEMMA TicketsStep ==
  ASSUME SupportAssumption, TicketsInv, TicketsNext
  PROVE  TicketsInv'
  <1>1. CASE HandlerReads
    <2>1. PICK r \in requests :
            /\ r.at = "sent" /\ ticket' = ticket
            /\ Becomes(r, [r EXCEPT !.at = IF r.what \in Writes THEN "read" ELSE "done",
                                    !.seen = ticket])
      BY <1>1 DEF HandlerReads
    <2>q. PICK q : q = [r EXCEPT !.at = IF r.what \in Writes THEN "read" ELSE "done",
                                 !.seen = ticket]
      OBVIOUS
    <2>2. RequestShape(r)
      BY DEF TicketsInv
    <2>3. /\ DOMAIN q = DOMAIN r /\ q.by = r.by /\ q.what = r.what /\ q.ticket = r.ticket
          /\ q.at = (IF r.what \in Writes THEN "read" ELSE "done") /\ q.seen = ticket
      BY <2>2, <2>q DEF RequestShape
    <2>4. RequestShape(q)
      BY <2>2, <2>3 DEF RequestShape
    <2>5. ReadGood(q)'
      BY <2>1, <2>3 DEF ReadGood, Seen, TicketsInv
    <2>6. \A k \in requests' : k \in requests \/ k = q
      BY <2>1, <2>q DEF Becomes
    <2>7. \A k \in requests : RequestShape(k) /\ ReadGood(k)'
      BY <2>1 DEF TicketsInv, ReadGood, Seen
    <2> QED BY <2>1, <2>4, <2>5, <2>6, <2>7 DEF TicketsInv, RequestShape
  <1>2. CASE HandlerCommits
    <2>1. PICK r \in requests :
            /\ r.at = "read"
            /\ ticket' = [ticket EXCEPT ![r.ticket] =
                            Merge(Rewritten(r), Seen(r), ticket[r.ticket])]
            /\ \A k \in requests' : k \in requests \/ k = [r EXCEPT !.at = "done", !.seen = Unseen]
      BY <1>2 DEF HandlerCommits, Becomes, Merge
    <2>q. PICK q : q = [r EXCEPT !.at = "done", !.seen = Unseen]
      OBVIOUS
    <2>2. RequestShape(r) /\ ReadGood(r)
      BY DEF TicketsInv
    <2>3. /\ DOMAIN q = DOMAIN r /\ q.by = r.by /\ q.what = r.what /\ q.ticket = r.ticket
          /\ q.at = "done" /\ q.seen = Unseen
      BY <2>2, <2>q DEF RequestShape
    <2>4. RequestShape(q) /\ ReadGood(q)'
      BY <2>2, <2>3 DEF RequestShape, ReadGood
    <2>5. \A k \in requests' : k \in requests \/ k = q
      BY <2>1, <2>q
    <2>6. /\ ticket' \in [Tickets -> Rows]
          /\ \A t \in Tickets : RowGood(ticket'[t])
          /\ \A t \in Tickets : ticket[t].holder # Nobody => ticket'[t].holder # Nobody
      <3>1. CASE r.ticket \notin Tickets
        <4>1. ticket' = ticket
          BY <2>1, <3>1 DEF TicketsInv
        <4> QED BY <4>1 DEF TicketsInv
      <3>2. CASE r.ticket \in Tickets
        <4> DEFINE m == Merge(Rewritten(r), Seen(r), ticket[r.ticket])
        <4>1. /\ m \in Rows /\ RowGood(m)
              /\ ticket[r.ticket].holder # Nobody => m.holder # Nobody
          <5>1. /\ r.what \in Writes /\ (r.what \in AgentWrites => r.by \in Agents)
                /\ Seen(r) \in Rows /\ RowGood(Seen(r))
                /\ Seen(r).holder # Nobody => ticket[r.ticket].holder # Nobody
            BY <2>1, <2>2, <3>2 DEF RequestShape, ReadGood
          <5>2. ticket[r.ticket] \in Rows /\ RowGood(ticket[r.ticket])
            BY <3>2 DEF TicketsInv
          <5> QED BY <5>1, <5>2, MergeKeepsRows
        <4> HIDE DEF m
        <4>2. ticket' = [ticket EXCEPT ![r.ticket] = m]
          BY <2>1 DEF m
        <4> QED BY <3>2, <4>1, <4>2 DEF TicketsInv
      <3> QED BY <3>1, <3>2
    <2>7. ASSUME NEW k \in requests
          PROVE  RequestShape(k) /\ ReadGood(k)'
      BY <2>6 DEF TicketsInv, ReadGood, Seen
    <2> QED BY <2>4, <2>5, <2>6, <2>7 DEF TicketsInv, RequestShape
  <1>3. CASE HandlerRefuses
    <2>1. PICK r \in requests :
            /\ ticket' = ticket
            /\ \A k \in requests' :
                 k \in requests \/ k = [r EXCEPT !.at = "refused", !.seen = Unseen]
      BY <1>3 DEF HandlerRefuses, Becomes
    <2>q. PICK q : q = [r EXCEPT !.at = "refused", !.seen = Unseen]
      OBVIOUS
    <2>2. RequestShape(r)
      BY DEF TicketsInv
    <2>3. /\ DOMAIN q = DOMAIN r /\ q.by = r.by /\ q.what = r.what /\ q.ticket = r.ticket
          /\ q.at = "refused" /\ q.seen = Unseen
      BY <2>2, <2>q DEF RequestShape
    <2>4. RequestShape(q) /\ ReadGood(q)'
      BY <2>2, <2>3 DEF RequestShape, ReadGood
    <2>5. \A k \in requests' : k \in requests \/ k = q
      BY <2>1, <2>q
    <2>6. \A k \in requests : RequestShape(k) /\ ReadGood(k)'
      BY <2>1 DEF TicketsInv, ReadGood, Seen
    <2> QED BY <2>1, <2>4, <2>5, <2>6 DEF TicketsInv, RequestShape
  <1>4. CASE ElsewhereActs
    <2>1. \A r \in requests' : r \in requests \/ Sent(r)
      <3>1. Colleague \in Agents /\ CustomerWrites \cap AgentWrites = {}
        BY DEF Agents, CustomerWrites, AgentWrites
      <3>2. \E by, what, t :
               /\ what \in AgentWrites => by \in Agents
               /\ requests' = requests \cup {Request(by, what, t, NoTicket)}
        BY <1>4, <3>1 DEF ElsewhereActs
      <3>3. PICK by, what, t :
               /\ what \in AgentWrites => by \in Agents
               /\ requests' = requests \cup {Request(by, what, t, NoTicket)}
        BY <3>2
      <3>4. Sent(Request(by, what, t, NoTicket))
        BY <3>3, RequestSent
      <3> QED BY <3>3, <3>4
    <2> QED BY <1>4, <2>1, PagesKeepTickets DEF ElsewhereActs
  <1> QED BY <1>1, <1>2, <1>3, <1>4 DEF TicketsNext

--------------------------------------------------------------------------------
(* The two pages.                                                              *)

\* The requests an agent's dashboard sends.
LEMMA DeskRequests ==
  ASSUME NEW what, NEW t, NEW from
  PROVE  Sent(Request(Me, what, t, from))
  BY RequestSent DEF Agents

LEMMA DeskSteps ==
  ASSUME DeskNext
  PROVE  ticket' = ticket /\ \A r \in requests' : r \in requests \/ Sent(r)
  <1> USE DeskRequests DEF LoadTickets, RefreshTicket, Load, PressButton, Answered
  <1>1. CASE OpenDesk BY <1>1 DEF OpenDesk
  <1>2. CASE ChooseTab BY <1>2 DEF ChooseTab
  <1>3. CASE OpenTicket BY <1>3 DEF OpenTicket
  <1>4. CASE ClosePanel \/ TypeReply BY <1>4 DEF ClosePanel, TypeReply, ticketVars
  <1>5. CASE HandleReply BY <1>5 DEF HandleReply
  <1>6. CASE HandlePickup BY <1>6 DEF HandlePickup
  <1>7. CASE HandleAssign BY <1>7 DEF HandleAssign
  <1>8. CASE HandleEscalate BY <1>8 DEF HandleEscalate
  <1>9. CASE HandleStatusUpdate BY <1>9 DEF HandleStatusUpdate
  <1>10. CASE ListAnswered BY <1>10 DEF ListAnswered
  <1>11. CASE OpenAnswered BY <1>11 DEF OpenAnswered
  <1>12. CASE PressAnswered BY <1>12 DEF PressAnswered
  <1>13. CASE RefreshAnswered BY <1>13 DEF RefreshAnswered
  <1> QED BY <1>1, <1>2, <1>3, <1>4, <1>5, <1>6, <1>7, <1>8, <1>9, <1>10, <1>11,
             <1>12, <1>13 DEF DeskNext

\* The requests a customer's page sends: none of them is an agent's write.
LEMMA PageRequests ==
  ASSUME NEW what, what \notin AgentWrites, NEW t, NEW mount
  PROVE  Sent(PageRequest(what, t, mount))
  BY RequestSent DEF PageRequest

LEMMA TicketPageSteps ==
  ASSUME TicketPageNext
  PROVE  ticket' = ticket /\ \A r \in requests' : r \in requests \/ Sent(r)
  <1>0. {"mine", "page", "reread", "message", "close"} \cap AgentWrites = {}
    BY DEF AgentWrites
  <1>a. ASSUME NEW what \in {"mine", "page", "reread", "message", "close"}, NEW t, NEW mount
        PROVE  Sent(PageRequest(what, t, mount))
    BY <1>0, PageRequests
  <1> USE DEF GetTickets, GetTicketDetail, Say
  <1>1. CASE OpenTicketPage BY <1>1, <1>a DEF OpenTicketPage
  <1>2. CASE GoToSupport BY <1>2, <1>a DEF GoToSupport
  <1>3. CASE MineAnswered BY <1>3 DEF MineAnswered
  <1>4. CASE OpenMonitor \/ MonitorAnswered \/ CloseMonitor
    BY <1>4 DEF OpenMonitor, MonitorAnswered, CloseMonitor, ticketVars
  <1>5. CASE SendMessage BY <1>5, <1>a DEF SendMessage
  <1>6. CASE CloseMine BY <1>6, <1>a DEF CloseMine
  <1>7. CASE SaidAnswered BY <1>7, <1>a DEF SaidAnswered
  <1>8. CASE PageAnswered BY <1>8, <1>a DEF PageAnswered
  <1> QED BY <1>1, <1>2, <1>3, <1>4, <1>5, <1>6, <1>7, <1>8 DEF TicketPageNext

--------------------------------------------------------------------------------
(* A ticket that nobody holds is where agents look for it: the handlers of     *)
(* api/support_portal.py and api/support.py may overlap as they like.          *)
THEOREM NobodyIsForgotten == AccountSpec => []NobodyForgotten
  <1>1. AccountInit => TicketsInv
    BY TicketsInvInit DEF AccountInit
  <1>2. TicketsInv /\ [AccountNext]_accountVars => TicketsInv'
    <2> SUFFICES ASSUME TicketsInv, [AccountNext]_accountVars PROVE TicketsInv'
      OBVIOUS
    <2> DEFINE Pages == ticket' = ticket /\ \A r \in requests' : r \in requests \/ Sent(r)
    <2>1. ticketVars' = ticketVars => Pages
      BY DEF ticketVars
    <2>2. CASE UNCHANGED accountVars
      BY <2>1, <2>2, PagesKeepTickets DEF accountVars, supportVars
    <2>3. CASE AccountNext
      <3>1. \/ ticketVars' = ticketVars
            \/ DeskVisit
            \/ TicketVisit
        BY <2>3 DEF AccountNext, supportVars
      <3>2. CASE DeskVisit
        <4>1. TicketsNext \/ DeskNext
          BY <3>2 DEF DeskVisit, TicketsNext
        <4> QED BY <4>1, SupportAssumption, TicketsStep, DeskSteps, PagesKeepTickets
      <3>3. CASE TicketVisit
        <4>1. TicketsNext \/ TicketPageNext
          BY <3>3 DEF TicketVisit
        <4> QED BY <4>1, SupportAssumption, TicketsStep, TicketPageSteps, PagesKeepTickets
      <3> QED BY <2>1, <3>1, <3>2, <3>3, PagesKeepTickets
    <2> QED BY <2>2, <2>3
  <1>3. TicketsInv => NobodyForgotten
    BY TicketsInvImplies
  <1> QED BY <1>1, <1>2, <1>3, PTL DEF AccountSpec

--------------------------------------------------------------------------------
(* The portal's session.                                                       *)

LEMMA SomeoneIsSomeone ==
  ASSUME PortalAssumption, NEW p \in People PROVE SessionOf(p) # NoOne
  <1>1. SessionOf(p).uid = p /\ NoOne.uid = "nobody"
    BY DEF SessionOf, NoOne
  <1> QED BY <1>1 DEF PortalAssumption

\* The dashboard is guarded, the page is one of three, sign-ins are of people who exist.
PortalInv ==
  /\ DashboardNeedsSession
  /\ page \in {"login", "waiting", "dashboard"}
  /\ signIns \subseteq People

LEMMA PortalSteps ==
  ASSUME PortalAssumption, PortalInv, PortalNext
  PROVE  PortalInv'
  <1> USE DEF PortalInv, DashboardNeedsSession
  <1>0. ASSUME NEW s, NotifyListeners(s)
        PROVE  /\ page' \in {"login", "waiting", "dashboard"}
               /\ page' = "dashboard" => routeUser' /\ s # NoOne
    BY <1>0 DEF NotifyListeners
  <1>1. CASE MountRoute
    BY <1>1, <1>0 DEF MountRoute
  <1>2. CASE HandleLogin
    BY <1>2 DEF HandleLogin
  <1>3. CASE LoginAnswered
    <2>1. PICK p \in signIns :
            /\ signIns' = signIns \ {p}
            /\ \/ /\ session' = SessionOf(p) /\ kept' = SessionOf(p)
                  /\ routeUser' = TRUE /\ page' = "dashboard"
               \/ UNCHANGED <<session, kept, routeUser, page>>
      BY <1>3 DEF LoginAnswered
    <2>2. SessionOf(p) # NoOne
      BY <2>1, SomeoneIsSomeone
    <2> QED BY <2>1, <2>2
  <1>4. CASE SignOut
    BY <1>4, <1>0 DEF SignOut, ClearSession
  <1>5. CASE Expires \/ Call \/ CallAnswered
    BY <1>5 DEF Expires, Call, CallAnswered
  <1>6. CASE RefreshEnds
    <2>1. signIns' = signIns
      BY <1>6 DEF RefreshEnds
    <2>2. PICK c \in calls : Refreshed(c) \/ Refused(c)
      BY <1>6 DEF RefreshEnds
    <2>3. CASE Refreshed(c)
      BY <2>1, <2>3, <1>0 DEF Refreshed, SaveSession
    <2>4. CASE Refused(c)
      BY <2>1, <2>4, <1>0 DEF Refused, ClearSession
    <2> QED BY <2>2, <2>3, <2>4
  <1>7. CASE RestoreSession
    BY <1>7 DEF RestoreSession
  <1> QED BY <1>1, <1>2, <1>3, <1>4, <1>5, <1>6, <1>7 DEF PortalNext

(* However sign-ins, refused refreshes and reloads of services/gcp_auth_driver *)
(* fall together, the portal's dashboard is shown to no one without a session, *)
(* and a reload restores the session memory holds.                             *)
THEOREM DashboardIsGuarded == AccountSpec => []DashboardNeedsSession
  <1>1. AccountInit => PortalInv
    BY DEF AccountInit, PortalInit, PortalInv, DashboardNeedsSession
  <1>2. PortalInv /\ [AccountNext]_accountVars => PortalInv'
    <2> SUFFICES ASSUME PortalInv, [AccountNext]_accountVars PROVE PortalInv'
      OBVIOUS
    <2>1. PortalNext \/ portalVars' = portalVars
      BY DEF AccountNext, accountVars, settingsVars
    <2>2. CASE portalVars' = portalVars
      BY <2>2 DEF portalVars, PortalInv, DashboardNeedsSession
    <2> QED BY <2>1, <2>2, PortalAssumption, PortalSteps
  <1>3. PortalInv => DashboardNeedsSession
    BY DEF PortalInv
  <1> QED BY <1>1, <1>2, <1>3, PTL DEF AccountSpec

--------------------------------------------------------------------------------
(* The lists of the settings page: a list that is not stale waits for the      *)
(* reload of a change that was stored, or has one request in flight that read, *)
(* or will read, what is stored, or shows it.                                  *)
ListSets == [ListNames -> SUBSET (SessionRows \cup HouseholdRows)]

LoadOK(o) ==
    /\ o \in [list : ListNames, at : {"sent", "read"}, after : {"open", "change"},
              seen : SUBSET (SessionRows \cup HouseholdRows), id : {o.id}]
    /\ o.seen \subseteq RowsOf[o.list]
ChangeOK(c) ==
    c \in [list : ListNames, row : {c.row}, at : {"sent", "stored"}, id : {c.id}]

ListTypes ==
    /\ rowsStored \in ListSets /\ rowsShown \in ListSets
    /\ \A l \in ListNames : rowsStored[l] \subseteq RowsOf[l] /\ rowsShown[l] \subseteq RowsOf[l]
    /\ actionRow \in [ListNames -> SessionRows \cup HouseholdRows \cup {NoRow, Others}]
    /\ \A l \in ListNames : actionRow[l] \in RowsOf[l] \cup {NoRow, Others}
    /\ tab \in {"profile", "security", "household"}
    /\ confirming \in SessionRows \cup {NoRow, Others}
    /\ stale \subseteq ListNames

FreshLoad(l) ==
    \E o \in listLoads : /\ o.list = l /\ \A p \in listLoads : p.list = l => p = o
                         /\ o.at = "read" => o.seen = rowsStored[l]
ShowsStored(l) == (\A o \in listLoads : o.list # l) /\ rowsShown[l] = rowsStored[l]
WillReload(l) == \E c \in changes : c.list = l /\ c.at = "stored"
ListFresh(l) == WillReload(l) \/ FreshLoad(l) \/ ShowsStored(l)

ListsInv ==
    /\ ListTypes
    /\ \A o \in listLoads : LoadOK(o)
    /\ \A c \in changes : ChangeOK(c)
    /\ \A l \in ListNames \ stale : ListFresh(l)

LEMMA ListsInit0 == ListsInit => ListsInv
  <1> SUFFICES ASSUME ListsInit PROVE ListsInv
    OBVIOUS
  <1>1. ListTypes
    BY DEF ListsInit, ListTypes, ListSets, ListNames, RowsOf
  <1> QED BY <1>1 DEF ListsInit, ListsInv

\* A new request for a list, alone, makes it fresh.
LEMMA LoadBegins ==
    ASSUME ListsInv, NEW l \in ListNames, NEW after \in {"open", "change"},
           listLoads' = listLoads \cup {LoadOf(l, after)},
           UNCHANGED <<rowsStored, rowsShown, actionRow>>,
           tab' \in {"profile", "security", "household"}, confirming' = confirming,
           changes' \subseteq changes, \A c \in changes \ changes' : c.list = l,
           stale' = (stale \ {l}) \cup Overlapping(l)
    PROVE  ListsInv'
  <1>1. PICK load : load = LoadOf(l, after)
    OBVIOUS
  <1>2. load.list = l /\ load.at = "sent" /\ load.seen = {} /\ load.after = after
    BY <1>1 DEF LoadOf
  <1>3. LoadOK(load)
    <2>1. load = [list |-> l, at |-> "sent", seen |-> {}, after |-> after, id |-> load.id]
      BY <1>1 DEF LoadOf
    <2> QED BY <1>2, <2>1 DEF LoadOK
  <1>4. listLoads' = listLoads \cup {load}
    BY <1>1
  <1>5. stale' \subseteq ListNames
    BY DEF ListsInv, ListTypes, Overlapping
  <1>6. ListTypes'
    BY <1>5 DEF ListsInv, ListTypes
  <1>7. ASSUME NEW m \in ListNames, m \notin stale' PROVE ListFresh(m)'
    <2>1. CASE m = l
      <3>1. \A o \in listLoads : o.list # l
        BY <1>7, <2>1 DEF Overlapping
      <3>2. load \in listLoads' /\ \A p \in listLoads' : p.list = m => p = load
        BY <1>4, <2>1, <3>1
      <3> QED BY <1>2, <2>1, <3>2 DEF ListFresh, FreshLoad
    <2>2. CASE m # l
      <3>1. ListFresh(m)
        BY <1>7, <2>2 DEF ListsInv
      <3>2. \A o : o.list = m => (o \in listLoads' <=> o \in listLoads)
        BY <1>2, <1>4, <2>2
      <3>3. \A c : c.list = m => (c \in changes' <=> c \in changes)
        BY <2>2
      <3> QED BY <3>1, <3>2, <3>3 DEF ListFresh, FreshLoad, ShowsStored, WillReload
    <2> QED BY <2>1, <2>2
  <1> QED BY <1>3, <1>4, <1>6, <1>7 DEF ListsInv, LoadOK, ChangeOK

\* Nothing is asked for and no answer arrives.
LEMMA QuietKeepsLists ==
    ASSUME ListsInv, UNCHANGED <<rowsStored, rowsShown, listLoads, stale>>,
           tab' \in {"profile", "security", "household"},
           confirming' \in SessionRows \cup {NoRow, Others},
           actionRow' \in [ListNames -> SessionRows \cup HouseholdRows \cup {NoRow, Others}],
           \A l \in ListNames : actionRow'[l] \in RowsOf[l] \cup {NoRow, Others},
           \A c \in changes' : ChangeOK(c),
           \A c \in changes : c.at = "stored" => c \in changes'
    PROVE  ListsInv'
  <1>1. ListTypes'
    BY DEF ListsInv, ListTypes
  <1>2. ASSUME NEW l \in ListNames, l \notin stale PROVE ListFresh(l)'
    <2>1. ListFresh(l)
      BY <1>2 DEF ListsInv
    <2> QED BY <2>1 DEF ListFresh, FreshLoad, ShowsStored, WillReload
  <1> QED BY <1>1, <1>2 DEF ListsInv, LoadOK, ChangeOK

LEMMA OpeningKeepsLists == ASSUME ListsInv, OpenTab \/ RefreshSessions PROVE ListsInv'
  <1>1. CASE RefreshSessions
    <2>1. stale' = (stale \ {"sessions"}) \cup Overlapping("sessions")
      BY <1>1 DEF RefreshSessions
    <2>2. "sessions" \in ListNames /\ tab \in {"profile", "security", "household"}
      BY DEF ListNames, ListsInv, ListTypes
    <2> QED BY <1>1, <2>1, <2>2, LoadBegins DEF RefreshSessions
  <1>2. CASE OpenTab
    <2>1. PICK t \in {"profile", "security", "household"} \ {tab} :
             /\ tab' = t
             /\ \/ t = "profile" /\ UNCHANGED <<listLoads, stale>>
                \/ \E l \in ListNames :
                      /\ TabOf[l] = t
                      /\ listLoads' = listLoads \cup {LoadOf(l, "open")}
                      /\ stale' = (stale \ {l}) \cup Overlapping(l)
      BY <1>2 DEF OpenTab
    <2>2. CASE UNCHANGED <<listLoads, stale>>
      BY <1>2, <2>1, <2>2, QuietKeepsLists DEF OpenTab, ListsInv, ListTypes
    <2>3. ASSUME NEW l \in ListNames, listLoads' = listLoads \cup {LoadOf(l, "open")},
                 stale' = (stale \ {l}) \cup Overlapping(l)
          PROVE  ListsInv'
      BY <1>2, <2>1, <2>3, LoadBegins DEF OpenTab
    <2> QED BY <2>1, <2>2, <2>3
  <1> QED BY <1>1, <1>2

LEMMA LoadReadKeepsLists == ASSUME ListsInv, LoadRead PROVE ListsInv'
  <1>1. PICK o \in listLoads :
            /\ listLoads' = (listLoads \ {o}) \cup {[o EXCEPT !.at = "read", !.seen = rowsStored[o.list]]}
            /\ UNCHANGED <<rowsStored, rowsShown, changes, tab, confirming, actionRow, stale>>
    BY DEF LoadRead
  <1>2. LoadOK(o)
    BY DEF ListsInv
  <1>3. PICK got : got = [o EXCEPT !.at = "read", !.seen = rowsStored[o.list]]
    OBVIOUS
  <1>4. got.list = o.list /\ got.at = "read" /\ got.seen = rowsStored[o.list] /\ got.id = o.id
    BY <1>2, <1>3 DEF LoadOK
  <1>5. LoadOK(got)
    <2>1. rowsStored[o.list] \in SUBSET (SessionRows \cup HouseholdRows)
          /\ rowsStored[o.list] \subseteq RowsOf[o.list]
      BY <1>2 DEF ListsInv, ListTypes, ListSets, LoadOK
    <2>2. got \in [list : ListNames, at : {"sent", "read"}, after : {"open", "change"},
                   seen : SUBSET (SessionRows \cup HouseholdRows), id : {o.id}]
      BY <1>2, <1>3, <2>1 DEF LoadOK
    <2> QED BY <1>4, <2>1, <2>2 DEF LoadOK
  <1>6. listLoads' = (listLoads \ {o}) \cup {got}
    BY <1>1, <1>3
  <1>7. ListTypes'
    BY <1>1 DEF ListsInv, ListTypes
  <1>8. ASSUME NEW l \in ListNames, l \notin stale PROVE ListFresh(l)'
    <2>1. ListFresh(l)
      BY <1>8 DEF ListsInv
    <2>2. CASE WillReload(l)
      BY <1>1, <2>2 DEF ListFresh, WillReload
    <2>3. CASE ShowsStored(l)
      BY <1>1, <1>4, <1>6, <2>3 DEF ListFresh, ShowsStored
    <2>4. CASE FreshLoad(l) /\ o.list # l
      BY <1>1, <1>4, <1>6, <2>4 DEF ListFresh, FreshLoad
    <2>5. CASE FreshLoad(l) /\ o.list = l
      <3>1. \A p \in listLoads : p.list = l => p = o
        BY <2>5 DEF FreshLoad
      <3>2. got \in listLoads' /\ \A p \in listLoads' : p.list = l => p = got
        BY <1>6, <3>1
      <3>3. got.seen = rowsStored'[l]
        BY <1>1, <1>4, <2>5
      <3> QED BY <1>4, <2>5, <3>2, <3>3 DEF ListFresh, FreshLoad
    <2> QED BY <2>1, <2>2, <2>3, <2>4, <2>5 DEF ListFresh
  <1> QED BY <1>1, <1>5, <1>6, <1>7, <1>8 DEF ListsInv, LoadOK, ChangeOK

LEMMA LoadAnsweredKeepsLists == ASSUME ListsInv, LoadAnswered PROVE ListsInv'
  <1>1. PICK o \in listLoads :
        /\ listLoads' = listLoads \ {o}
        /\ \/ /\ o.at = "read"
              /\ rowsShown' = [rowsShown EXCEPT ![o.list] = o.seen]
              /\ UNCHANGED <<stale, listBudget>>
           \/ /\ rowsShown' = IF o.list = "household" THEN [rowsShown EXCEPT ![o.list] = {}]
                           ELSE rowsShown
              /\ stale' = stale \cup {o.list}
        /\ IF o.after = "open" THEN UNCHANGED <<actionRow, confirming>>
           ELSE Over(o.list, TRUE)
        /\ UNCHANGED <<rowsStored, changes, tab>>
    BY DEF LoadAnswered
  <1>2. LoadOK(o) /\ o.list \in ListNames
    BY DEF ListsInv, LoadOK
  <1>3. /\ actionRow' \in [ListNames -> SessionRows \cup HouseholdRows \cup {NoRow, Others}]
        /\ \A l \in ListNames : actionRow'[l] \in RowsOf[l] \cup {NoRow, Others}
        /\ confirming' \in SessionRows \cup {NoRow, Others}
    BY <1>1, <1>2 DEF Over, ListsInv, ListTypes
  <1>4. /\ rowsShown' \in ListSets
        /\ \A l \in ListNames : rowsShown'[l] \subseteq RowsOf[l]
        /\ \A l \in ListNames : l # o.list => rowsShown'[l] = rowsShown[l]
    BY <1>1, <1>2 DEF LoadOK, ListsInv, ListTypes, ListSets
  <1>5. ListTypes'
    BY <1>1, <1>2, <1>3, <1>4 DEF ListsInv, ListTypes
  <1>6. ASSUME NEW l \in ListNames, l \notin stale' PROVE ListFresh(l)'
    <2>1. ListFresh(l)
      BY <1>1, <1>6 DEF ListsInv
    <2>2. CASE WillReload(l)
      BY <1>1, <2>2 DEF ListFresh, WillReload
    <2>3. CASE o.list # l
      <3>1. \A p : p.list = l => (p \in listLoads' <=> p \in listLoads)
        BY <1>1, <2>3
      <3>2. rowsShown'[l] = rowsShown[l] /\ rowsStored' = rowsStored /\ changes' = changes
        BY <1>1, <1>4, <2>3
      <3> QED BY <2>1, <3>1, <3>2 DEF ListFresh, FreshLoad, ShowsStored, WillReload
    <2>4. CASE o.list = l /\ FreshLoad(l)
      <3>1. o.at = "read" /\ rowsShown'[l] = o.seen
        BY <1>1, <1>2, <1>6, <2>4 DEF ListsInv, ListTypes, ListSets
      <3>2. o.seen = rowsStored[l] /\ \A p \in listLoads' : p.list # l
        BY <1>1, <2>4, <3>1 DEF FreshLoad
      <3> QED BY <1>1, <3>1, <3>2 DEF ListFresh, ShowsStored
    <2>5. o.list = l => ~ShowsStored(l)
      BY DEF ShowsStored
    <2> QED BY <2>1, <2>2, <2>3, <2>4, <2>5 DEF ListFresh
  <1> QED BY <1>1, <1>5, <1>6 DEF ListsInv, LoadOK, ChangeOK

\* A row's button, or the dialog's, asks for a change.
LEMMA ChangeKeepsLists ==
    ASSUME ListsInv, NEW l \in ListNames, NEW row \in RowsOf[l] \cup {Others},
           Change(l, row)
    PROVE  ListsInv'
  <1>1. PICK asked : asked = [list |-> l, row |-> row, at |-> "sent", id |-> listBudget["confirms"]]
    OBVIOUS
  <1>2. asked.list = l /\ asked.row = row /\ asked.at = "sent" /\ asked.id = listBudget["confirms"]
    BY <1>1
  <1>3. asked \in [list : ListNames, row : {asked.row}, at : {"sent", "stored"}, id : {asked.id}]
    BY <1>1, <1>2
  <1>4. /\ changes' = changes \cup {asked}
        /\ actionRow' = [actionRow EXCEPT ![l] = row]
        /\ UNCHANGED <<rowsStored, rowsShown, listLoads, tab, confirming, stale>>
    BY <1>1 DEF Change
  <1>5. \A c \in changes' : ChangeOK(c)
    BY <1>3, <1>4 DEF ListsInv, ChangeOK
  <1>6. actionRow \in [ListNames -> SessionRows \cup HouseholdRows \cup {NoRow, Others}]
        /\ (\A m \in ListNames : actionRow[m] \in RowsOf[m] \cup {NoRow, Others})
        /\ tab \in {"profile", "security", "household"}
        /\ confirming \in SessionRows \cup {NoRow, Others}
    BY DEF ListsInv, ListTypes
  <1>7. row \in SessionRows \cup HouseholdRows \cup {NoRow, Others}
    BY DEF RowsOf, ListNames
  <1>8. actionRow' \in [ListNames -> SessionRows \cup HouseholdRows \cup {NoRow, Others}]
        /\ (\A m \in ListNames : actionRow'[m] \in RowsOf[m] \cup {NoRow, Others})
    BY <1>4, <1>6, <1>7
  <1> QED BY <1>4, <1>5, <1>6, <1>8, QuietKeepsLists

LEMMA AsksKeepLists ==
    ASSUME ListsInv, AskEndSession \/ CancelEndSession \/ ConfirmSessionAction \/ RemoveMemberOrInvite
    PROVE  ListsInv'
  <1>0. /\ rowsShown["sessions"] \subseteq SessionRows /\ rowsShown["household"] \subseteq HouseholdRows
        /\ RowsOf["sessions"] = SessionRows /\ RowsOf["household"] = HouseholdRows
        /\ "sessions" \in ListNames /\ "household" \in ListNames
    BY DEF ListsInv, ListTypes, ListNames, RowsOf
  <1>1. CASE AskEndSession
    BY <1>0, <1>1, QuietKeepsLists DEF AskEndSession, ListsInv, ListTypes
  <1>2. CASE CancelEndSession
    BY <1>2, QuietKeepsLists DEF CancelEndSession, ListsInv, ListTypes
  <1>3. CASE ConfirmSessionAction
    <2>1. confirming \in SessionRows \cup {Others} /\ Change("sessions", confirming)
      BY <1>3 DEF ConfirmSessionAction, ListsInv, ListTypes
    <2>2. PICK row : row = confirming
      OBVIOUS
    <2> QED BY <1>0, <2>1, <2>2, ChangeKeepsLists
  <1>4. CASE RemoveMemberOrInvite
    <2>1. PICK row \in rowsShown["household"] : Change("household", row)
      BY <1>4 DEF RemoveMemberOrInvite
    <2> QED BY <1>0, <2>1, ChangeKeepsLists
  <1> QED BY <1>1, <1>2, <1>3, <1>4

\* The backend removes a row: the list waits for the answer and its reload.
LEMMA ChangeStoredKeepsLists == ASSUME ListsInv, ChangeStored PROVE ListsInv'
  <1>1. PICK c \in changes :
        /\ rowsStored' = [rowsStored EXCEPT ![c.list] = IF c.row = Others THEN {} ELSE @ \ {c.row}]
        /\ changes' = (changes \ {c}) \cup {[c EXCEPT !.at = "stored"]}
        /\ UNCHANGED <<rowsShown, listLoads, tab, confirming, actionRow, stale>>
    BY DEF ChangeStored
  <1>2. PICK done : done = [c EXCEPT !.at = "stored"]
    OBVIOUS
  <1>3. ChangeOK(c) /\ c.list \in ListNames
    BY DEF ListsInv, ChangeOK
  <1>4. done.list = c.list /\ done.at = "stored" /\ ChangeOK(done)
    <2>1. done.list = c.list /\ done.at = "stored" /\ done.row = c.row /\ done.id = c.id
      BY <1>2, <1>3 DEF ChangeOK
    <2>2. done \in [list : ListNames, row : {c.row}, at : {"sent", "stored"}, id : {c.id}]
      BY <1>2, <1>3 DEF ChangeOK
    <2> QED BY <2>1, <2>2 DEF ChangeOK
  <1>5. changes' = (changes \ {c}) \cup {done}
    BY <1>1, <1>2
  <1>6. /\ rowsStored' \in ListSets
        /\ \A l \in ListNames : rowsStored'[l] \subseteq rowsStored[l]
        /\ \A l \in ListNames : l # c.list => rowsStored'[l] = rowsStored[l]
    BY <1>1, <1>3 DEF ListsInv, ListTypes, ListSets
  <1>7. ListTypes'
    BY <1>1, <1>6 DEF ListsInv, ListTypes
  <1>8. ASSUME NEW l \in ListNames, l \notin stale PROVE ListFresh(l)'
    <2>1. CASE l = c.list
      BY <1>4, <1>5, <2>1 DEF ListFresh, WillReload
    <2>2. CASE l # c.list
      <3>1. ListFresh(l)
        BY <1>8 DEF ListsInv
      <3>2. rowsStored'[l] = rowsStored[l] /\ WillReload(l)' = WillReload(l)
        BY <1>4, <1>5, <1>6, <2>2 DEF WillReload
      <3> QED BY <1>1, <3>1, <3>2 DEF ListFresh, FreshLoad, ShowsStored
    <2> QED BY <2>1, <2>2
  <1> QED BY <1>1, <1>4, <1>5, <1>7, <1>8 DEF ListsInv, LoadOK, ChangeOK

LEMMA ChangeAnsweredKeepsLists == ASSUME ListsInv, ChangeAnswered PROVE ListsInv'
  <1>1. PICK c \in changes :
        /\ changes' = changes \ {c}
        /\ \/ /\ c.at = "stored"
              /\ listLoads' = ReloadsList(c)
              /\ stale' = (stale \ {c.list}) \cup Overlapping(c.list)
              /\ UNCHANGED <<actionRow, confirming, listBudget>>
           \/ /\ Pay("faults")
              /\ stale' = IF c.at = "stored" THEN stale \cup {c.list} ELSE stale
              /\ Over(c.list, FALSE)
              /\ UNCHANGED listLoads
        /\ UNCHANGED <<rowsStored, rowsShown, tab>>
    BY DEF ChangeAnswered
  <1>2. c.list \in ListNames /\ tab \in {"profile", "security", "household"}
    BY DEF ListsInv, ListTypes, ChangeOK
  <1>3. CASE listLoads' = ReloadsList(c) /\ stale' = (stale \ {c.list}) \cup Overlapping(c.list)
             /\ UNCHANGED <<actionRow, confirming>>
    <2>1. PICK l \in ListNames : l = c.list
      BY <1>2
    <2>2. listLoads' = listLoads \cup {LoadOf(l, "change")}
          /\ stale' = (stale \ {l}) \cup Overlapping(l)
      BY <1>3, <2>1 DEF ReloadsList
    <2>3. changes' \subseteq changes /\ \A d \in changes \ changes' : d.list = l
      BY <1>1, <2>1
    <2> QED BY <1>1, <1>2, <1>3, <2>2, <2>3, LoadBegins
  <1>4. CASE /\ stale' = (IF c.at = "stored" THEN stale \cup {c.list} ELSE stale)
             /\ Over(c.list, FALSE) /\ UNCHANGED listLoads
    <2>1. /\ actionRow' \in [ListNames -> SessionRows \cup HouseholdRows \cup {NoRow, Others}]
          /\ \A l \in ListNames : actionRow'[l] \in RowsOf[l] \cup {NoRow, Others}
          /\ confirming' = confirming
      BY <1>2, <1>4 DEF Over, ListsInv, ListTypes
    <2>2. ListTypes'
      BY <1>1, <1>2, <1>4, <2>1 DEF ListsInv, ListTypes
    <2>3. ASSUME NEW l \in ListNames, l \notin stale' PROVE ListFresh(l)'
      <3>1. ListFresh(l)
        BY <1>4, <2>3 DEF ListsInv
      <3>2. c.list = l => c.at # "stored"
        BY <1>4, <2>3
      <3>3. WillReload(l) => WillReload(l)'
        BY <1>1, <3>2 DEF WillReload
      <3> QED BY <1>1, <1>4, <3>1, <3>3 DEF ListFresh, FreshLoad, ShowsStored
    <2> QED BY <1>1, <1>4, <2>2, <2>3 DEF ListsInv, LoadOK, ChangeOK
  <1> QED BY <1>1, <1>3, <1>4

LEMMA ElsewhereKeepsLists == ASSUME ListsInv, ChangedElsewhere PROVE ListsInv'
  <1>1. PICK l \in ListNames : \E row \in RowsOf[l] :
          /\ rowsStored' = [rowsStored EXCEPT ![l] = IF row \in @ THEN @ \ {row} ELSE @ \cup {row}]
          /\ stale' = stale \cup {l}
    BY DEF ChangedElsewhere
  <1>2. PICK row \in RowsOf[l] :
          /\ rowsStored' = [rowsStored EXCEPT ![l] = IF row \in @ THEN @ \ {row} ELSE @ \cup {row}]
          /\ stale' = stale \cup {l}
    BY <1>1
  <1>3. UNCHANGED <<rowsShown, listLoads, changes, tab, confirming, actionRow>>
    BY DEF ChangedElsewhere
  <1>4. row \in SessionRows \cup HouseholdRows
    BY DEF RowsOf, ListNames
  <1>5. /\ rowsStored' \in ListSets
        /\ \A m \in ListNames : rowsStored'[m] \subseteq RowsOf[m]
        /\ \A m \in ListNames : m # l => rowsStored'[m] = rowsStored[m]
    BY <1>2, <1>4 DEF ListsInv, ListTypes, ListSets
  <1>6. ListTypes'
    BY <1>2, <1>3, <1>5 DEF ListsInv, ListTypes
  <1>7. ASSUME NEW m \in ListNames, m \notin stale' PROVE ListFresh(m)'
    <2>1. ListFresh(m) /\ rowsStored'[m] = rowsStored[m]
      BY <1>2, <1>5, <1>7 DEF ListsInv
    <2> QED BY <1>3, <2>1 DEF ListFresh, FreshLoad, ShowsStored, WillReload
  <1> QED BY <1>3, <1>6, <1>7 DEF ListsInv, LoadOK, ChangeOK

LEMMA ListsSteps == ListsInv /\ [ListsNext]_listVars => ListsInv'
  <1> SUFFICES ASSUME ListsInv, [ListsNext]_listVars PROVE ListsInv'
    OBVIOUS
  <1>1. CASE UNCHANGED listVars
    BY <1>1, QuietKeepsLists DEF listVars, ListsInv, ListTypes
  <1> QED BY <1>1, OpeningKeepsLists, LoadReadKeepsLists, LoadAnsweredKeepsLists, AsksKeepLists,
             ChangeStoredKeepsLists, ChangeAnsweredKeepsLists, ElsewhereKeepsLists DEF ListsNext

LEMMA ListsInvGives == ListsInv => ListsTypeOK /\ ListedIsStored
  <1> SUFFICES ASSUME ListsInv PROVE ListsTypeOK /\ ListedIsStored
    OBVIOUS
  <1>1. \A o \in listLoads : /\ o.list \in ListNames /\ o.at \in {"sent", "read"}
                             /\ o.seen \subseteq RowsOf[o.list] /\ o.after \in {"open", "change"}
    BY DEF ListsInv, LoadOK
  <1>2. \A c \in changes : c.list \in ListNames /\ c.at \in {"sent", "stored"}
    BY DEF ListsInv, ChangeOK
  <1>3. ListsTypeOK
    BY <1>1, <1>2 DEF ListsInv, ListTypes, ListsTypeOK
  <1>4. ListedIsStored
    BY DEF ListsInv, ListFresh, FreshLoad, ShowsStored, WillReload, ListedIsStored
  <1> QED BY <1>3, <1>4

--------------------------------------------------------------------------------
(* The household page: while it is sure, at most one handler is under way, and *)
(* either the one request in flight reads, or has read, what is stored, or the *)
(* page shows it, unless the handler's own answer is what will make it so.     *)
Homes == {None} \cup [in : {TRUE}, invites : 0..MaxHouseholdPresses]
Purse == [{"visits", "presses", "faults", "elsewhere"} -> Nat]

HomeTypes ==
    /\ belongs \in Homes /\ household \in Homes
    /\ householdLoading \in BOOLEAN /\ actionLoading \in BOOLEAN
    /\ inviteOpen \in BOOLEAN /\ unsureHousehold \in BOOLEAN
    /\ householdBudget \in Purse
    /\ householdBudget["visits"] = 0 \/ (householdBudget["visits"] = 1 /\ fetches = {} /\ deeds = {})

FetchOK(f) == f \in [at : {"sent", "read"}, seen : Homes, id : {f.id}]
DeedOK(d) == d \in [what : {"create", "accept", "invite", "leave"},
                    at : {"sent", "stored", "refused", "profile"}, id : {d.id}]

\* An invitation more is one press less: what bounds their number.
SentDeeds == {d \in deeds : d.at = "sent"}
InvitesFit ==
    /\ IsFiniteSet(SentDeeds)
    /\ belongs.invites + Cardinality(SentDeeds) + householdBudget["presses"] <= MaxHouseholdPresses

Tells(d) == IF d.at = "stored"
            THEN /\ d.what = "create" => belongs = Created
                 /\ d.what = "leave" => belongs = None
            ELSE household = belongs
WillShow == \E f \in fetches : /\ fetches = {f} /\ \A d \in deeds : d.at = "profile"
                               /\ f.at = "read" => f.seen = belongs
Shows == /\ fetches = {} /\ \A d \in deeds : Tells(d)
         /\ deeds = {} => household = belongs
HomeSure == ~unsureHousehold => (WillShow \/ Shows) /\ \A d, e \in deeds : d = e

HomeInv ==
    /\ HomeTypes /\ InvitesFit /\ HomeSure
    /\ \A f \in fetches : FetchOK(f)
    /\ \A d \in deeds : DeedOK(d)

LEMMA NamesOfHomes ==
    ASSUME HouseholdPageAssumption
    PROVE  None \in Homes /\ Created \in Homes /\ None.invites = 0 /\ Created.invites = 0
  <1>1. 0 \in 0..MaxHouseholdPresses
    BY DEF HouseholdPageAssumption
  <1> QED BY <1>1 DEF Homes, None, Created

LEMMA InvitesAreNat == ASSUME HouseholdPageAssumption, NEW h \in Homes PROVE h.invites \in Nat
  <1>1. CASE h = None
    BY <1>1, NamesOfHomes
  <1>2. CASE h \in [in : {TRUE}, invites : 0..MaxHouseholdPresses]
    BY <1>2
  <1> QED BY <1>1, <1>2 DEF Homes

LEMMA HomeInit == ASSUME HouseholdPageAssumption, HouseholdPageInit PROVE HomeInv
  <1>1. belongs \in Homes /\ household \in Homes /\ belongs.invites = 0
    BY NamesOfHomes DEF HouseholdPageInit
  <1>2. householdBudget \in Purse /\ householdBudget["presses"] = MaxHouseholdPresses
    BY DEF HouseholdPageInit, Purse, HouseholdPageAssumption
  <1>3. HomeTypes
    BY <1>1, <1>2 DEF HouseholdPageInit, HomeTypes
  <1>4. SentDeeds = {} /\ Cardinality({}) = 0 /\ IsFiniteSet({})
    BY FS_EmptySet DEF SentDeeds, HouseholdPageInit
  <1>5. InvitesFit
    BY <1>1, <1>2, <1>4 DEF InvitesFit, HouseholdPageAssumption
  <1> QED BY <1>3, <1>5 DEF HouseholdPageInit, HomeInv, HomeSure

\* What is paid for is one less, and nothing else.
LEMMA Disbursed ==
    ASSUME householdBudget \in Purse, NEW p \in {"visits", "presses", "faults", "elsewhere"}, Disburse(p)
    PROVE  /\ householdBudget' \in Purse
           /\ householdBudget'[p] = householdBudget[p] - 1 /\ householdBudget[p] > 0
           /\ \A q \in {"visits", "presses", "faults", "elsewhere"} :
                 q # p => householdBudget'[q] = householdBudget[q]
  BY DEF Disburse, Purse

\* Handlers that are over, or no longer merely sent, leave room for invitations.
LEMMA StillFits ==
    ASSUME HouseholdPageAssumption, HomeInv, belongs' \in Homes, belongs'.invites <= belongs.invites,
           householdBudget' \in Purse, householdBudget'["presses"] <= householdBudget["presses"],
           SentDeeds' \subseteq SentDeeds
    PROVE  InvitesFit'
  <1>1. IsFiniteSet(SentDeeds) /\ HomeTypes
    BY DEF HomeInv, InvitesFit
  <1>2. IsFiniteSet(SentDeeds') /\ Cardinality(SentDeeds') <= Cardinality(SentDeeds)
    BY <1>1, FS_Subset
  <1>3. Cardinality(SentDeeds) \in Nat /\ Cardinality(SentDeeds') \in Nat
    BY <1>1, <1>2, FS_CardinalityType
  <1>4. belongs.invites \in Nat /\ belongs'.invites \in Nat
    BY <1>1, InvitesAreNat DEF HomeTypes
  <1>5. householdBudget["presses"] \in Nat /\ householdBudget'["presses"] \in Nat
    BY <1>1 DEF HomeTypes, Purse
  <1> QED BY <1>2, <1>3, <1>4, <1>5 DEF InvitesFit, HomeInv, HouseholdPageAssumption

\* fetchHousehold: alone, it makes the page sure.
LEMMA FetchKeepsHome ==
    ASSUME HouseholdPageAssumption, HomeInv, NEW others, FetchHousehold(others),
           UNCHANGED <<belongs, household>>, actionLoading' \in BOOLEAN, inviteOpen' \in BOOLEAN,
           householdBudget' \in Purse, householdBudget'["visits"] = 0,
           householdBudget'["presses"] <= householdBudget["presses"],
           \A d \in deeds' : DeedOK(d), SentDeeds' \subseteq SentDeeds,
           others = {} => \A d, e \in deeds' : d = e /\ d.at = "profile"
    PROVE  HomeInv'
  <1>1. PICK f : f = [at |-> "sent", seen |-> None,
                      id |-> CHOOSE n \in 1..Cardinality(fetches) + 1 : \A g \in fetches : g.id # n]
    OBVIOUS
  <1>2. f.at = "sent" /\ f.seen = None
    BY <1>1
  <1>3. FetchOK(f)
    <2>1. f = [at |-> "sent", seen |-> None, id |-> f.id]
      BY <1>1
    <2> QED BY <2>1, NamesOfHomes DEF FetchOK
  <1>4. /\ fetches' = fetches \cup {f} /\ householdLoading' = TRUE
        /\ unsureHousehold' = (others # {} \/ fetches # {})
    BY <1>1 DEF FetchHousehold
  <1>5. HomeTypes'
    BY <1>4 DEF HomeInv, HomeTypes
  <1>6. InvitesFit'
    <2>1. belongs' \in Homes /\ belongs'.invites <= belongs.invites
      BY InvitesAreNat DEF HomeInv, HomeTypes
    <2> QED BY <2>1, StillFits
  <1>7. HomeSure'
    <2>1. ASSUME ~unsureHousehold' PROVE WillShow' /\ \A d, e \in deeds' : d = e
      <3>1. fetches' = {f} /\ others = {}
        BY <1>4, <2>1
      <3> QED BY <1>2, <3>1 DEF WillShow
    <2> QED BY <2>1 DEF HomeSure
  <1> QED BY <1>3, <1>4, <1>5, <1>6, <1>7 DEF HomeInv, FetchOK, DeedOK

LEMMA VisitKeepsHome == ASSUME HouseholdPageAssumption, HomeInv, VisitHousehold PROVE HomeInv'
  <1>1. householdBudget \in Purse
    BY DEF HomeInv, HomeTypes
  <1>2. /\ householdBudget' \in Purse /\ householdBudget["visits"] > 0
        /\ householdBudget'["visits"] = householdBudget["visits"] - 1
        /\ householdBudget'["presses"] = householdBudget["presses"]
    BY <1>1, Disbursed DEF VisitHousehold
  <1>3. deeds = {} /\ householdBudget["visits"] = 1
    BY <1>2 DEF HomeInv, HomeTypes
  <1>4. deeds' = {} /\ UNCHANGED <<belongs, household, actionLoading, inviteOpen>>
    BY <1>3 DEF VisitHousehold
  <1>5. SentDeeds' \subseteq SentDeeds /\ \A d, e \in deeds' : d = e /\ d.at = "profile"
    BY <1>4 DEF SentDeeds
  <1>6. \A d \in deeds' : DeedOK(d)
    BY <1>4
  <1>7. actionLoading' \in BOOLEAN /\ inviteOpen' \in BOOLEAN /\ householdBudget["presses"] \in Nat
    BY <1>1, <1>4 DEF HomeInv, HomeTypes, Purse
  <1> QED BY <1>2, <1>3, <1>4, <1>5, <1>6, <1>7, FetchKeepsHome DEF VisitHousehold

\* The page's state changes, and what is asked for and stored stays.
LEMMA QuietKeepsHome ==
    ASSUME HouseholdPageAssumption, HomeInv, UNCHANGED <<belongs, household, fetches, deeds>>,
           householdLoading' \in BOOLEAN, actionLoading' \in BOOLEAN, inviteOpen' \in BOOLEAN,
           unsureHousehold' = unsureHousehold, householdBudget' = householdBudget
    PROVE  HomeInv'
  <1>1. HomeTypes'
    BY DEF HomeInv, HomeTypes
  <1>2. InvitesFit'
    BY DEF HomeInv, InvitesFit, SentDeeds
  <1>3. HomeSure'
    BY DEF HomeInv, HomeSure, WillShow, Shows, Tells
  <1> QED BY <1>1, <1>2, <1>3 DEF HomeInv, FetchOK, DeedOK

LEMMA ReadKeepsHome == ASSUME HouseholdPageAssumption, HomeInv, HouseholdRead PROVE HomeInv'
  <1>1. PICK f \in fetches :
            /\ f.at = "sent"
            /\ fetches' = (fetches \ {f}) \cup {[f EXCEPT !.at = "read", !.seen = belongs]}
            /\ UNCHANGED <<belongs, household, householdLoading, actionLoading, inviteOpen, deeds,
                           unsureHousehold, householdBudget>>
    BY DEF HouseholdRead
  <1>2. PICK g : g = [f EXCEPT !.at = "read", !.seen = belongs]
    OBVIOUS
  <1>3. FetchOK(f) /\ belongs \in Homes
    BY DEF HomeInv, HomeTypes
  <1>4. g.at = "read" /\ g.seen = belongs /\ g.id = f.id /\ FetchOK(g)
    <2>1. g.at = "read" /\ g.seen = belongs /\ g.id = f.id
      BY <1>2, <1>3 DEF FetchOK
    <2>2. g \in [at : {"sent", "read"}, seen : Homes, id : {f.id}]
      BY <1>2, <1>3 DEF FetchOK
    <2> QED BY <2>1, <2>2 DEF FetchOK
  <1>5. fetches' = (fetches \ {f}) \cup {g}
    BY <1>1, <1>2
  <1>6. HomeTypes'
    BY <1>1 DEF HomeInv, HomeTypes
  <1>7. InvitesFit'
    BY <1>1 DEF HomeInv, InvitesFit, SentDeeds
  <1>8. HomeSure'
    <2>1. ASSUME ~unsureHousehold PROVE WillShow' /\ \A d, e \in deeds : d = e
      <3>1. (WillShow \/ Shows) /\ \A d, e \in deeds : d = e
        BY <2>1 DEF HomeInv, HomeSure
      <3>2. fetches = {f} /\ \A d \in deeds : d.at = "profile"
        BY <3>1 DEF WillShow, Shows
      <3>3. fetches' = {g}
        BY <1>5, <3>2
      <3> QED BY <1>1, <1>4, <3>1, <3>2, <3>3 DEF WillShow
    <2> QED BY <1>1, <2>1 DEF HomeSure
  <1> QED BY <1>1, <1>4, <1>5, <1>6, <1>7, <1>8 DEF HomeInv, FetchOK, DeedOK

LEMMA AnsweredKeepsHome == ASSUME HouseholdPageAssumption, HomeInv, HouseholdAnswered PROVE HomeInv'
  <1>1. PICK f \in fetches :
        /\ fetches' = fetches \ {f}
        /\ householdLoading' = FALSE
        /\ \/ f.at = "read" /\ household' = f.seen /\ UNCHANGED <<unsureHousehold, householdBudget>>
           \/ Disburse("faults") /\ household' = None /\ unsureHousehold' = TRUE
        /\ UNCHANGED <<belongs, actionLoading, inviteOpen, deeds>>
    BY DEF HouseholdAnswered
  <1>2. FetchOK(f) /\ householdBudget \in Purse /\ belongs \in Homes
    BY DEF HomeInv, HomeTypes
  <1>3. /\ householdBudget' \in Purse
        /\ householdBudget'["visits"] = householdBudget["visits"]
        /\ householdBudget'["presses"] = householdBudget["presses"]
    BY <1>1, <1>2, Disbursed
  <1>4. household' \in Homes
    BY <1>1, <1>2, NamesOfHomes DEF FetchOK
  <1>5. HomeTypes'
    BY <1>1, <1>3, <1>4 DEF HomeInv, HomeTypes
  <1>6. InvitesFit'
    BY <1>1, <1>3 DEF HomeInv, InvitesFit, SentDeeds
  <1>7. HomeSure'
    <2>1. ASSUME ~unsureHousehold' PROVE Shows' /\ \A d, e \in deeds : d = e
      <3>1. f.at = "read" /\ household' = f.seen /\ ~unsureHousehold
        BY <1>1, <2>1
      <3>2. (WillShow \/ Shows) /\ \A d, e \in deeds : d = e
        BY <3>1 DEF HomeInv, HomeSure
      <3>3. fetches = {f} /\ f.seen = belongs /\ \A d \in deeds : d.at = "profile"
        BY <3>1, <3>2 DEF WillShow, Shows
      <3>4. fetches' = {} /\ household' = belongs'
        BY <1>1, <3>1, <3>3
      <3> QED BY <1>1, <3>2, <3>3, <3>4 DEF Shows, Tells
    <2> QED BY <1>1, <2>1 DEF HomeSure
  <1> QED BY <1>1, <1>5, <1>6, <1>7 DEF HomeInv, FetchOK, DeedOK

\* A button sends its request.
LEMMA BeginKeepsHome ==
    ASSUME HouseholdPageAssumption, HomeInv, NEW what \in {"create", "accept", "invite", "leave"},
           Visible, Begin(what)
    PROVE  HomeInv'
  <1>1. PICK d : d = [what |-> what, at |-> "sent", id |-> householdBudget["presses"]]
    OBVIOUS
  <1>2. d.what = what /\ d.at = "sent" /\ d.id = householdBudget["presses"]
    BY <1>1
  <1>3. DeedOK(d)
    BY <1>1, <1>2 DEF DeedOK
  <1>4. /\ deeds' = deeds \cup {d} /\ actionLoading' = TRUE
        /\ unsureHousehold' = (unsureHousehold \/ deeds # {} \/ fetches # {})
        /\ UNCHANGED <<belongs, household, householdLoading, inviteOpen, fetches>>
    BY <1>1 DEF Begin
  <1>5. householdBudget \in Purse /\ householdBudget["visits"] = 0
    BY DEF HomeInv, HomeTypes, Visible
  <1>6. /\ householdBudget' \in Purse /\ householdBudget["presses"] > 0
        /\ householdBudget'["presses"] = householdBudget["presses"] - 1
        /\ householdBudget'["visits"] = 0
    BY <1>5, Disbursed DEF Begin
  <1>7. HomeTypes'
    BY <1>4, <1>6 DEF HomeInv, HomeTypes
  <1>8. InvitesFit'
    <2>1. SentDeeds' = SentDeeds \cup {d}
      BY <1>2, <1>4 DEF SentDeeds
    <2>2. IsFiniteSet(SentDeeds)
      BY DEF HomeInv, InvitesFit
    <2>3. IsFiniteSet(SentDeeds') /\ Cardinality(SentDeeds') \in {Cardinality(SentDeeds), Cardinality(SentDeeds) + 1}
      BY <2>1, <2>2, FS_AddElement
    <2>4. Cardinality(SentDeeds) \in Nat /\ belongs.invites \in Nat /\ householdBudget["presses"] \in Nat
      BY <1>5, <2>2, FS_CardinalityType, InvitesAreNat DEF HomeInv, HomeTypes, Purse
    <2> QED BY <1>4, <1>6, <2>3, <2>4 DEF HomeInv, InvitesFit, HouseholdPageAssumption
  <1>9. HomeSure'
    <2>1. ASSUME ~unsureHousehold' PROVE Shows' /\ \A e, g \in deeds' : e = g
      <3>1. ~unsureHousehold /\ deeds = {} /\ fetches = {} /\ deeds' = {d}
        BY <1>4, <2>1
      <3>2. household = belongs
        BY <3>1 DEF HomeInv, HomeSure, WillShow, Shows
      <3> QED BY <1>2, <1>4, <3>1, <3>2 DEF Shows, Tells
    <2> QED BY <2>1 DEF HomeSure
  <1> QED BY <1>3, <1>4, <1>7, <1>8, <1>9 DEF HomeInv, FetchOK, DeedOK

\* The backend does what a handler asked, or refuses.
LEMMA HandledKeepsHome == ASSUME HouseholdPageAssumption, HomeInv, DeedHandled PROVE HomeInv'
  <1>1. PICK d \in deeds :
        /\ d.at = "sent"
        /\ \/ Accepts(d) /\ belongs' = After(d)
              /\ deeds' = (deeds \ {d}) \cup {[d EXCEPT !.at = "stored"]}
           \/ UNCHANGED belongs
              /\ deeds' = (deeds \ {d}) \cup {[d EXCEPT !.at = "refused"]}
        /\ UNCHANGED <<household, householdLoading, actionLoading, inviteOpen, fetches,
                       unsureHousehold, householdBudget>>
    BY DEF DeedHandled
  <1>2. DeedOK(d) /\ belongs \in Homes /\ householdBudget \in Purse
    BY DEF HomeInv, HomeTypes
  <1>a. PICK at \in {"stored", "refused"} :
           /\ deeds' = (deeds \ {d}) \cup {[d EXCEPT !.at = at]}
           /\ at = "stored" => Accepts(d) /\ belongs' = After(d)
           /\ at = "refused" => belongs' = belongs
    <2> DEFINE Moved(v) == /\ deeds' = (deeds \ {d}) \cup {[d EXCEPT !.at = v]}
                           /\ v = "stored" => Accepts(d) /\ belongs' = After(d)
                           /\ v = "refused" => belongs' = belongs
    <2>1. Moved("stored") \/ Moved("refused")
      BY <1>1
    <2> HIDE DEF Moved
    <2>2. \E v \in {"stored", "refused"} : Moved(v)
      BY <2>1
    <2> QED BY <2>2 DEF Moved
  <1>b. PICK e : e = [d EXCEPT !.at = at]
    OBVIOUS
  <1>3. deeds' = (deeds \ {d}) \cup {e}
    BY <1>a, <1>b
  <1>4. e.at = at /\ e.what = d.what /\ e.id = d.id /\ DeedOK(e)
    <2>1. e.at = at /\ e.what = d.what /\ e.id = d.id
      BY <1>2, <1>b DEF DeedOK
    <2>2. e \in [what : {"create", "accept", "invite", "leave"},
                 at : {"sent", "stored", "refused", "profile"}, id : {d.id}]
      BY <1>2, <1>b DEF DeedOK
    <2> QED BY <2>1, <2>2 DEF DeedOK
  <1>5. IsFiniteSet(SentDeeds) /\ d \in SentDeeds /\ SentDeeds' = SentDeeds \ {d}
    BY <1>1, <1>3, <1>4 DEF SentDeeds, HomeInv, InvitesFit
  <1>6. /\ IsFiniteSet(SentDeeds') /\ Cardinality(SentDeeds') = Cardinality(SentDeeds) - 1
        /\ Cardinality(SentDeeds) \in Nat /\ Cardinality(SentDeeds') \in Nat
    BY <1>5, FS_RemoveElement, FS_CardinalityType
  <1>7. belongs.invites \in Nat /\ householdBudget["presses"] \in Nat
        /\ belongs.invites + Cardinality(SentDeeds) + householdBudget["presses"] <= MaxHouseholdPresses
    BY <1>2, InvitesAreNat DEF HomeInv, InvitesFit, Purse
  <1>8. belongs' \in Homes /\ belongs'.invites \in {0, belongs.invites, belongs.invites + 1}
    <2>1. CASE at = "refused"
      BY <1>2, <1>a, <2>1
    <2>2. CASE at = "stored" /\ d.what = "invite"
      <3>1. belongs.in /\ belongs' = [belongs EXCEPT !.invites = @ + 1]
        BY <1>a, <2>2 DEF Accepts, After
      <3>2. belongs \in [in : {TRUE}, invites : 0..MaxHouseholdPresses]
        <4>1. ~None.in
          BY DEF None
        <4>2. belongs # None
          BY <3>1, <4>1
        <4> QED BY <1>2, <4>2 DEF Homes
      <3>3. belongs.invites + 1 \in 0..MaxHouseholdPresses
        BY <1>6, <1>7 DEF HouseholdPageAssumption
      <3>4. belongs' \in [in : {TRUE}, invites : 0..MaxHouseholdPresses]
            /\ belongs'.invites = belongs.invites + 1
        BY <3>1, <3>2, <3>3
      <3> QED BY <3>4 DEF Homes
    <2>3. CASE at = "stored" /\ d.what # "invite"
      BY <1>2, <1>a, <2>3, NamesOfHomes DEF After, DeedOK
    <2> QED BY <1>a, <2>1, <2>2, <2>3
  <1>9. HomeTypes'
    BY <1>1, <1>8 DEF HomeInv, HomeTypes
  <1>10. InvitesFit'
    BY <1>1, <1>6, <1>7, <1>8 DEF InvitesFit, HouseholdPageAssumption
  <1>11. HomeSure'
    <2>1. ASSUME ~unsureHousehold PROVE Shows' /\ \A g, h \in deeds' : g = h
      <3>1. (WillShow \/ Shows) /\ deeds = {d}
        BY <2>1 DEF HomeInv, HomeSure
      <3>2. fetches = {} /\ household = belongs /\ deeds' = {e}
        BY <1>1, <1>3, <3>1 DEF WillShow, Shows, Tells
      <3>3. Tells(e)'
        BY <1>1, <1>a, <1>4, <3>2 DEF Tells, After
      <3> QED BY <1>1, <3>2, <3>3 DEF Shows
    <2> QED BY <1>1, <2>1 DEF HomeSure
  <1> QED BY <1>1, <1>3, <1>4, <1>9, <1>10, <1>11 DEF HomeInv, FetchOK, DeedOK

\* The answer to a handler, with what it leaves under way.
LEMMA DeedsAfter ==
    ASSUME HomeInv, NEW d \in deeds, d.at = "stored",
           deeds' = (deeds \ {d}) \cup (IF d.what = "invite" THEN {} ELSE {[d EXCEPT !.at = "profile"]})
    PROVE  /\ \A e \in deeds' : DeedOK(e) /\ (e \in deeds \ {d} \/ e.at = "profile")
           /\ SentDeeds' \subseteq SentDeeds
           /\ deeds = {d} => \A e, g \in deeds' : e = g /\ e.at = "profile"
           /\ householdBudget["visits"] = 0
  <1>1. PICK e : e = [d EXCEPT !.at = "profile"]
    OBVIOUS
  <1>2. DeedOK(d)
    BY DEF HomeInv
  <1>3. e.at = "profile" /\ e.id = d.id /\ DeedOK(e)
    <2>1. e.at = "profile" /\ e.id = d.id
      BY <1>1, <1>2 DEF DeedOK
    <2>2. e \in [what : {"create", "accept", "invite", "leave"},
                 at : {"sent", "stored", "refused", "profile"}, id : {d.id}]
      BY <1>1, <1>2 DEF DeedOK
    <2> QED BY <2>1, <2>2 DEF DeedOK
  <1>4. deeds' = (deeds \ {d}) \cup (IF d.what = "invite" THEN {} ELSE {e})
    BY <1>1
  <1>5. \A g \in deeds' : DeedOK(g) /\ (g \in deeds \ {d} \/ g.at = "profile")
    BY <1>3, <1>4 DEF HomeInv
  <1>6. SentDeeds' \subseteq SentDeeds
    BY <1>5 DEF SentDeeds
  <1>7. deeds = {d} => \A f, g \in deeds' : f = g /\ f.at = "profile"
    BY <1>3, <1>4
  <1>8. householdBudget["visits"] = 0
    BY DEF HomeInv, HomeTypes
  <1> QED BY <1>5, <1>6, <1>7, <1>8

LEMMA DeedAnsweredKeepsHome == ASSUME HouseholdPageAssumption, HomeInv, DeedAnswered PROVE HomeInv'
  <1>1. PICK d \in deeds :
        /\ \/ /\ d.at = "stored" /\ Follow(d)
              /\ deeds' = (deeds \ {d}) \cup (IF d.what = "invite" THEN {}
                                              ELSE {[d EXCEPT !.at = "profile"]})
              /\ actionLoading' = (actionLoading /\ d.what # "invite")
              /\ inviteOpen' = (inviteOpen /\ d.what # "invite")
              /\ UNCHANGED householdBudget
           \/ /\ (d.at = "refused" /\ UNCHANGED householdBudget)
                 \/ (d.at \in {"sent", "stored"} /\ Disburse("faults"))
              /\ deeds' = deeds \ {d} /\ actionLoading' = FALSE
              /\ unsureHousehold' = (unsureHousehold \/ d.at = "stored")
              /\ UNCHANGED <<household, householdLoading, inviteOpen, fetches>>
        /\ UNCHANGED belongs
    BY DEF DeedAnswered
  <1>2. DeedOK(d) /\ householdBudget \in Purse /\ householdBudget["presses"] \in Nat
        /\ belongs \in Homes /\ belongs.invites \in Nat
    BY InvitesAreNat DEF HomeInv, HomeTypes, Purse
  <1>3. CASE d.at = "stored" /\ Follow(d)
             /\ deeds' = (deeds \ {d}) \cup (IF d.what = "invite" THEN {}
                                              ELSE {[d EXCEPT !.at = "profile"]})
             /\ actionLoading' = (actionLoading /\ d.what # "invite")
             /\ inviteOpen' = (inviteOpen /\ d.what # "invite")
             /\ UNCHANGED householdBudget
    <2>1. /\ \A e \in deeds' : DeedOK(e) /\ (e \in deeds \ {d} \/ e.at = "profile")
          /\ SentDeeds' \subseteq SentDeeds
          /\ deeds = {d} => \A e, g \in deeds' : e = g /\ e.at = "profile"
          /\ householdBudget["visits"] = 0
      BY <1>3, DeedsAfter
    <2>2. actionLoading' \in BOOLEAN /\ inviteOpen' \in BOOLEAN
      BY <1>3
    <2>3. CASE Reloads(d)
      <3>1. PICK others : others = deeds \ {d} /\ FetchHousehold(others) /\ household' = household
        BY <1>3, <2>3 DEF Follow
      <3>2. others = {} => deeds = {d}
        BY <3>1
      <3> QED BY <1>1, <1>2, <1>3, <2>1, <2>2, <3>1, <3>2, FetchKeepsHome
    <2>4. CASE ~Reloads(d)
      <3>1. /\ d.what \in {"create", "leave"}
            /\ household' = IF d.what = "create" THEN Created ELSE None
            /\ UNCHANGED <<fetches, householdLoading, unsureHousehold>>
        BY <1>2, <1>3, <2>4 DEF Follow, Reloads, DeedOK
      <3>2. household' \in Homes
        BY <3>1, NamesOfHomes
      <3>3. HomeTypes'
        BY <1>1, <1>2, <1>3, <2>1, <2>2, <3>1, <3>2 DEF HomeInv, HomeTypes
      <3>4. InvitesFit'
        BY <1>1, <1>2, <1>3, <2>1, StillFits
      <3>5. HomeSure'
        <4>1. ASSUME ~unsureHousehold PROVE Shows' /\ \A e, g \in deeds' : e = g
          <5>1. (WillShow \/ Shows) /\ deeds = {d}
            BY <4>1 DEF HomeInv, HomeSure
          <5>2. fetches' = {} /\ household' = belongs'
            BY <1>1, <1>3, <3>1, <5>1 DEF WillShow, Shows, Tells
          <5> QED BY <2>1, <5>1, <5>2 DEF Shows, Tells
        <4> QED BY <3>1, <4>1 DEF HomeSure
      <3> QED BY <2>1, <3>1, <3>3, <3>4, <3>5 DEF HomeInv, FetchOK, DeedOK
    <2> QED BY <2>3, <2>4
  <1>4. CASE (UNCHANGED householdBudget \/ Disburse("faults"))
             /\ deeds' = deeds \ {d} /\ actionLoading' = FALSE
             /\ unsureHousehold' = (unsureHousehold \/ d.at = "stored")
             /\ UNCHANGED <<household, householdLoading, inviteOpen, fetches>>
    <2>1. /\ householdBudget' \in Purse /\ householdBudget'["visits"] = householdBudget["visits"]
          /\ householdBudget'["presses"] = householdBudget["presses"]
      BY <1>2, <1>4, Disbursed
    <2>2. HomeTypes'
      BY <1>1, <1>4, <2>1 DEF HomeInv, HomeTypes
    <2>3. SentDeeds' \subseteq SentDeeds
      BY <1>4 DEF SentDeeds
    <2>4. InvitesFit'
      BY <1>1, <1>2, <2>1, <2>3, StillFits
    <2>5. HomeSure'
      <3>1. ASSUME ~unsureHousehold' PROVE (WillShow \/ Shows)' /\ \A e, g \in deeds' : e = g
        <4>1. (WillShow \/ Shows) /\ deeds = {d} /\ d.at # "stored"
          BY <1>4, <3>1 DEF HomeInv, HomeSure
        <4>2. deeds' = {}
          BY <1>4, <4>1
        <4> QED BY <1>1, <1>4, <4>1, <4>2 DEF WillShow, Shows, Tells
      <3> QED BY <3>1 DEF HomeSure
    <2> QED BY <1>4, <2>2, <2>4, <2>5 DEF HomeInv, FetchOK, DeedOK
  <1> QED BY <1>1, <1>3, <1>4

LEMMA ProfileKeepsHome == ASSUME HouseholdPageAssumption, HomeInv, ProfileAnswered PROVE HomeInv'
  <1>1. PICK d \in deeds :
        /\ d.at = "profile"
        /\ deeds' = deeds \ {d} /\ actionLoading' = FALSE
        /\ UNCHANGED <<belongs, household, householdLoading, inviteOpen, fetches,
                       unsureHousehold, householdBudget>>
    BY DEF ProfileAnswered
  <1>2. HomeTypes'
    BY <1>1 DEF HomeInv, HomeTypes
  <1>3. InvitesFit'
    <2>1. SentDeeds' = SentDeeds
      BY <1>1 DEF SentDeeds
    <2> QED BY <1>1, <2>1 DEF HomeInv, InvitesFit
  <1>4. HomeSure'
    <2>1. ASSUME ~unsureHousehold PROVE (WillShow \/ Shows)' /\ \A e, g \in deeds' : e = g
      <3>1. (WillShow \/ Shows) /\ deeds = {d}
        BY <2>1 DEF HomeInv, HomeSure
      <3>2. deeds' = {}
        BY <1>1, <3>1
      <3> QED BY <1>1, <3>1, <3>2 DEF WillShow, Shows, Tells
    <2> QED BY <1>1, <2>1 DEF HomeSure
  <1> QED BY <1>1, <1>2, <1>3, <1>4 DEF HomeInv, FetchOK, DeedOK

LEMMA ElsewhereKeepsHome == ASSUME HouseholdPageAssumption, HomeInv, HouseholdElsewhere PROVE HomeInv'
  <1>1. householdBudget \in Purse /\ belongs \in Homes
    BY DEF HomeInv, HomeTypes
  <1>2. /\ householdBudget' \in Purse /\ householdBudget'["visits"] = householdBudget["visits"]
        /\ householdBudget'["presses"] = householdBudget["presses"]
    BY <1>1, Disbursed DEF HouseholdElsewhere
  <1>3. belongs' \in Homes /\ belongs'.invites = 0 /\ unsureHousehold' = TRUE
        /\ UNCHANGED <<household, householdLoading, actionLoading, inviteOpen, fetches, deeds>>
    BY NamesOfHomes DEF HouseholdElsewhere
  <1>4. HomeTypes'
    BY <1>2, <1>3 DEF HomeInv, HomeTypes
  <1>5. InvitesFit'
    <2>1. belongs'.invites <= belongs.invites /\ SentDeeds' \subseteq SentDeeds
          /\ householdBudget["presses"] \in Nat
      BY <1>1, <1>3, InvitesAreNat DEF SentDeeds, Purse
    <2> QED BY <1>2, <1>3, <2>1, StillFits
  <1> QED BY <1>3, <1>4, <1>5 DEF HomeInv, HomeSure, FetchOK, DeedOK

LEMMA HomeSteps ==
    HouseholdPageAssumption /\ HomeInv /\ [HouseholdPageNext]_householdPageVars => HomeInv'
  <1> SUFFICES ASSUME HouseholdPageAssumption, HomeInv, [HouseholdPageNext]_householdPageVars
               PROVE  HomeInv'
    OBVIOUS
  <1>0. householdLoading \in BOOLEAN /\ actionLoading \in BOOLEAN /\ inviteOpen \in BOOLEAN
    BY DEF HomeInv, HomeTypes
  <1>1. CASE UNCHANGED householdPageVars
    BY <1>0, <1>1, QuietKeepsHome DEF householdPageVars
  <1>2. CASE HandleCreate \/ HandleAcceptInvite \/ HandleInvite \/ HandleLeave
    BY <1>2, BeginKeepsHome
    DEF HandleCreate, HandleAcceptInvite, HandleInvite, HandleLeave, Outside, Inside
  <1>3. CASE ToggleInviteModal
    BY <1>0, <1>3, QuietKeepsHome DEF ToggleInviteModal
  <1> QED BY <1>1, <1>2, <1>3, VisitKeepsHome, ReadKeepsHome, AnsweredKeepsHome, HandledKeepsHome,
             DeedAnsweredKeepsHome, ProfileKeepsHome, ElsewhereKeepsHome DEF HouseholdPageNext

LEMMA HomeInvGives == HomeInv => HouseholdPageTypeOK /\ HouseholdIsStored
  <1> SUFFICES ASSUME HomeInv PROVE HouseholdPageTypeOK /\ HouseholdIsStored
    OBVIOUS
  <1>1. \A f \in fetches : f.at \in {"sent", "read"}
    BY DEF HomeInv, FetchOK
  <1>2. \A d \in deeds : /\ d.what \in {"create", "accept", "invite", "leave"}
                         /\ d.at \in {"sent", "stored", "refused", "profile"}
    BY DEF HomeInv, DeedOK
  <1>3. HouseholdPageTypeOK
    BY <1>1, <1>2 DEF HomeInv, HomeTypes, Homes, HouseholdPageTypeOK
  <1>4. HouseholdIsStored
    BY DEF HomeInv, HomeSure, WillShow, Shows, Tells, HouseholdIsStored
  <1> QED BY <1>3, <1>4

--------------------------------------------------------------------------------
(* The second factor: the account's primary method is always one it has, and a *)
(* secret on screen is the pending one or the one in force, unless the page    *)
(* was told it cannot know or the answer on its way will replace the secret.   *)
Codes == 0..MaxSecrets + 1
MfaBounds == [{"secrets", "presses", "elsewhere", "faults"} -> Nat]

MfaTypes ==
    /\ account \in [enabled : BOOLEAN, method : Methods \cup {"none"}, totp : Codes,
                    passkey : BOOLEAN, pending : Codes]
    /\ mfaProfile \in [enabled : BOOLEAN, method : Methods \cup {"none"}, totp : Codes,
                       passkey : BOOLEAN, pending : Codes]
    /\ secret \in Codes /\ code \in Codes /\ codeFor \in Codes /\ tried \in Codes
    /\ entry \in BOOLEAN /\ unseen \in BOOLEAN /\ candidate \in Methods
    /\ handler \in [kind : Kinds \cup {"none"}, at : {"idle", "asked", "done", "refused"}, code : Codes]
    /\ handler = Ready \/ (handler.kind \in Kinds /\ handler.at \in {"asked", "done", "refused"})
    /\ prompt \in Methods \cup {"none"} /\ labelAsked \subseteq Methods
    /\ secret # 0 => entry
    /\ left \in MfaBounds /\ left["secrets"] <= MaxSecrets

\* PrimaryUsable, without the CASE.
Usable(a) == a.enabled => \/ a.method = "totp" /\ a.totp # 0
                          \/ a.method = "passkey" /\ a.passkey
SecretKnown ==
    secret # 0 /\ ~unseen /\ (handler.at = "done" => handler.kind = "primary")
        => secret \in {account.pending, account.totp}

MfaInv == MfaTypes /\ Usable(account) /\ SecretKnown

LEMMA Code0 == ASSUME MfaAssumption PROVE 0 \in Codes /\ MaxSecrets + 1 \in Codes
  BY DEF MfaAssumption, Codes

LEMMA MfaInit0 == ASSUME MfaAssumption, MfaInit PROVE MfaInv
  <1>0. 0 \in Codes /\ MaxSecrets \in Nat
    BY Code0 DEF MfaAssumption
  <1>1. NoFactor \in [enabled : BOOLEAN, method : Methods \cup {"none"}, totp : Codes,
                      passkey : BOOLEAN, pending : Codes]
    BY <1>0 DEF NoFactor
  <1>2. Ready \in [kind : Kinds \cup {"none"}, at : {"idle", "asked", "done", "refused"}, code : Codes]
    BY <1>0 DEF Ready
  <1>3. left \in MfaBounds
    BY DEF MfaInit, MfaBounds, MfaAssumption
  <1>4. left["secrets"] <= MaxSecrets
    BY <1>0 DEF MfaInit
  <1>5. secret = 0 /\ code = 0 /\ codeFor = 0 /\ tried = 0 /\ entry = FALSE /\ unseen = FALSE
        /\ candidate = "totp" /\ prompt = "none" /\ labelAsked = {} /\ handler = Ready
        /\ account = NoFactor /\ mfaProfile = NoFactor
    BY DEF MfaInit
  <1>6. MfaTypes
    BY <1>0, <1>1, <1>2, <1>3, <1>4, <1>5 DEF MfaTypes, Methods
  <1> QED BY <1>5, <1>6 DEF MfaInv, Usable, NoFactor, SecretKnown

LEMMA Taken ==
    ASSUME left \in MfaBounds, left["secrets"] <= MaxSecrets,
           NEW p \in {"secrets", "presses", "elsewhere", "faults"}, Take(p)
    PROVE  left' \in MfaBounds /\ left'["secrets"] <= MaxSecrets /\ left[p] > 0
  <1>1. left[p] \in Nat /\ left["secrets"] \in Nat /\ left' = [left EXCEPT ![p] = @ - 1] /\ left[p] > 0
    BY DEF Take, MfaBounds
  <1>2. left' \in MfaBounds
    BY <1>1 DEF MfaBounds
  <1>3. left'["secrets"] = left["secrets"] \/ left'["secrets"] = left["secrets"] - 1
    BY <1>1 DEF MfaBounds
  <1>4. MaxSecrets \in Nat
    BY MfaAssumption DEF MfaAssumption
  <1>5. left'["secrets"] <= MaxSecrets
    BY <1>1, <1>3, <1>4
  <1> QED BY <1>1, <1>2, <1>5

\* What the card shows, what was typed and which handler starts.
LEMMA CardKeepsMfa ==
    ASSUME MfaInv, UNCHANGED <<account, secret>>, unseen' = unseen \/ unseen' = TRUE,
           mfaProfile' \in {mfaProfile, account},
           code' \in Codes, codeFor' \in Codes, tried' \in Codes,
           entry' \in BOOLEAN, secret # 0 => entry', candidate' \in Methods,
           handler' \in {handler, Ready} \cup [kind : Kinds, at : {"asked"}, code : Codes],
           handler' # handler /\ handler.at = "done" /\ handler.kind # "primary" => unseen',
           prompt' \in Methods \cup {"none"}, labelAsked' \subseteq Methods,
           left' \in MfaBounds, left'["secrets"] <= MaxSecrets
    PROVE  MfaInv'
  <1>1. handler' \in [kind : Kinds \cup {"none"}, at : {"idle", "asked", "done", "refused"}, code : Codes]
    BY Code0, MfaAssumption DEF MfaInv, MfaTypes, Ready
  <1>2. handler' = Ready \/ (handler'.kind \in Kinds /\ handler'.at \in {"asked", "done", "refused"})
    BY DEF MfaInv, MfaTypes
  <1>3. MfaTypes'
    BY <1>1, <1>2 DEF MfaInv, MfaTypes
  <1>4. Usable(account)'
    BY DEF MfaInv, Usable
  <1>5. SecretKnown'
    BY DEF MfaInv, SecretKnown
  <1> QED BY <1>3, <1>4, <1>5 DEF MfaInv

LEMMA PressKeepsMfa == ASSUME MfaInv, NEW kind \in Kinds, Press(kind) PROVE MfaInv'
  <1>1. /\ handler = Ready /\ left' \in MfaBounds /\ left'["secrets"] <= MaxSecrets
        /\ UNCHANGED <<account, mfaProfile, secret, code, codeFor, tried, candidate>>
        /\ UNCHANGED <<prompt, labelAsked, unseen>>
    BY Taken DEF Press, Working, MfaInv, MfaTypes
  <1>2. /\ handler.at = "idle" /\ code \in Codes /\ codeFor \in Codes /\ tried \in Codes
        /\ candidate \in Methods /\ prompt \in Methods \cup {"none"} /\ labelAsked \subseteq Methods
    BY <1>1 DEF Ready, MfaInv, MfaTypes
  <1>3. entry' \in BOOLEAN /\ (secret # 0 => entry')
    BY DEF Press, MfaInv, MfaTypes
  <1>4. handler' = handler \/ handler' \in [kind : Kinds, at : {"asked"}, code : Codes]
    BY <1>2 DEF Press, Starts
  <1> QED BY <1>1, <1>2, <1>3, <1>4, CardKeepsMfa

LEMMA TypingKeepsMfa ==
    ASSUME MfaInv, TypeCode \/ AutoVerify \/ ChooseCandidate \/ LabelDone \/ LabelPrompt \/ MfaProfileArrives
    PROVE  MfaInv'
  <1>0. /\ code \in Codes /\ codeFor \in Codes /\ tried \in Codes /\ secret \in Codes
        /\ account.totp \in Codes
        /\ candidate \in Methods /\ prompt \in Methods \cup {"none"} /\ labelAsked \subseteq Methods
        /\ entry \in BOOLEAN /\ (secret # 0 => entry)
        /\ left \in MfaBounds /\ left["secrets"] <= MaxSecrets
    BY DEF MfaInv, MfaTypes
  <1>1. CASE TypeCode
    <2>1. code' \in Codes /\ codeFor' = secret /\ left' \in MfaBounds /\ left'["secrets"] <= MaxSecrets
      BY <1>0, <1>1, Taken DEF TypeCode
    <2> QED BY <1>0, <1>1, <2>1, CardKeepsMfa DEF TypeCode
  <1>2. CASE AutoVerify
    <2>1. handler.at = "idle" /\ handler' \in [kind : Kinds, at : {"asked"}, code : Codes]
      BY <1>0, <1>2 DEF AutoVerify, Starts, Working, Ready, Kinds
    <2> QED BY <1>0, <1>2, <2>1, CardKeepsMfa DEF AutoVerify
  <1>3. CASE ChooseCandidate
    <2>1. candidate' \in Methods /\ left' \in MfaBounds /\ left'["secrets"] <= MaxSecrets
      BY <1>0, <1>3, Taken DEF ChooseCandidate
    <2> QED BY <1>0, <1>3, <2>1, CardKeepsMfa DEF ChooseCandidate
  <1>4. CASE LabelDone
    BY <1>0, <1>4, CardKeepsMfa DEF LabelDone
  <1>5. CASE LabelPrompt
    <2>1. prompt' \in Methods /\ labelAsked' \subseteq Methods
      BY <1>0, <1>5 DEF LabelPrompt
    <2> QED BY <1>0, <1>5, <2>1, CardKeepsMfa DEF LabelPrompt
  <1>6. CASE MfaProfileArrives
    <2>1. candidate' \in Methods
      BY <1>0, <1>6 DEF MfaProfileArrives, Methods
    <2>2. entry' \in BOOLEAN /\ (secret # 0 => entry')
      BY <1>6 DEF MfaProfileArrives
    <2> QED BY <1>0, <1>6, <2>1, <2>2, CardKeepsMfa DEF MfaProfileArrives
  <1> QED BY <1>1, <1>2, <1>3, <1>4, <1>5, <1>6

LEMMA FailsKeepsMfa == ASSUME MfaInv, MfaFails PROVE MfaInv'
  <1>0. /\ code \in Codes /\ codeFor \in Codes /\ tried \in Codes /\ 0 \in Codes
        /\ candidate \in Methods /\ prompt \in Methods \cup {"none"} /\ labelAsked \subseteq Methods
        /\ entry \in BOOLEAN /\ (secret # 0 => entry)
        /\ left \in MfaBounds /\ left["secrets"] <= MaxSecrets
    BY Code0, MfaAssumption DEF MfaInv, MfaTypes
  <1>1. code' \in Codes /\ codeFor' \in Codes /\ tried' \in Codes
    BY <1>0 DEF MfaFails
  <1>2. left' \in MfaBounds /\ left'["secrets"] <= MaxSecrets
    BY <1>0, Taken DEF MfaFails
  <1>3. (unseen' = unseen /\ handler.at = "refused") \/ unseen' = TRUE
    BY DEF MfaFails
  <1> QED BY <1>0, <1>1, <1>2, <1>3, CardKeepsMfa DEF MfaFails, HandlerOver

\* What the endpoints make of the account.
Accounts == [enabled : BOOLEAN, method : Methods \cup {"none"}, totp : Codes,
             passkey : BOOLEAN, pending : Codes]

LEMMA WithTotpGives ==
    ASSUME MfaAssumption, NEW h \in Accounts, h.pending # 0, Usable(h)
    PROVE  WithTotp(h) \in Accounts /\ Usable(WithTotp(h))
  <1>1. PICK g : g = [h EXCEPT !.totp = h.pending, !.pending = 0]
    OBVIOUS
  <1>2. g \in Accounts /\ g.totp = h.pending /\ g.method = h.method /\ g.passkey = h.passkey
    BY <1>1, Code0 DEF Accounts
  <1>3. g.enabled = h.enabled
    BY <1>1, Zenon DEF Accounts
  <1>4. PICK m : m = IF g.enabled THEN g.method ELSE "totp"
    OBVIOUS
  <1>5. WithTotp(h) = [g EXCEPT !.enabled = TRUE, !.method = m]
    BY <1>1, <1>4, <1>2 DEF WithTotp, Enabled, Accounts
  <1>6. m \in Methods \cup {"none"}
    BY <1>2, <1>4 DEF Accounts, Methods
  <1>7. PICK e : e = [g EXCEPT !.enabled = TRUE, !.method = m]
    OBVIOUS
  <1>8. e \in Accounts /\ e.totp = h.pending /\ e.method = m /\ e.passkey = h.passkey
    BY <1>2, <1>6, <1>7 DEF Accounts
  <1>9. Usable(e)
    <2>1. CASE g.enabled
      BY <1>2, <1>3, <1>4, <1>8, <2>1 DEF Usable
    <2>2. CASE ~g.enabled
      BY <1>4, <1>8, <2>2 DEF Usable
    <2> QED BY <2>1, <2>2
  <1> QED BY <1>5, <1>7, <1>8, <1>9

LEMMA WithPasskeyGives ==
    ASSUME NEW h \in Accounts, Usable(h)
    PROVE  WithPasskey(h) \in Accounts /\ Usable(WithPasskey(h))
  <1>1. PICK g : g = [h EXCEPT !.passkey = TRUE]
    OBVIOUS
  <1>2. g \in Accounts /\ g.totp = h.totp /\ g.method = h.method /\ g.passkey = TRUE
    BY <1>1 DEF Accounts
  <1>3. g.enabled = h.enabled
    BY <1>1, Zenon DEF Accounts
  <1>4. PICK m : m = IF g.enabled THEN g.method ELSE "passkey"
    OBVIOUS
  <1>5. WithPasskey(h) = [g EXCEPT !.enabled = TRUE, !.method = m]
    BY <1>1, <1>4, <1>2 DEF WithPasskey, Enabled, Accounts
  <1>6. m \in Methods \cup {"none"}
    BY <1>2, <1>4 DEF Accounts, Methods
  <1>7. PICK e : e = [g EXCEPT !.enabled = TRUE, !.method = m]
    OBVIOUS
  <1>8. e \in Accounts /\ e.totp = h.totp /\ e.method = m /\ e.passkey = TRUE
    BY <1>2, <1>6, <1>7 DEF Accounts
  <1>9. Usable(e)
    <2>1. CASE g.enabled
      BY <1>2, <1>3, <1>4, <1>8, <2>1 DEF Usable
    <2>2. CASE ~g.enabled
      BY <1>4, <1>8, <2>2 DEF Usable
    <2> QED BY <2>1, <2>2
  <1> QED BY <1>5, <1>7, <1>8, <1>9

LEMMA NoFactorGives == ASSUME MfaAssumption PROVE NoFactor \in Accounts /\ Usable(NoFactor)
  BY Code0 DEF NoFactor, Accounts, Usable

LEMMA AcceptedGives ==
    ASSUME MfaAssumption, MfaInv, handler.kind \in Kinds, Accepted(account, handler),
           handler.kind = "setup" => left["secrets"] > 0
    PROVE  /\ Changed(account, handler) \in Accounts /\ Usable(Changed(account, handler))
           /\ handler.kind = "primary" =>
                  /\ Changed(account, handler).totp = account.totp
                  /\ Changed(account, handler).pending = account.pending
  <1>0. account \in Accounts /\ Usable(account) /\ candidate \in Methods
        /\ left["secrets"] \in Nat /\ left["secrets"] <= MaxSecrets
    BY DEF MfaInv, MfaTypes, Accounts, MfaBounds
  <1>1. CASE handler.kind = "setup"
    <2>1. PICK n : n = MaxSecrets - left["secrets"] + 1
      OBVIOUS
    <2>2. n \in Codes
      BY <1>0, <1>1, <2>1 DEF MfaAssumption, Codes
    <2>3. PICK g : g = [account EXCEPT !.pending = n]
      OBVIOUS
    <2>4. g \in Accounts /\ g.totp = account.totp /\ g.method = account.method
      BY <1>0, <2>2, <2>3 DEF Accounts
    <2>5. g.enabled = account.enabled /\ g.passkey = account.passkey
      BY <1>0, <2>3, Zenon DEF Accounts
    <2>6. Changed(account, handler) = g
      BY <1>1, <2>1, <2>3 DEF Changed
    <2> QED BY <1>0, <1>1, <2>4, <2>5, <2>6 DEF Usable
  <1>2. CASE handler.kind = "verify"
    <2>1. Changed(account, handler) = WithTotp(account) /\ account.pending # 0
      BY <1>2 DEF Changed, Accepted
    <2> QED BY <1>0, <1>2, <2>1, WithTotpGives
  <1>3. CASE handler.kind = "passkey"
    <2>1. Changed(account, handler) = WithPasskey(account)
      BY <1>3 DEF Changed
    <2> QED BY <1>0, <1>3, <2>1, WithPasskeyGives
  <1>4. CASE handler.kind \in {"disableByPasskey", "disableByCode"}
    <2>1. Changed(account, handler) \in {NoFactor, account}
      BY <1>4 DEF Changed
    <2> QED BY <1>0, <1>4, <2>1, NoFactorGives
  <1>5. CASE handler.kind = "primary"
    <2>1. PICK g : g = [account EXCEPT !.enabled = TRUE, !.method = candidate]
      OBVIOUS
    <2>2. Changed(account, handler) = g
      BY <1>5, <2>1 DEF Changed, WithPrimary
    <2>3. g \in Accounts /\ g.totp = account.totp /\ g.method = candidate /\ g.pending = account.pending
      BY <1>0, <2>1 DEF Accounts
    <2>4. g.passkey = account.passkey
      BY <1>0, <2>1, Zenon DEF Accounts
    <2>5. CASE candidate = "passkey"
      <3>1. account.passkey
        BY <1>5, <2>5 DEF Accepted
      <3> QED BY <2>2, <2>3, <2>4, <2>5, <3>1 DEF Usable
    <2>6. CASE candidate = "totp"
      <3>1. account.totp # 0
        BY <1>5, <2>6 DEF Accepted
      <3> QED BY <2>2, <2>3, <2>6, <3>1 DEF Usable
    <2> QED BY <1>0, <2>5, <2>6 DEF Methods
  <1> QED BY <1>1, <1>2, <1>3, <1>4, <1>5 DEF Kinds

LEMMA RequestKeepsMfa == ASSUME MfaAssumption, MfaInv, MfaRequest PROVE MfaInv'
  <1>0. /\ handler.kind \in Kinds /\ handler.at = "asked" /\ account \in Accounts
        /\ handler \in [kind : Kinds \cup {"none"}, at : {"idle", "asked", "done", "refused"}, code : Codes]
        /\ left \in MfaBounds /\ left["secrets"] <= MaxSecrets
        /\ UNCHANGED <<mfaProfile, secret, code, codeFor, entry, tried, candidate, prompt,
                       labelAsked, unseen>>
    BY DEF MfaRequest, MfaInv, MfaTypes, Ready, Accounts
  <1>1. left' \in MfaBounds /\ left'["secrets"] <= MaxSecrets
    BY <1>0, Taken DEF MfaRequest
  <1>2. ASSUME NEW where \in {"done", "refused"}, handler' = [handler EXCEPT !.at = where]
        PROVE  /\ handler' \in [kind : Kinds \cup {"none"}, at : {"idle", "asked", "done", "refused"}, code : Codes]
               /\ handler'.kind = handler.kind /\ handler'.at = where
    BY <1>0, <1>2
  <1>3. CASE Accepted(account, handler)
    <2>1. handler.kind = "setup" => left["secrets"] > 0
      BY <1>0, <1>3, Taken DEF MfaRequest
    <2>2. PICK g : g = Changed(account, handler)
      OBVIOUS
    <2>3. g \in Accounts /\ Usable(g)
          /\ (handler.kind = "primary" => g.totp = account.totp /\ g.pending = account.pending)
      BY <1>0, <1>3, <2>1, <2>2, AcceptedGives
    <2>4. account' = g /\ handler' = [handler EXCEPT !.at = "done"]
      BY <1>3, <2>2 DEF MfaRequest
    <2>5. MfaTypes'
      BY <1>0, <1>1, <1>2, <2>3, <2>4 DEF MfaInv, MfaTypes, Accounts
    <2>6. SecretKnown'
      BY <1>0, <1>2, <2>3, <2>4 DEF MfaInv, SecretKnown
    <2> QED BY <2>3, <2>4, <2>5, <2>6 DEF MfaInv, Usable
  <1>4. CASE ~Accepted(account, handler)
    <2>1. account' = account /\ handler' = [handler EXCEPT !.at = "refused"]
      BY <1>4 DEF MfaRequest
    <2>2. MfaTypes'
      BY <1>0, <1>1, <1>2, <2>1 DEF MfaInv, MfaTypes, Accounts
    <2>3. SecretKnown'
      BY <1>0, <1>2, <2>1 DEF MfaInv, SecretKnown
    <2> QED BY <2>1, <2>2, <2>3 DEF MfaInv, Usable
  <1> QED BY <1>3, <1>4

LEMMA SetupAnsweredKeepsMfa == ASSUME MfaAssumption, MfaInv, SetupAnswered PROVE MfaInv'
  <1>1. secret' = account.pending /\ entry' = TRUE /\ handler' = Ready /\ account.pending \in Codes
        /\ UNCHANGED <<account, mfaProfile, code, codeFor, tried, candidate, prompt, labelAsked,
                       unseen, left>>
    BY DEF SetupAnswered, HandlerOver, MfaInv, MfaTypes
  <1>2. Ready \in [kind : Kinds \cup {"none"}, at : {"idle", "asked", "done", "refused"}, code : Codes]
    BY Code0 DEF Ready
  <1>3. MfaTypes'
    BY <1>1, <1>2 DEF MfaInv, MfaTypes
  <1> QED BY <1>1, <1>3 DEF MfaInv, Usable, SecretKnown

LEMMA AnsweredKeepsMfa == ASSUME MfaAssumption, MfaInv, MfaAnswered PROVE MfaInv'
  <1>0. /\ handler.kind \in Kinds /\ handler.at = "done" /\ account \in Accounts /\ 0 \in Codes
        /\ left \in MfaBounds /\ left["secrets"] <= MaxSecrets
        /\ secret \in Codes /\ tried \in Codes /\ candidate \in Methods /\ entry \in BOOLEAN
        /\ prompt \in Methods \cup {"none"} /\ unseen \in BOOLEAN
    BY Code0 DEF MfaAnswered, MfaInv, MfaTypes, Ready, Accounts
  <1>1. Ready \in [kind : Kinds \cup {"none"}, at : {"idle", "asked", "done", "refused"}, code : Codes]
    BY Code0 DEF Ready
  <1>2. /\ handler' = Ready /\ UNCHANGED <<account, labelAsked>> /\ code' = 0 /\ codeFor' = 0
        /\ secret' \in Codes /\ tried' \in Codes
        /\ secret' # 0 => secret' = secret /\ handler.kind = "primary"
    BY <1>0 DEF MfaAnswered, HandlerOver, ClearsSecret
  <1>3. left' \in MfaBounds /\ left'["secrets"] <= MaxSecrets
    BY <1>0, Taken DEF MfaAnswered
  <1>4. mfaProfile' \in {mfaProfile, account} /\ unseen' \in BOOLEAN
        /\ (secret' # 0 /\ ~unseen' => ~unseen)
    BY <1>0 DEF MfaAnswered
  <1>5. entry' \in BOOLEAN /\ (secret' # 0 => entry')
    BY DEF MfaAnswered
  <1>6. candidate' \in Methods
    BY <1>0 DEF MfaAnswered, Methods
  <1>7. prompt' \in Methods \cup {"none"}
    BY <1>0 DEF MfaAnswered, Methods, NewMethod, Kinds
  <1>8. MfaTypes'
    BY <1>0, <1>1, <1>2, <1>3, <1>4, <1>5, <1>6, <1>7 DEF MfaInv, MfaTypes, Accounts
  <1>9. SecretKnown'
    BY <1>0, <1>2, <1>4 DEF MfaInv, SecretKnown
  <1> QED BY <1>2, <1>8, <1>9 DEF MfaInv, Usable

LEMMA ElsewhereKeepsMfa == ASSUME MfaAssumption, MfaInv, Elsewhere PROVE MfaInv'
  <1>0. account \in Accounts /\ Usable(account)
        /\ left \in MfaBounds /\ left["secrets"] <= MaxSecrets
    BY DEF MfaInv, MfaTypes, Accounts
  <1>1. left' \in MfaBounds /\ left'["secrets"] <= MaxSecrets
    BY <1>0, Taken DEF Elsewhere
  <1>2. account' \in Accounts /\ Usable(account')
    <2>1. CASE account' = [account EXCEPT !.pending = MaxSecrets + 1]
      <3>1. account' \in Accounts /\ account'.totp = account.totp /\ account'.method = account.method
        BY <1>0, <2>1, Code0 DEF Accounts
      <3>2. account'.enabled = account.enabled /\ account'.passkey = account.passkey
        BY <1>0, <2>1, Zenon DEF Accounts
      <3> QED BY <1>0, <3>1, <3>2 DEF Usable
    <2>2. CASE account.pending # 0 /\ account' = WithTotp(account)
      BY <1>0, <2>2, WithTotpGives
    <2>3. CASE account' = NoFactor
      BY <2>3, NoFactorGives
    <2> QED BY <2>1, <2>2, <2>3 DEF Elsewhere
  <1>3. unseen' = TRUE /\ UNCHANGED <<mfaProfile, secret, code, codeFor, entry, tried, candidate,
                                      handler, prompt, labelAsked>>
    BY DEF Elsewhere
  <1>4. MfaTypes'
    BY <1>1, <1>2, <1>3 DEF MfaInv, MfaTypes, Accounts
  <1> QED BY <1>2, <1>3, <1>4 DEF MfaInv, Usable, SecretKnown

LEMMA MfaSteps == MfaAssumption /\ MfaInv /\ [MfaNext]_mfaVars => MfaInv'
  <1> SUFFICES ASSUME MfaAssumption, MfaInv, [MfaNext]_mfaVars PROVE MfaInv'
    OBVIOUS
  <1>1. CASE UNCHANGED mfaVars
    BY <1>1 DEF mfaVars, MfaInv, MfaTypes, Usable, SecretKnown
  <1>2. CASE \E kind \in Kinds : Press(kind)
    BY <1>2, PressKeepsMfa
  <1>3. EnableAuthenticator \/ VerifyAuthenticator \/ EnablePasskey
          \/ DisableMfaWithPasskey \/ DisableMfaWithCode \/ SetPrimaryMfa
        => \E kind \in Kinds : Press(kind)
    BY DEF EnableAuthenticator, VerifyAuthenticator, EnablePasskey, DisableMfaWithPasskey,
           DisableMfaWithCode, SetPrimaryMfa, Kinds
  <1> QED BY <1>1, <1>2, <1>3, TypingKeepsMfa, RequestKeepsMfa, FailsKeepsMfa, SetupAnsweredKeepsMfa,
             AnsweredKeepsMfa, ElsewhereKeepsMfa DEF MfaNext

LEMMA MfaInvGives == MfaInv => MfaTypeOK /\ FactorsAgree
  <1> SUFFICES ASSUME MfaInv PROVE MfaTypeOK /\ FactorsAgree
    OBVIOUS
  <1>1. MfaTypeOK
    BY DEF MfaInv, MfaTypes, MfaTypeOK, Factors, Codes
  <1>2. PrimaryUsable
    BY DEF MfaInv, Usable, PrimaryUsable
  <1>3. SecretIsLive
    BY DEF MfaInv, SecretKnown, SecretIsLive, Working, Ready
  <1> QED BY <1>1, <1>2, <1>3 DEF FactorsAgree

--------------------------------------------------------------------------------
(* The settings: a switch the page can be sure of waits for at most one answer,*)
(* and it and what is stored are the two sides of that flip; a form nobody has *)
(* typed into since its button was pressed waits for what will fill it, or     *)
(* shows what is stored. Before the load ends, what it has read is stored.     *)
Privacy == <<"privacy", "dataSharing">>
PartOf(k) == IF k = Privacy THEN "user" ELSE "preferences"

SwitchTypes ==
    /\ shownSwitch \in [Tried -> BOOLEAN] /\ storedSwitch \in [Tried -> BOOLEAN]
    /\ \A w \in flips : w \in [key : Tried, to : BOOLEAN, at : {"sent", "stored"}, id : {w.id}]
    /\ unsure \subseteq Tried
LoadTypes ==
    /\ settingsLoad \in [at : {"asked", "done", "failed"}, read : SUBSET Parts,
                         switches : [Tried -> BOOLEAN], limits : Values, digest : Values]
    /\ "limits" \in settingsLoad.read => settingsLoad.limits # "none"
    /\ "digest" \in settingsLoad.read => settingsLoad.digest # "none"
SaveStates == [at : {"idle", "sent", "stored"}, value : Values]
FormTypes ==
    /\ typed \in [Forms -> Values] /\ storedForm \in [Forms -> Values]
    /\ saving \in [Forms -> SaveStates] /\ doubtful \subseteq Forms
    /\ \A f \in Forms :
          /\ storedForm[f] # "none"
          /\ saving[f].at = "idle" <=> saving[f] = NotSaving
          /\ saving[f].at # "idle" => saving[f].value # "none"
          /\ typed[f] = "none" => f = "digest" /\ ~Loaded
Purses == [{"moves", "lost"} -> Nat]

SwitchKnown(k) ==
    k \notin unsure =>
       IF Loaded
       THEN /\ \A w, x \in flips : w.key = k /\ x.key = k => w = x
            /\ ~Waits(k) => shownSwitch[k] = storedSwitch[k]
            /\ \A w \in flips : w.key = k =>
                  /\ shownSwitch[k] = w.to
                  /\ w.at = "sent" => storedSwitch[k] = ~w.to
                  /\ w.at = "stored" => storedSwitch[k] = w.to
       ELSE /\ ~Waits(k)
            /\ PartOf(k) \in settingsLoad.read => settingsLoad.switches[k] = storedSwitch[k]

FormKnown(f) ==
    f \notin doubtful =>
       /\ f = "profile" /\ saving[f].at = "idle" => typed[f] = storedForm[f]
       /\ f = "digest" /\ Loaded /\ saving[f].at = "idle" => typed[f] = storedForm[f]
       /\ f = "limits" /\ Loaded =>
             /\ saving[f].at = "idle" => typed[f] \in {storedForm[f], "cleared"}
             /\ saving[f].at # "idle" => typed[f] = saving[f].value
             /\ saving[f].at = "stored" => saving[f].value \in {storedForm[f], "cleared"}
       /\ f # "profile" /\ ~Loaded =>
             /\ saving[f].at = "idle"
             /\ f \in settingsLoad.read =>
                   storedForm[f] = IF f = "limits" THEN settingsLoad.limits ELSE settingsLoad.digest

SettingsInv ==
    /\ SwitchTypes /\ LoadTypes /\ FormTypes /\ budget \in Purses
    /\ \A k \in Tried : SwitchKnown(k)
    /\ \A f \in Forms : FormKnown(f)

LEMMA SettingsInit == ASSUME PreferencesAssumption, PreferencesInit PROVE SettingsInv
  <1>1. DefaultSwitch \in [Tried -> BOOLEAN]
    BY DEF DefaultSwitch
  <1>2. SwitchTypes
    BY <1>1 DEF PreferencesInit, SwitchTypes
  <1>3. LoadTypes
    BY <1>1 DEF PreferencesInit, LoadTypes, Values, Parts
  <1>4. typed = DefaultTyped /\ storedForm = [f \in Forms |-> "old"]
        /\ saving = [f \in Forms |-> NotSaving] /\ doubtful = {} /\ ~Loaded
        /\ settingsLoad.read = {}
    BY DEF PreferencesInit, Loaded
  <1>5. DefaultTyped \in [Forms -> Values]
    BY DEF DefaultTyped, Forms, Values
  <1>6. NotSaving \in SaveStates /\ NotSaving.at = "idle"
    BY DEF NotSaving, SaveStates, Values
  <1>7. FormTypes
    BY <1>4, <1>5, <1>6 DEF FormTypes, Values, DefaultTyped, Forms
  <1>8. budget \in Purses
    BY DEF PreferencesInit, Purses, PreferencesAssumption
  <1>9. \A k \in Tried : SwitchKnown(k)
    BY <1>4 DEF PreferencesInit, SwitchKnown, Waits
  <1>10. \A f \in Forms : FormKnown(f)
    BY <1>4, <1>6 DEF FormKnown, DefaultTyped
  <1> QED BY <1>2, <1>3, <1>7, <1>8, <1>9, <1>10 DEF SettingsInv

LEMMA Spent ==
    ASSUME budget \in Purses, NEW p \in {"moves", "lost"}, Spend(p)
    PROVE  budget' \in Purses
  BY DEF Spend, Purses

\* What leaves the switches, or the forms, alone.
LEMMA SwitchesStay ==
    ASSUME SettingsInv, UNCHANGED <<shownSwitch, storedSwitch, flips, unsure, settingsLoad>>
    PROVE  SwitchTypes' /\ LoadTypes' /\ \A k \in Tried : SwitchKnown(k)'
  BY DEF SettingsInv, SwitchTypes, LoadTypes, SwitchKnown, Waits, Loaded

LEMMA FormsStay ==
    ASSUME SettingsInv, UNCHANGED <<typed, storedForm, saving, doubtful, settingsLoad>>
    PROVE  FormTypes' /\ LoadTypes' /\ \A f \in Forms : FormKnown(f)'
  BY DEF SettingsInv, FormTypes, LoadTypes, FormKnown, Loaded

LEMMA FormStays ==
    ASSUME SettingsInv, NEW f \in Forms, UNCHANGED settingsLoad,
           typed'[f] = typed[f], storedForm'[f] = storedForm[f], saving'[f] = saving[f],
           f \in doubtful => f \in doubtful'
    PROVE  FormKnown(f)'
  BY DEF SettingsInv, FormKnown, Loaded

LEMMA LoadReadsKeeps ==
    ASSUME PreferencesAssumption, SettingsInv, NEW part \in Parts, LoadReads(part) PROVE SettingsInv'
  <1>0. /\ SwitchTypes /\ LoadTypes /\ FormTypes /\ budget \in Purses /\ settingsLoad.at = "asked"
        /\ UNCHANGED <<shownSwitch, storedSwitch, flips, typed, storedForm, saving,
                       unsure, doubtful, budget>>
    BY DEF SettingsInv, LoadReads
  <1>1. PICK s : s = [k \in Tried |->
               CASE part = "preferences" /\ k # <<"privacy", "dataSharing">> -> storedSwitch[k]
                 [] part = "user" /\ k = <<"privacy", "dataSharing">> -> storedSwitch[k]
                 [] OTHER -> settingsLoad.switches[k]]
    OBVIOUS
  <1>2. s \in [Tried -> BOOLEAN]
    BY <1>0, <1>1 DEF SwitchTypes, LoadTypes
  <1>3. \A k \in Tried : s[k] = IF part = PartOf(k) THEN storedSwitch[k] ELSE settingsLoad.switches[k]
    BY <1>1 DEF PartOf, Privacy, Parts
  <1>4. PICK limits : limits = IF part = "limits" THEN storedForm["limits"] ELSE settingsLoad.limits
    OBVIOUS
  <1>5. PICK digest : digest = IF part = "digest" THEN storedForm["digest"] ELSE settingsLoad.digest
    OBVIOUS
  <1>6. settingsLoad' = [settingsLoad EXCEPT !.read = @ \cup {part}, !.switches = s,
                                             !.limits = limits, !.digest = digest]
    BY <1>1, <1>4, <1>5 DEF LoadReads
  <1>7. limits \in Values /\ digest \in Values
    BY <1>0, <1>4, <1>5 DEF LoadTypes, FormTypes, Forms
  <1>8. /\ settingsLoad' \in [at : {"asked", "done", "failed"}, read : SUBSET Parts,
                              switches : [Tried -> BOOLEAN], limits : Values, digest : Values]
        /\ settingsLoad'.at = "asked" /\ settingsLoad'.read = settingsLoad.read \cup {part}
        /\ settingsLoad'.switches = s
        /\ settingsLoad'.limits = limits /\ settingsLoad'.digest = digest
    BY <1>0, <1>2, <1>6, <1>7 DEF LoadTypes
  <1>9. LoadTypes'
    BY <1>0, <1>4, <1>5, <1>8 DEF LoadTypes, FormTypes, Forms
  <1>10. ~Loaded /\ ~Loaded'
    BY <1>0, <1>8 DEF Loaded
  <1>11. SwitchTypes' /\ FormTypes'
    BY <1>0, <1>10 DEF SwitchTypes, FormTypes
  <1>12. ASSUME NEW k \in Tried PROVE SwitchKnown(k)'
    <2>1. SwitchKnown(k)
      BY DEF SettingsInv
    <2> QED BY <1>0, <1>3, <1>8, <1>10, <2>1 DEF SwitchKnown, Waits
  <1>13. ASSUME NEW f \in Forms PROVE FormKnown(f)'
    <2>1. FormKnown(f)
      BY DEF SettingsInv
    <2> QED BY <1>0, <1>4, <1>5, <1>8, <1>10, <2>1 DEF FormKnown, Forms
  <1> QED BY <1>0, <1>9, <1>11, <1>12, <1>13 DEF SettingsInv

LEMMA LoadEndsKeeps == ASSUME PreferencesAssumption, SettingsInv, SettingsLoadEnds PROVE SettingsInv'
  <1>0. /\ SwitchTypes /\ LoadTypes /\ FormTypes /\ budget \in Purses /\ settingsLoad.at = "asked"
        /\ UNCHANGED <<storedSwitch, flips, storedForm, saving, unsure, doubtful>>
        /\ ~Loaded
    BY DEF SettingsInv, SettingsLoadEnds, Loaded
  <1>1. ASSUME NEW where \in {"done", "failed"}, settingsLoad' = [settingsLoad EXCEPT !.at = where]
        PROVE  /\ settingsLoad'.at = where /\ settingsLoad'.read = settingsLoad.read
               /\ settingsLoad'.switches = settingsLoad.switches
               /\ settingsLoad'.limits = settingsLoad.limits /\ settingsLoad'.digest = settingsLoad.digest
               /\ LoadTypes'
    <2>1. /\ settingsLoad' \in [at : {"asked", "done", "failed"}, read : SUBSET Parts,
                                switches : [Tried -> BOOLEAN], limits : Values, digest : Values]
          /\ settingsLoad'.at = where /\ settingsLoad'.read = settingsLoad.read
          /\ settingsLoad'.switches = settingsLoad.switches
          /\ settingsLoad'.limits = settingsLoad.limits /\ settingsLoad'.digest = settingsLoad.digest
      BY <1>0, <1>1 DEF LoadTypes
    <2> QED BY <1>0, <2>1 DEF LoadTypes
  <1>2. CASE settingsLoad' = [settingsLoad EXCEPT !.at = "failed"]
    <2>1. UNCHANGED <<shownSwitch, typed>> /\ Spend("lost") /\ ~Loaded' /\ budget' \in Purses
      BY <1>0, <1>1, <1>2, Spent DEF SettingsLoadEnds, Loaded
    <2>2. SwitchTypes' /\ FormTypes'
      BY <1>0, <2>1 DEF SwitchTypes, FormTypes
    <2>3. ASSUME NEW k \in Tried PROVE SwitchKnown(k)'
      <3>1. SwitchKnown(k)
        BY DEF SettingsInv
      <3> QED BY <1>0, <1>1, <1>2, <2>1, <3>1 DEF SwitchKnown, Waits
    <2>4. ASSUME NEW f \in Forms PROVE FormKnown(f)'
      <3>1. FormKnown(f)
        BY DEF SettingsInv
      <3> QED BY <1>0, <1>1, <1>2, <2>1, <3>1 DEF FormKnown
    <2> QED BY <1>1, <1>2, <2>1, <2>2, <2>3, <2>4 DEF SettingsInv
  <1>3. CASE settingsLoad' = [settingsLoad EXCEPT !.at = "done"]
    <2>1. /\ settingsLoad.read = Parts /\ shownSwitch' = settingsLoad.switches
          /\ typed' = [typed EXCEPT !["limits"] = settingsLoad.limits,
                                    !["digest"] = settingsLoad.digest]
          /\ UNCHANGED budget /\ Loaded'
      BY <1>0, <1>1, <1>3 DEF SettingsLoadEnds, Loaded
    <2>2. SwitchTypes'
      BY <1>0, <2>1 DEF SwitchTypes, LoadTypes
    <2>3. /\ typed' \in [Forms -> Values] /\ typed'["limits"] = settingsLoad.limits
          /\ typed'["digest"] = settingsLoad.digest /\ typed'["profile"] = typed["profile"]
      BY <1>0, <2>1 DEF FormTypes, LoadTypes, Forms
    <2>4. settingsLoad.limits # "none" /\ settingsLoad.digest # "none"
      BY <1>0, <2>1 DEF LoadTypes, Parts
    <2>5. FormTypes'
      BY <1>0, <2>3, <2>4 DEF FormTypes, Forms
    <2>6. ASSUME NEW k \in Tried PROVE SwitchKnown(k)'
      <3>1. SwitchKnown(k) /\ PartOf(k) \in Parts
        BY DEF SettingsInv, PartOf, Parts
      <3> QED BY <1>0, <2>1, <3>1 DEF SwitchKnown, Waits
    <2>7. ASSUME NEW f \in Forms PROVE FormKnown(f)'
      <3>1. FormKnown(f)
        BY DEF SettingsInv
      <3>2. CASE f = "profile"
        BY <1>0, <2>3, <3>1, <3>2 DEF FormKnown
      <3>3. CASE f \in {"limits", "digest"}
        BY <1>0, <2>1, <2>3, <3>1, <3>3 DEF FormKnown, Parts
      <3> QED BY <3>2, <3>3 DEF Forms
    <2> QED BY <1>0, <1>1, <1>3, <2>1, <2>2, <2>5, <2>6, <2>7 DEF SettingsInv
  <1> QED BY <1>2, <1>3 DEF SettingsLoadEnds
LEMMA FlipKeeps ==
    ASSUME PreferencesAssumption, SettingsInv, NEW k \in Switches, Flip(k) PROVE SettingsInv'
  <1>0. /\ SwitchTypes /\ budget \in Purses /\ k \in Tried /\ shownSwitch[k] \in BOOLEAN
        /\ UNCHANGED <<storedSwitch, settingsLoad, typed, storedForm, saving, doubtful>>
        /\ budget' \in Purses /\ Loaded' = Loaded
    BY Spent DEF SettingsInv, Flip, SwitchTypes, Loaded
  <1>1. PICK to : to = ~shownSwitch[k]
    OBVIOUS
  <1>2. PICK w : w = [id |-> budget["moves"], key |-> k, to |-> to, at |-> "sent"]
    OBVIOUS
  <1>3. to \in BOOLEAN
    BY <1>1
  <1>4. w.key = k /\ w.at = "sent" /\ w.to = to
        /\ w \in [key : Tried, to : BOOLEAN, at : {"sent", "stored"}, id : {w.id}]
    BY <1>0, <1>2, <1>3
  <1>5. /\ flips' = flips \cup {w} /\ shownSwitch' = [shownSwitch EXCEPT ![k] = to]
        /\ unsure' = IF Loaded /\ ~Waits(k) THEN unsure ELSE unsure \cup {k}
    BY <1>1, <1>2 DEF Flip
  <1>6. shownSwitch' \in [Tried -> BOOLEAN] /\ shownSwitch'[k] = to
        /\ \A n \in Tried : n # k => shownSwitch'[n] = shownSwitch[n]
    BY <1>0, <1>3, <1>5 DEF SwitchTypes
  <1>7. SwitchTypes'
    BY <1>0, <1>4, <1>5, <1>6 DEF SwitchTypes
  <1>8. ASSUME NEW n \in Tried PROVE SwitchKnown(n)'
    <2>1. SwitchKnown(n)
      BY DEF SettingsInv
    <2>2. CASE n # k
      <3>1. (n \notin unsure' => n \notin unsure) /\ Waits(n)' = Waits(n)
            /\ \A x \in flips' : x.key = n => x \in flips
        BY <1>4, <1>5, <2>2 DEF Waits
      <3> QED BY <1>0, <1>6, <2>1, <2>2, <3>1 DEF SwitchKnown
    <2>3. CASE n = k /\ n \notin unsure'
      <3>1. Loaded /\ ~Waits(k) /\ n \notin unsure
        BY <1>5, <2>3
      <3>2. shownSwitch[k] = storedSwitch[k]
        BY <2>1, <2>3, <3>1 DEF SwitchKnown
      <3>3. storedSwitch[k] = ~to
        BY <1>0, <1>1, <3>2
      <3>4. \A x \in flips' : x.key = k => x = w
        BY <1>5, <3>1 DEF Waits
      <3>5. Waits(k)'
        BY <1>4, <1>5 DEF Waits
      <3> QED BY <1>0, <1>4, <1>6, <2>3, <3>1, <3>3, <3>4, <3>5 DEF SwitchKnown
    <2> QED BY <2>2, <2>3 DEF SwitchKnown
  <1>9. FormTypes' /\ LoadTypes' /\ \A f \in Forms : FormKnown(f)'
    BY <1>0, FormsStay
  <1> QED BY <1>0, <1>7, <1>8, <1>9 DEF SettingsInv

LEMMA FlipStoredKeeps == ASSUME PreferencesAssumption, SettingsInv, FlipStored PROVE SettingsInv'
  <1>0. SwitchTypes
        /\ UNCHANGED <<shownSwitch, settingsLoad, typed, storedForm, saving, unsure, doubtful, budget>>
        /\ Loaded' = Loaded
    BY DEF SettingsInv, FlipStored, Loaded
  <1>1. PICK w \in flips :
          /\ w.at = "sent"
          /\ storedSwitch' = [storedSwitch EXCEPT ![w.key] = w.to]
          /\ flips' = (flips \ {w}) \cup {[w EXCEPT !.at = "stored"]}
    BY DEF FlipStored
  <1>2. PICK x : x = [w EXCEPT !.at = "stored"]
    OBVIOUS
  <1>3. w \in [key : Tried, to : BOOLEAN, at : {"sent", "stored"}, id : {w.id}]
    BY <1>0 DEF SwitchTypes
  <1>4. x \in [key : Tried, to : BOOLEAN, at : {"sent", "stored"}, id : {w.id}]
        /\ x.key = w.key /\ x.at = "stored" /\ x.id = w.id
    BY <1>2, <1>3
  <1>5. x.to = w.to
    BY <1>2, <1>3, Zenon
  <1>6. flips' = (flips \ {w}) \cup {x}
    BY <1>1, <1>2
  <1>7. storedSwitch' \in [Tried -> BOOLEAN] /\ storedSwitch'[w.key] = w.to
        /\ \A n \in Tried : n # w.key => storedSwitch'[n] = storedSwitch[n]
    BY <1>0, <1>1, <1>3 DEF SwitchTypes
  <1>8. x \in [key : Tried, to : BOOLEAN, at : {"sent", "stored"}, id : {x.id}]
    BY <1>4
  <1>9. SwitchTypes'
    BY <1>0, <1>6, <1>7, <1>8 DEF SwitchTypes
  <1>10. ASSUME NEW n \in Tried PROVE SwitchKnown(n)'
    <2>1. SwitchKnown(n)
      BY DEF SettingsInv
    <2>2. CASE n # w.key
      <3>1. Waits(n)' = Waits(n) /\ \A y \in flips' : y.key = n => y \in flips
        BY <1>4, <1>6, <2>2 DEF Waits
      <3> QED BY <1>0, <1>7, <2>1, <2>2, <3>1 DEF SwitchKnown
    <2>3. CASE n = w.key /\ n \notin unsure
      <3>1. Waits(n) /\ Loaded
        BY <2>1, <2>3 DEF Waits, SwitchKnown
      <3>2. shownSwitch[n] = w.to /\ \A y \in flips : y.key = n => y = w
        BY <2>1, <2>3, <3>1 DEF SwitchKnown
      <3>3. Waits(n)' /\ \A y \in flips' : y.key = n => y = x
        BY <1>4, <1>6, <2>3, <3>2 DEF Waits
      <3> QED BY <1>0, <1>4, <1>5, <1>7, <2>3, <3>1, <3>2, <3>3 DEF SwitchKnown
    <2> QED BY <1>0, <2>2, <2>3 DEF SwitchKnown
  <1>11. FormTypes' /\ LoadTypes' /\ \A f \in Forms : FormKnown(f)'
    BY <1>0, FormsStay
  <1> QED BY <1>0, <1>9, <1>10, <1>11 DEF SettingsInv

LEMMA FlipAnsweredKeeps == ASSUME PreferencesAssumption, SettingsInv, FlipAnswered PROVE SettingsInv'
  <1>0. SwitchTypes /\ budget \in Purses
        /\ UNCHANGED <<storedSwitch, settingsLoad, typed, storedForm, saving, doubtful>>
        /\ Loaded' = Loaded
    BY DEF SettingsInv, FlipAnswered, Loaded
  <1>1. PICK w \in flips :
          /\ flips' = flips \ {w}
          /\ \/ w.at = "stored" /\ UNCHANGED <<shownSwitch, unsure, budget>>
             \/ /\ Spend("lost")
                /\ shownSwitch' = [shownSwitch EXCEPT ![w.key] = ~w.to]
                /\ unsure' = IF w.at = "stored" THEN unsure \cup {w.key} ELSE unsure
    BY DEF FlipAnswered, ShownAfterFailure
  <1>2. w.key \in Tried /\ w.to \in BOOLEAN /\ w.at \in {"sent", "stored"}
    BY <1>0 DEF SwitchTypes
  <1>3. PICK back : back = ~w.to
    OBVIOUS
  <1>4. back \in BOOLEAN
    BY <1>3
  <1>5. shownSwitch' = shownSwitch \/ shownSwitch' = [shownSwitch EXCEPT ![w.key] = back]
    BY <1>1, <1>3
  <1>6. shownSwitch' \in [Tried -> BOOLEAN] /\ unsure' \subseteq Tried /\ budget' \in Purses
        /\ unsure \subseteq unsure'
        /\ \A n \in Tried : n # w.key => shownSwitch'[n] = shownSwitch[n]
    BY <1>0, <1>1, <1>2, <1>4, <1>5, Spent DEF SwitchTypes
  <1>7. SwitchTypes'
    BY <1>0, <1>1, <1>6 DEF SwitchTypes
  <1>8. ASSUME NEW n \in Tried PROVE SwitchKnown(n)'
    <2>1. SwitchKnown(n)
      BY DEF SettingsInv
    <2>2. CASE n # w.key
      <3>1. Waits(n)' = Waits(n) /\ \A y \in flips' : y.key = n => y \in flips
        BY <1>1, <2>2 DEF Waits
      <3> QED BY <1>0, <1>6, <2>1, <2>2, <3>1 DEF SwitchKnown
    <2>3. CASE n = w.key /\ n \notin unsure'
      <3>1. Waits(n) /\ Loaded /\ n \notin unsure
        BY <1>6, <2>1, <2>3 DEF Waits, SwitchKnown
      <3>2. \A y \in flips : y.key = n => y = w
        BY <2>1, <2>3, <3>1 DEF SwitchKnown
      <3>3. ~Waits(n)'
        BY <1>1, <3>2 DEF Waits
      <3>4. shownSwitch'[n] = storedSwitch[n]
        <4>1. CASE w.at = "stored" /\ UNCHANGED shownSwitch
          BY <2>1, <2>3, <3>1, <4>1 DEF SwitchKnown
        <4>2. CASE w.at = "sent" /\ shownSwitch' = [shownSwitch EXCEPT ![w.key] = back]
          <5>1. shownSwitch'[n] = back
            BY <1>0, <2>3, <4>2 DEF SwitchTypes
          <5>2. storedSwitch[n] = ~w.to
            BY <2>1, <2>3, <3>1, <4>2 DEF SwitchKnown
          <5> QED BY <1>3, <5>1, <5>2
        <4> QED BY <1>1, <1>2, <1>3, <2>3, <4>1, <4>2
      <3>5. \A y \in flips' : y.key # n
        BY <3>3 DEF Waits
      <3> QED BY <1>0, <3>1, <3>3, <3>4, <3>5 DEF SwitchKnown
    <2> QED BY <2>2, <2>3 DEF SwitchKnown
  <1>9. FormTypes' /\ LoadTypes' /\ \A f \in Forms : FormKnown(f)'
    BY <1>0, FormsStay
  <1> QED BY <1>6, <1>7, <1>8, <1>9 DEF SettingsInv

\* A step of form f leaves the switches and the other forms alone.
LEMMA OneForm ==
    ASSUME SettingsInv, NEW f \in Forms, FormTypes', budget' \in Purses, FormKnown(f)',
           UNCHANGED <<shownSwitch, storedSwitch, flips, unsure, settingsLoad>>,
           \A g \in Forms \ {f} : /\ typed'[g] = typed[g] /\ storedForm'[g] = storedForm[g]
                                  /\ saving'[g] = saving[g] /\ (g \in doubtful => g \in doubtful')
    PROVE  SettingsInv'
  <1>1. \A g \in Forms \ {f} : FormKnown(g)'
    BY FormStays
  <1>2. \A g \in Forms : FormKnown(g)'
    BY <1>1
  <1> QED BY <1>2, SwitchesStay DEF SettingsInv

LEMMA TypeKeeps ==
    ASSUME PreferencesAssumption, SettingsInv, NEW f \in Forms, Type(f) PROVE SettingsInv'
  <1>0. FormTypes /\ budget \in Purses /\ budget' \in Purses
        /\ UNCHANGED <<shownSwitch, storedSwitch, flips, settingsLoad, storedForm, saving, unsure>>
        /\ doubtful' = doubtful \cup {f} /\ Loaded' = Loaded
    BY Spent DEF SettingsInv, Type, Loaded
  <1>1. PICK v \in Field(f) : typed' = [typed EXCEPT ![f] = v]
    BY DEF Type
  <1>2. v \in Values /\ v # "none"
    BY DEF Field, Values
  <1>3. typed' \in [Forms -> Values] /\ typed'[f] = v /\ \A g \in Forms \ {f} : typed'[g] = typed[g]
    BY <1>0, <1>1, <1>2 DEF FormTypes
  <1>4. FormTypes'
    BY <1>0, <1>2, <1>3 DEF FormTypes
  <1>5. FormKnown(f)'
    BY <1>0 DEF FormKnown
  <1> QED BY <1>0, <1>3, <1>4, <1>5, OneForm

LEMMA SaveKeeps ==
    ASSUME PreferencesAssumption, SettingsInv, NEW f \in Forms, SaveForm(f) PROVE SettingsInv'
  <1>0. /\ FormTypes /\ budget' \in Purses /\ Loaded' = Loaded
        /\ typed[f] # "none" /\ typed[f] \in Values
        /\ UNCHANGED <<shownSwitch, storedSwitch, flips, settingsLoad, typed, storedForm, unsure>>
        /\ doubtful' = IF f = "profile" \/ Loaded THEN doubtful \ {f} ELSE doubtful \cup {f}
    BY Spent DEF SettingsInv, SaveForm, CanSave, Loaded, FormTypes
  <1>1. PICK r : r = [at |-> "sent", value |-> typed[f]]
    OBVIOUS
  <1>2. r \in SaveStates /\ r.at = "sent" /\ r.value = typed[f]
    BY <1>0, <1>1 DEF SaveStates
  <1>3. saving' = [saving EXCEPT ![f] = r]
    BY <1>1 DEF SaveForm
  <1>4. saving' \in [Forms -> SaveStates] /\ saving'[f] = r
        /\ \A g \in Forms \ {f} : saving'[g] = saving[g]
    BY <1>0, <1>2, <1>3 DEF FormTypes
  <1>5. r # NotSaving
    BY <1>2 DEF NotSaving
  <1>6. FormTypes'
    BY <1>0, <1>2, <1>4, <1>5 DEF FormTypes
  <1>7. FormKnown(f)'
    BY <1>0, <1>2, <1>4 DEF FormKnown
  <1> QED BY <1>0, <1>4, <1>6, <1>7, OneForm

LEMMA SaveStoredKeeps ==
    ASSUME PreferencesAssumption, SettingsInv, NEW f \in Forms, SaveStored(f) PROVE SettingsInv'
  <1>0. /\ FormTypes /\ budget' \in Purses /\ Loaded' = Loaded /\ saving[f].at = "sent"
        /\ saving[f] \in SaveStates /\ FormKnown(f)
        /\ UNCHANGED <<shownSwitch, storedSwitch, flips, settingsLoad, typed, unsure, doubtful>>
    BY DEF SettingsInv, SaveStored, Loaded, FormTypes
  <1>1. PICK r : r = [saving[f] EXCEPT !.at = "stored"]
    OBVIOUS
  <1>2. r \in SaveStates /\ r.at = "stored" /\ r.value = saving[f].value /\ r # NotSaving
    BY <1>0, <1>1 DEF SaveStates, NotSaving
  <1>3. saving' = [saving EXCEPT ![f] = r]
    BY <1>0, <1>1 DEF SaveStored, FormTypes
  <1>4. saving' \in [Forms -> SaveStates] /\ saving'[f] = r
        /\ \A g \in Forms \ {f} : saving'[g] = saving[g]
    BY <1>0, <1>2, <1>3 DEF FormTypes
  <1>5. saving[f].value \in Values /\ saving[f].value # "none"
    BY <1>0 DEF FormTypes, SaveStates
  <1>6. /\ storedForm' \in [Forms -> Values] /\ storedForm'[f] # "none"
        /\ saving[f].value \in {storedForm'[f], "cleared"}
        /\ \A g \in Forms \ {f} : storedForm'[g] = storedForm[g]
    BY <1>0, <1>5 DEF SaveStored, FormTypes
  <1>7. FormTypes'
    BY <1>0, <1>2, <1>4, <1>5, <1>6 DEF FormTypes
  <1>8. FormKnown(f)'
    BY <1>0, <1>2, <1>4, <1>6 DEF FormKnown
  <1> QED BY <1>0, <1>4, <1>6, <1>7, <1>8, OneForm

LEMMA SaveAnsweredKeeps ==
    ASSUME PreferencesAssumption, SettingsInv, NEW f \in Forms, SaveAnswered(f) PROVE SettingsInv'
  <1>0. /\ FormTypes /\ budget \in Purses /\ Loaded' = Loaded /\ saving[f].at \in {"sent", "stored"}
        /\ saving[f] \in SaveStates /\ FormKnown(f)
        /\ UNCHANGED <<shownSwitch, storedSwitch, flips, settingsLoad, storedForm, unsure>>
    BY DEF SettingsInv, SaveAnswered, Loaded, FormTypes
  <1>1. saving' = [saving EXCEPT ![f] = NotSaving]
    BY DEF SaveAnswered, SavingAfterFailure
  <1>2. NotSaving \in SaveStates /\ NotSaving.at = "idle"
    BY DEF NotSaving, SaveStates, Values
  <1>3. saving' \in [Forms -> SaveStates] /\ saving'[f] = NotSaving
        /\ \A g \in Forms \ {f} : saving'[g] = saving[g]
    BY <1>0, <1>1, <1>2 DEF FormTypes
  <1>4. CASE saving[f].at = "stored" /\ typed' = TypedAfter(f) /\ UNCHANGED <<doubtful, budget>>
    <2>1. typed' \in [Forms -> Values]
          /\ typed'[f] = (IF f = "limits" THEN typed[f] ELSE storedForm[f])
          /\ \A g \in Forms \ {f} : typed'[g] = typed[g]
      BY <1>0, <1>4 DEF TypedAfter, FormTypes
    <2>2. FormTypes'
      BY <1>0, <1>2, <1>3, <1>4, <2>1 DEF FormTypes
    <2>3. FormKnown(f)'
      BY <1>0, <1>2, <1>3, <1>4, <2>1 DEF FormKnown
    <2> QED BY <1>0, <1>3, <1>4, <2>1, <2>2, <2>3, OneForm
  <1>5. CASE Spend("lost") /\ doubtful' = doubtful \cup {f} /\ UNCHANGED typed
    <2>1. FormTypes' /\ budget' \in Purses
      BY <1>0, <1>2, <1>3, <1>5, Spent DEF FormTypes
    <2>2. FormKnown(f)'
      BY <1>5 DEF FormKnown
    <2> QED BY <1>0, <1>3, <1>5, <2>1, <2>2, OneForm
  <1> QED BY <1>4, <1>5 DEF SaveAnswered

LEMMA ProfileArrivesKeeps == ASSUME PreferencesAssumption, SettingsInv, ProfileArrives PROVE SettingsInv'
  <1>0. /\ FormTypes /\ budget \in Purses /\ Loaded' = Loaded /\ "profile" \in Forms
        /\ UNCHANGED <<shownSwitch, storedSwitch, flips, settingsLoad, storedForm, saving,
                       unsure, doubtful, budget>>
        /\ typed' = [typed EXCEPT !["profile"] = storedForm["profile"]]
    BY DEF SettingsInv, ProfileArrives, Loaded, Forms
  <1>1. typed' \in [Forms -> Values] /\ typed'["profile"] = storedForm["profile"]
        /\ \A g \in Forms \ {"profile"} : typed'[g] = typed[g]
    BY <1>0 DEF FormTypes
  <1>2. FormTypes'
    BY <1>0, <1>1 DEF FormTypes
  <1>3. FormKnown("profile")'
    BY <1>0, <1>1 DEF FormKnown
  <1> QED BY <1>0, <1>1, <1>2, <1>3, OneForm

LEMMA SettingsSteps ==
    PreferencesAssumption /\ SettingsInv /\ [PreferencesNext]_preferencesVars => SettingsInv'
  <1> SUFFICES ASSUME PreferencesAssumption, SettingsInv, [PreferencesNext]_preferencesVars
               PROVE  SettingsInv'
    OBVIOUS
  <1>1. CASE UNCHANGED preferencesVars
    BY <1>1, SwitchesStay, FormsStay DEF preferencesVars, SettingsInv
  <1>2. EmailToggle \/ SmsToggle \/ PushToggle \/ InAppToggle \/ PrivacyToggle
        => \E k \in Switches : Flip(k)
    BY DEF EmailToggle, SmsToggle, PushToggle, InAppToggle, PrivacyToggle, Switches
  <1>3. CASE TypeProfile \/ TypeThreshold \/ TypeDigest
    BY <1>3, TypeKeeps DEF TypeProfile, TypeThreshold, TypeDigest, Forms
  <1>4. CASE ProfileSubmit \/ NotificationSave \/ DigestSave
    BY <1>4, SaveKeeps DEF ProfileSubmit, NotificationSave, DigestSave, Forms
  <1> QED BY <1>1, <1>2, <1>3, <1>4, LoadReadsKeeps, LoadEndsKeeps, FlipKeeps, FlipStoredKeeps,
             FlipAnsweredKeeps, SaveStoredKeeps, SaveAnsweredKeeps, ProfileArrivesKeeps
          DEF PreferencesNext

LEMMA SettingsInvGives == SettingsInv => PreferencesTypeOK /\ SettingsAgree
  <1> SUFFICES ASSUME SettingsInv PROVE PreferencesTypeOK /\ SettingsAgree
    OBVIOUS
  <1>1. SwitchTypes /\ LoadTypes /\ FormTypes
    BY DEF SettingsInv
  <1>2. \A w \in flips : w.key \in Tried /\ w.to \in BOOLEAN /\ w.at \in {"sent", "stored"}
    BY <1>1 DEF SwitchTypes
  <1>3. \A f \in Forms : saving[f].at \in {"idle", "sent", "stored"} /\ saving[f].value \in Values
    BY <1>1 DEF FormTypes, SaveStates
  <1>4. Loaded => {typed[f] : f \in Forms} \subseteq Values \ {"none"}
    BY <1>1 DEF FormTypes
  <1>5. {shownSwitch, storedSwitch, settingsLoad.switches} \subseteq [Tried -> BOOLEAN]
        /\ settingsLoad.at \in {"asked", "done", "failed"} /\ settingsLoad.read \subseteq Parts
        /\ {settingsLoad.limits, settingsLoad.digest} \subseteq Values
    BY <1>1 DEF SwitchTypes, LoadTypes
  <1>6. PreferencesTypeOK
    BY <1>1, <1>2, <1>3, <1>4, <1>5 DEF PreferencesTypeOK, SwitchTypes, FormTypes
  <1>7. SwitchesAgree
    BY DEF SettingsInv, SwitchKnown, SwitchesAgree
  <1>8. FormsAgree
    <2> SUFFICES ASSUME Loaded, NEW f \in Forms \ doubtful, saving[f] = NotSaving,
                        ~(f = "limits" /\ typed[f] = "cleared")
                 PROVE  typed[f] = storedForm[f]
      BY DEF FormsAgree
    <2>1. FormKnown(f) /\ saving[f].at = "idle"
      BY <1>1 DEF SettingsInv, FormTypes
    <2> QED BY <2>1 DEF FormKnown, Forms
  <1> QED BY <1>6, <1>7, <1>8 DEF SettingsAgree

--------------------------------------------------------------------------------
(* What the parts of the settings and the household page show.                 *)

(* Whatever openings, refreshes and removals of the settings page overlap, and *)
(* whatever other devices do, a list that is shown and waits for nothing is the*)
(* stored one, unless a load failed or another device changed it.              *)
THEOREM ListsShowWhatIsStored == AccountSpec => []ListedIsStored
  <1>1. AccountInit => ListsInv
    BY ListsInit0 DEF AccountInit
  <1>2. ListsInv /\ [AccountNext]_accountVars => ListsInv'
    <2> SUFFICES ASSUME ListsInv, [AccountNext]_accountVars PROVE ListsInv'
      OBVIOUS
    <2>1. [ListsNext]_listVars
      BY DEF AccountNext, accountVars, settingsVars
    <2> QED BY <2>1, ListsSteps
  <1>3. ListsInv => ListedIsStored
    BY ListsInvGives
  <1> QED BY <1>1, <1>2, <1>3, PTL DEF AccountSpec

(* The household page shows the household the user is in, and its invitations, *)
(* once no fetch and no deed of pages/Household/HouseholdPage is under way.    *)
THEOREM HouseholdShown == AccountSpec => []HouseholdIsStored
  <1>1. AccountInit => HomeInv
    BY HomeInit, HouseholdPageAssumption DEF AccountInit
  <1>2. HomeInv /\ [AccountNext]_accountVars => HomeInv'
    <2> SUFFICES ASSUME HomeInv, [AccountNext]_accountVars PROVE HomeInv'
      OBVIOUS
    <2>1. [HouseholdPageNext]_householdPageVars
      BY DEF AccountNext, accountVars, settingsVars
    <2> QED BY <2>1, HomeSteps, HouseholdPageAssumption
  <1>3. HomeInv => HouseholdIsStored
    BY HomeInvGives
  <1> QED BY <1>1, <1>2, <1>3, PTL DEF AccountSpec

(* Whatever two devices enable, disable and make primary over /auth/mfa, in    *)
(* whatever order, the primary method is one the account has; and the secret on*)
(* screen is one the backend will check a code against.                        *)
THEOREM FactorsWork == AccountSpec => []FactorsAgree
  <1>1. AccountInit => MfaInv
    BY MfaInit0, MfaAssumption DEF AccountInit
  <1>2. MfaInv /\ [AccountNext]_accountVars => MfaInv'
    <2> SUFFICES ASSUME MfaInv, [AccountNext]_accountVars PROVE MfaInv'
      OBVIOUS
    <2>1. [MfaNext]_mfaVars
      BY DEF AccountNext, accountVars, settingsVars
    <2> QED BY <2>1, MfaSteps, MfaAssumption
  <1>3. MfaInv => FactorsAgree
    BY MfaInvGives
  <1> QED BY <1>1, <1>2, <1>3, PTL DEF AccountSpec

(* For any switches, and however flips, saves and their answers overtake one   *)
(* another and the load, the switches and forms of pages/Settings.tsx show what*)
(* is stored, where the page has not been told that it cannot know.            *)
THEOREM SettingsShown == AccountSpec => []SettingsAgree
  <1>1. AccountInit => SettingsInv
    BY SettingsInit, PreferencesAssumption DEF AccountInit
  <1>2. SettingsInv /\ [AccountNext]_accountVars => SettingsInv'
    <2> SUFFICES ASSUME SettingsInv, [AccountNext]_accountVars PROVE SettingsInv'
      OBVIOUS
    <2>1. [PreferencesNext]_preferencesVars
      BY DEF AccountNext, accountVars, settingsVars
    <2> QED BY <2>1, SettingsSteps, PreferencesAssumption
  <1>3. SettingsInv => SettingsAgree
    BY SettingsInvGives
  <1> QED BY <1>1, <1>2, <1>3, PTL DEF AccountSpec

--------------------------------------------------------------------------------
(* The types of everything together. Those of the customer's pages need a fact *)
(* of their own: a request of a conversation carries the mounting it was sent  *)
(* from, and no mounting is used twice but 0, which is never a conversation's. *)
SupportPurses == [{"writes", "elsewhere", "deskReads", "pageReads", "faults"} -> Nat]

RequestTyped(r) ==
    /\ r.what \in Writes \cup {"list", "open", "refresh", "mine", "page", "reread"}
    /\ r.at \in {"sent", "read", "done", "refused"}
    /\ r.ticket \in Tickets \cup {NoTicket}
    /\ r.what \notin {"list", "mine"} => r.ticket \in Tickets
    /\ r.seen \in [Tickets -> Rows] /\ r.mount \in Nat
    /\ r.by = Me /\ r.what \in {"list", "refresh"} \cup AgentWrites => r.tab \in Tabs

RequestMounted(r) ==
    r.by = Customer =>
        /\ r.mount = 0 \/ r.mount > supportBudget["pageReads"]
        /\ r.what # "mine" => r.mount # 0 /\ (r.mount = place.mount => place.at \in Tickets)

PlaceKnown ==
    /\ place.mount \in Nat /\ (place.mount = 0 \/ place.mount > supportBudget["pageReads"])
    /\ shownStatus # NoTicket \/ sending => place.mount # 0

SupportInv ==
    /\ TicketsInv /\ supportBudget \in SupportPurses
    /\ \A r \in requests : RequestTyped(r) /\ RequestMounted(r)
    /\ DeskTypeOK /\ TicketPageTypeOK /\ PlaceKnown

LEMMA NewRowTyped == NewRow \in Rows /\ Unseen \in [Tickets -> Rows]
  BY DEF NewRow, Rows, Statuses, Queues, Unseen

LEMMA SupportInit ==
    ASSUME SupportAssumption, TicketsInit, DeskInit, TicketPageInit PROVE SupportInv
  <1>1. supportBudget \in SupportPurses /\ supportBudget["pageReads"] = MaxPageReads
        /\ MaxPageReads \in Nat /\ requests = {}
    BY DEF TicketsInit, SupportPurses, SupportAssumption
  <1>2. DeskTypeOK
    BY NewRowTyped DEF DeskInit, DeskTypeOK, Tabs, NoPanel
  <1>3. TicketPageTypeOK
    BY DEF TicketPageInit, TicketPageTypeOK
  <1>4. PlaceKnown
    BY <1>1 DEF TicketPageInit, PlaceKnown
  <1> QED BY <1>1, <1>2, <1>3, <1>4, TicketsInvInit DEF SupportInv

LEMMA Charged ==
    ASSUME supportBudget \in SupportPurses,
           NEW p \in {"writes", "elsewhere", "deskReads", "pageReads", "faults"}, Charge(p)
    PROVE  /\ supportBudget' \in SupportPurses
           /\ supportBudget["pageReads"] \in Nat /\ supportBudget'["pageReads"] \in Nat
           /\ supportBudget'["pageReads"] <= supportBudget["pageReads"]
           /\ p = "pageReads" => /\ supportBudget["pageReads"] > 0
                                 /\ supportBudget'["pageReads"] < supportBudget["pageReads"]
  <1>1. supportBudget' = [supportBudget EXCEPT ![p] = supportBudget[p] - 1] /\ supportBudget[p] > 0
        /\ supportBudget[p] \in Nat
    BY DEF Charge, SupportPurses
  <1> QED BY <1>1 DEF SupportPurses

\* The fields of what a page sends.
LEMMA RequestFields ==
    ASSUME NEW by, NEW what, NEW t, NEW from, NEW r, r = Request(by, what, t, from)
    PROVE  /\ r.by = by /\ r.what = what /\ r.ticket = t /\ r.tab = from /\ r.mount = 0
           /\ r.at = "sent" /\ r.seen = Unseen
  BY DEF Request

LEMMA PageRequestFields ==
    ASSUME NEW what, NEW t, NEW mount, NEW r, r = PageRequest(what, t, mount)
    PROVE  /\ r.by = Customer /\ r.what = what /\ r.ticket = t /\ r.mount = mount
           /\ r.at = "sent" /\ r.seen = Unseen
  BY DEF PageRequest, Request

\* Time passes: fewer page reads are left, or a page is mounted anew.
LEMMA MountedStays ==
    ASSUME NEW r, RequestTyped(r), RequestMounted(r),
           supportBudget["pageReads"] \in Nat, supportBudget'["pageReads"] \in Nat,
           supportBudget'["pageReads"] <= supportBudget["pageReads"],
           \/ place' = place
           \/ place'.mount = 0 
           \/ place'.mount = supportBudget["pageReads"] /\ place'.mount # 0
              /\ supportBudget'["pageReads"] < supportBudget["pageReads"]
    PROVE  RequestMounted(r)'
  <1>1. r.mount \in Nat
    BY DEF RequestTyped
  <1> QED BY <1>1 DEF RequestMounted

LEMMA HandlersKeepSupport ==
    ASSUME SupportAssumption, SupportInv, TicketsNext, UNCHANGED <<deskVars, ticketPageVars>>
    PROVE  SupportInv'
  <1>0. /\ TicketsInv /\ supportBudget \in SupportPurses /\ supportBudget["pageReads"] \in Nat
        /\ ticket \in [Tickets -> Rows]
    BY DEF SupportInv, SupportPurses, TicketsInv
  <1>1. supportBudget' \in SupportPurses /\ supportBudget'["pageReads"] \in Nat
        /\ supportBudget'["pageReads"] <= supportBudget["pageReads"]
    <2>1. CASE Charge("elsewhere")
      BY <1>0, <2>1, Charged
    <2>2. CASE UNCHANGED supportBudget
      BY <1>0, <2>2
    <2> QED BY <2>1, <2>2 DEF TicketsNext, HandlerReads, HandlerCommits, HandlerRefuses, ElsewhereActs
  <1>2. place' = place
    BY DEF ticketPageVars
  <1>3. \A r \in requests : RequestTyped(r) /\ RequestMounted(r)'
    BY <1>0, <1>1, <1>2, MountedStays DEF SupportInv
  <1>4. ASSUME NEW r \in requests, NEW at \in {"sent", "read", "done", "refused"},
               NEW seen \in [Tickets -> Rows], NEW q, q = [r EXCEPT !.at = at, !.seen = seen]
        PROVE  RequestTyped(q) /\ RequestMounted(q)'
    <2>1. DOMAIN r = {"by", "what", "ticket", "tab", "mount", "at", "seen", "id"}
      BY <1>0 DEF TicketsInv, RequestShape
    <2>2. q.by = r.by /\ q.what = r.what /\ q.ticket = r.ticket /\ q.tab = r.tab
          /\ q.mount = r.mount /\ q.at = at /\ q.seen = seen
      BY <1>4, <2>1
    <2>3. RequestTyped(r) /\ RequestMounted(r)'
      BY <1>3
    <2> QED BY <2>2, <2>3 DEF RequestTyped, RequestMounted
  <1>5. ASSUME NEW q \in requests' PROVE RequestTyped(q) /\ RequestMounted(q)'
    <2>1. CASE q \in requests
      BY <1>3, <2>1
    <2>2. CASE \E r \in requests : q = [r EXCEPT !.at = IF r.what \in Writes THEN "read" ELSE "done",
                                                 !.seen = ticket]
      BY <1>0, <1>4, <2>2
    <2>3. CASE \E r \in requests : \E at \in {"done", "refused"} :
                  q = [r EXCEPT !.at = at, !.seen = Unseen]
      BY <1>4, <2>3, NewRowTyped
    <2>4. CASE \E by \in {Colleague, Phone}, what \in Writes, t \in Tickets :
                  q = Request(by, what, t, NoTicket)
      <3>1. PICK by \in {Colleague, Phone}, what \in Writes, t \in Tickets :
                  q = Request(by, what, t, NoTicket)
        BY <2>4
      <3>a. Me \notin {Colleague, Phone} /\ Customer \notin {Colleague, Phone}
        BY DEF SupportAssumption, Phone, Customer
      <3>2. q.by # Me /\ q.by # Customer
        <4>1. q.by = by
          BY <3>1, RequestFields
        <4> QED BY <3>a, <4>1
      <3>3. q.what = what /\ q.ticket = t /\ q.mount = 0 /\ q.at = "sent" /\ q.seen = Unseen
        BY <3>1, RequestFields
      <3> QED BY <3>2, <3>3, NewRowTyped DEF RequestTyped, RequestMounted
    <2>5. CASE HandlerReads
      BY <2>1, <2>2, <2>5 DEF HandlerReads, Becomes
    <2>6. CASE HandlerCommits
      BY <2>1, <2>3, <2>6 DEF HandlerCommits, Becomes
    <2>7. CASE HandlerRefuses
      BY <2>1, <2>3, <2>7 DEF HandlerRefuses, Becomes
    <2>8. CASE ElsewhereActs
      BY <2>1, <2>4, <2>8 DEF ElsewhereActs, Writes
    <2> QED BY <2>5, <2>6, <2>7, <2>8 DEF TicketsNext
  <1>6. DeskTypeOK' /\ TicketPageTypeOK'
    BY DEF SupportInv, deskVars, ticketPageVars, DeskTypeOK, TicketPageTypeOK
  <1>7. PlaceKnown'
    BY <1>0, <1>1 DEF SupportInv, ticketPageVars, PlaceKnown
  <1>8. TicketsInv'
    BY <1>0, TicketsStep
  <1> QED BY <1>1, <1>5, <1>6, <1>7, <1>8 DEF SupportInv

\* The agent's dashboard: what it sends is typed, and no customer's.
DeskSent(r) == RequestTyped(r) /\ r.by # Customer

LEMMA DeskSends ==
    ASSUME SupportAssumption, NEW what, NEW t, NEW from,
           \/ what = "list" /\ t = NoTicket /\ from \in Tabs
           \/ what = "open" /\ t \in Tickets
           \/ what \in AgentWrites \cup {"refresh"} /\ t \in Tickets /\ from \in Tabs
    PROVE  DeskSent(Request(Me, what, t, from))
  <1>1. PICK r : r = Request(Me, what, t, from)
    OBVIOUS
  <1>2. /\ r.by = Me /\ r.what = what /\ r.ticket = t /\ r.tab = from /\ r.mount = 0
        /\ r.at = "sent" /\ r.seen = Unseen
    BY <1>1, RequestFields
  <1>3. Me # Customer
    BY DEF SupportAssumption, Customer
  <1>4. DeskSent(r)
    BY <1>2, <1>3, NewRowTyped DEF DeskSent, RequestTyped, Writes, AgentWrites
  <1> QED BY <1>1, <1>4

LEMMA DeskKeepsSupport ==
    ASSUME SupportAssumption, SupportInv, DeskNext, UNCHANGED ticketPageVars PROVE SupportInv'
  <1>0. /\ TicketsInv /\ supportBudget \in SupportPurses /\ supportBudget["pageReads"] \in Nat
        /\ DeskTypeOK /\ \A r \in requests : RequestTyped(r)
    BY DEF SupportInv, SupportPurses
  <1>1. supportBudget' \in SupportPurses /\ supportBudget'["pageReads"] \in Nat
        /\ supportBudget'["pageReads"] <= supportBudget["pageReads"]
    <2>1. CASE \E p \in {"deskReads", "writes", "faults"} : Charge(p)
      BY <1>0, <2>1, Charged
    <2>2. CASE UNCHANGED supportBudget
      BY <1>0, <2>2
    <2> QED BY <2>1, <2>2 DEF DeskNext, OpenDesk, ChooseTab, OpenTicket, ClosePanel, TypeReply,
              HandleReply, HandlePickup, HandleAssign, HandleEscalate, HandleStatusUpdate, PressButton,
              ListAnswered, OpenAnswered, PressAnswered, RefreshAnswered, Lost, ticketVars
  <1>2. deskTab \in Tabs /\ rows.ids \subseteq Tickets /\ panel.id \in Tickets \cup {NoTicket}
        /\ "queue" \in Tabs
    BY <1>0 DEF DeskTypeOK, Tabs
  <1>3. ASSUME NEW what \in AgentWrites, PressButton(what)
        PROVE  (\A q \in requests' : q \in requests \/ DeskSent(q)) /\ DeskTypeOK'
    <2>1. panel.id \in Tickets
      BY <1>2, <1>3 DEF PressButton
    <2>2. DeskSent(Request(Me, what, panel.id, deskTab))
      BY <1>2, <2>1, DeskSends
    <2> QED BY <1>0, <1>3, <2>2 DEF PressButton, DeskTypeOK
  <1>4. ASSUME NEW choice \in Tabs, Load(choice)
        PROVE  (\A q \in requests' : q \in requests \/ DeskSent(q)) /\ DeskTypeOK'
    <2>1. DeskSent(Request(Me, "list", NoTicket, choice))
      BY DeskSends
    <2> QED BY <1>0, <1>4, <2>1 DEF Load, LoadTickets, DeskTypeOK
  <1>5. (\A q \in requests' : q \in requests \/ DeskSent(q)) /\ DeskTypeOK'
    <2>1. CASE OpenDesk \/ ChooseTab
      BY <1>2, <1>4, <2>1 DEF OpenDesk, ChooseTab
    <2>2. CASE OpenTicket
      <3>1. PICK t \in rows.ids : requests' = requests \cup {Request(Me, "open", t, NoTicket)}
        BY <2>2 DEF OpenTicket
      <3>2. DeskSent(Request(Me, "open", t, NoTicket))
        BY <1>2, <3>1, DeskSends
      <3> QED BY <1>0, <2>2, <3>1, <3>2 DEF OpenTicket, DeskTypeOK
    <2>3. CASE ClosePanel \/ TypeReply
      BY <1>0, <2>3, NewRowTyped DEF ClosePanel, TypeReply, DeskTypeOK, NoPanel, ticketVars
    <2>4. CASE HandleReply \/ HandlePickup \/ HandleAssign \/ HandleEscalate \/ HandleStatusUpdate
      BY <1>3, <2>4 DEF HandleReply, HandlePickup, HandleAssign, HandleEscalate, HandleStatusUpdate,
                        AgentWrites
    <2>5. CASE ListAnswered
      <3>1. PICK r \in requests :
              /\ Mine(r) /\ r.what = "list" /\ requests' = requests \ {r}
              /\ \/ rows' = [of |-> r.tab, ids |-> Listed(r.tab, r.seen)] /\ listView' = "shown"
                 \/ listView' = "failed" /\ UNCHANGED rows
              /\ UNCHANGED <<deskTab, panel, opening, box>>
        BY <2>5 DEF ListAnswered
      <3>2. r.tab \in Tabs
        BY <1>0, <3>1 DEF RequestTyped, Mine
      <3>3. rows'.of \in Tabs /\ rows'.ids \subseteq Tickets
        BY <1>0, <3>1, <3>2 DEF Listed, DeskTypeOK
      <3> QED BY <1>0, <3>1, <3>3 DEF DeskTypeOK
    <2>6. CASE OpenAnswered
      <3>1. PICK r \in requests :
              /\ r.what = "open" /\ requests' = requests \ {r}
              /\ \/ Opened(r)
                 \/ opening' = FALSE /\ UNCHANGED <<panel, box>>
              /\ UNCHANGED <<deskTab, rows, listView>>
        BY <2>6 DEF OpenAnswered
      <3>2. r.ticket \in Tickets /\ Seen(r) \in Rows
        BY <1>0, <3>1 DEF RequestTyped, Seen
      <3>3. panel'.id \in Tickets \cup {NoTicket} /\ panel'.row \in Rows
        BY <1>0, <3>1, <3>2 DEF DeskTypeOK, Opened
      <3>4. opening' = FALSE /\ box' \in Tickets \cup {NoTicket}
        BY <1>0, <3>1 DEF DeskTypeOK, Opened
      <3> QED BY <1>0, <3>1, <3>3, <3>4 DEF DeskTypeOK
    <2>7. CASE PressAnswered
      <3>1. PICK r \in requests :
              /\ Mine(r) /\ r.what \in AgentWrites
              /\ requests' = requests \ {r} \/ requests' = (requests \ {r}) \cup {RefreshTicket(r)}
              /\ box' \in {box, NoTicket}
              /\ UNCHANGED <<deskTab, rows, listView, panel, opening>>
        BY <2>7 DEF PressAnswered, Answered
      <3>2. r.ticket \in Tickets /\ r.tab \in Tabs
        BY <1>0, <3>1 DEF RequestTyped, Mine, AgentWrites
      <3>3. DeskSent(RefreshTicket(r))
        BY <3>2, DeskSends DEF RefreshTicket
      <3>4. DeskTypeOK'
        BY <1>0, <3>1 DEF DeskTypeOK
      <3> QED BY <3>1, <3>3, <3>4
    <2>8. CASE RefreshAnswered
      <3>1. PICK r \in requests :
              /\ Mine(r) /\ r.what = "refresh"
              /\ \/ /\ panel' = [id |-> r.ticket, row |-> Seen(r)]
                    /\ requests' = (requests \ {r}) \cup {LoadTickets(r.tab)}
                    /\ listView' = "loading"
                 \/ requests' = requests \ {r} /\ UNCHANGED <<panel, listView>>
              /\ UNCHANGED <<deskTab, rows, opening, box>>
        BY <2>8 DEF RefreshAnswered
      <3>2. r.ticket \in Tickets /\ Seen(r) \in Rows /\ r.tab \in Tabs
        BY <1>0, <3>1 DEF RequestTyped, Seen, Mine
      <3>3. DeskSent(LoadTickets(r.tab))
        BY <3>2, DeskSends DEF LoadTickets
      <3>4. DeskTypeOK'
        BY <1>0, <3>1, <3>2 DEF DeskTypeOK
      <3> QED BY <3>1, <3>3, <3>4
    <2> QED BY <2>1, <2>2, <2>3, <2>4, <2>5, <2>6, <2>7, <2>8 DEF DeskNext
  <1>6. ASSUME NEW q \in requests' PROVE RequestTyped(q) /\ RequestMounted(q)'
    <2>1. CASE q \in requests
      BY <1>0, <1>1, <2>1, MountedStays DEF SupportInv, ticketPageVars
    <2>2. CASE DeskSent(q)
      BY <2>2 DEF DeskSent, RequestMounted
    <2> QED BY <1>5, <2>1, <2>2
  <1>7. TicketPageTypeOK'
    BY DEF SupportInv, ticketPageVars, TicketPageTypeOK
  <1>8. PlaceKnown'
    BY <1>0, <1>1 DEF SupportInv, ticketPageVars, PlaceKnown
  <1>9. TicketsInv'
    BY <1>0, DeskSteps, PagesKeepTickets
  <1> QED BY <1>1, <1>5, <1>6, <1>7, <1>8, <1>9 DEF SupportInv

\* The customer's pages: what is sent carries a mounting that is, or was, a ticket's.
PageSent(r) ==
    /\ RequestTyped(r) /\ r.by = Customer
    /\ r.mount = 0 \/ r.mount > supportBudget'["pageReads"]
    /\ r.what # "mine" => r.mount # 0 /\ (r.mount = place'.mount => place'.at \in Tickets)

LEMMA PageSends ==
    ASSUME SupportAssumption, NEW what, NEW t, NEW mount, mount \in Nat,
           \/ what = "mine" /\ t = NoTicket
           \/ /\ what \in {"page", "reread", "message", "close"} /\ t \in Tickets /\ mount # 0
              /\ mount = place'.mount => place'.at \in Tickets,
           mount = 0 \/ mount > supportBudget'["pageReads"]
    PROVE  PageSent(PageRequest(what, t, mount))
  <1>1. PICK r : r = PageRequest(what, t, mount)
    OBVIOUS
  <1>2. /\ r.by = Customer /\ r.what = what /\ r.ticket = t /\ r.mount = mount
        /\ r.at = "sent" /\ r.seen = Unseen
    BY <1>1, PageRequestFields
  <1>3. Me # Customer
    BY DEF SupportAssumption, Customer
  <1>4. RequestTyped(r)
    BY <1>2, <1>3, NewRowTyped DEF RequestTyped, Writes, CustomerWrites
  <1>5. PageSent(r)
    BY <1>2, <1>4 DEF PageSent
  <1> QED BY <1>1, <1>5

LEMMA PageKeepsSupport ==
    ASSUME SupportAssumption, SupportInv, TicketPageNext, UNCHANGED deskVars PROVE SupportInv'
  <1>0. /\ TicketsInv /\ supportBudget \in SupportPurses
        /\ TicketPageTypeOK /\ PlaceKnown /\ \A r \in requests : RequestTyped(r) /\ RequestMounted(r)
    BY DEF SupportInv
  <1>a. PICK n : n = supportBudget["pageReads"]
    OBVIOUS
  <1>b. n \in Nat
    BY <1>0, <1>a DEF SupportPurses
  <1>1. supportBudget' \in SupportPurses /\ supportBudget'["pageReads"] \in Nat
        /\ supportBudget'["pageReads"] <= n
    <2>1. CASE \E p \in {"pageReads", "writes", "faults"} : Charge(p)
      BY <1>0, <1>a, <2>1, Charged
    <2>2. CASE UNCHANGED supportBudget
      BY <1>0, <1>a, <1>b, <2>2
    <2> QED BY <2>1, <2>2 DEF TicketPageNext, OpenTicketPage, GoToSupport, MineAnswered, OpenMonitor,
              MonitorAnswered, CloseMonitor, SendMessage, CloseMine, Say, SaidAnswered, PageAnswered,
              ticketVars
  <1>m. /\ place.mount \in Nat /\ shownStatus \in Statuses \cup {NoTicket}
        /\ pageLoading \in BOOLEAN /\ sending \in BOOLEAN
        /\ shownStatus # NoTicket \/ sending => place.at \in Tickets /\ place.mount # 0
        /\ place.mount = 0 \/ place.mount > n
    BY <1>0, <1>a DEF TicketPageTypeOK, PlaceKnown
  \* The requests a step leaves, and how pages are mounted.
  <1>2. ASSUME \A q \in requests' : q \in requests \/ PageSent(q),
               \/ place' = place
               \/ place'.mount = 0
               \/ place'.mount = n /\ n # 0 /\ supportBudget'["pageReads"] < n
        PROVE  \A q \in requests' : RequestTyped(q) /\ RequestMounted(q)'
    <2>1. \A q \in requests : RequestTyped(q) /\ RequestMounted(q)'
      BY <1>0, <1>1, <1>2, <1>a, <1>b, MountedStays
    <2>2. \A q : PageSent(q) => RequestTyped(q) /\ RequestMounted(q)'
      BY DEF PageSent, RequestMounted
    <2> QED BY <1>2, <2>1, <2>2
  <1>3. ASSUME place' = place, monitor' \in {"shut", "probing", "shown"}, pageLoading' \in BOOLEAN,
               shownStatus' \in Statuses \cup {NoTicket}, sending' \in BOOLEAN,
               shownStatus' # NoTicket \/ sending' => place.at \in Tickets /\ place.mount # 0
        PROVE  TicketPageTypeOK' /\ PlaceKnown'
    <2>1. place'.at \in Tickets \cup {TheList, Away}
      BY <1>0, <1>3 DEF TicketPageTypeOK
    <2>2. TicketPageTypeOK'
      BY <1>3, <2>1 DEF TicketPageTypeOK
    <2>3. place.mount = 0 \/ place.mount > supportBudget'["pageReads"]
      BY <1>1, <1>b, <1>m
    <2> QED BY <1>3, <1>m, <2>2, <2>3 DEF PlaceKnown
  <1>4. ASSUME NEW where \in Tickets \cup {TheList, Away}, NEW mount \in Nat, Goto(where, mount),
               mount = 0 \/ mount > supportBudget'["pageReads"]
        PROVE  TicketPageTypeOK' /\ PlaceKnown' /\ place'.at = where /\ place'.mount = mount
    BY <1>4 DEF Goto, TicketPageTypeOK, PlaceKnown
  <1>5. /\ \A q \in requests' : RequestTyped(q) /\ RequestMounted(q)'
        /\ TicketPageTypeOK' /\ PlaceKnown'
    <2>1. CASE OpenTicketPage
      <3>1. PICK t \in Tickets :
              Goto(t, n) /\ requests' = requests \cup {PageRequest("page", t, n)}
        BY <1>a, <2>1 DEF OpenTicketPage, GetTicketDetail
      <3>2. n > 0 /\ supportBudget'["pageReads"] < n
        BY <1>0, <1>a, <2>1, Charged DEF OpenTicketPage
      <3>3. TicketPageTypeOK' /\ PlaceKnown' /\ place'.at = t /\ place'.mount = n
        BY <1>1, <1>4, <1>b, <3>1, <3>2
      <3>4. PageSent(PageRequest("page", t, n))
        BY <1>1, <1>b, <3>2, <3>3, PageSends
      <3> QED BY <1>2, <1>b, <3>1, <3>2, <3>3, <3>4
    <2>2. CASE GoToSupport
      <3>1. Goto(TheList, n) /\ requests' = requests \cup {PageRequest("mine", NoTicket, n)}
        BY <1>a, <2>2 DEF GoToSupport, GetTickets
      <3>2. n > 0 /\ supportBudget'["pageReads"] < n
        BY <1>0, <1>a, <2>2, Charged DEF GoToSupport
      <3>3. TicketPageTypeOK' /\ PlaceKnown' /\ place'.mount = n
        BY <1>1, <1>4, <1>b, <3>1, <3>2
      <3>4. PageSent(PageRequest("mine", NoTicket, n))
        BY <1>1, <1>b, <3>2, PageSends
      <3> QED BY <1>2, <1>b, <3>1, <3>2, <3>3, <3>4
    <2>3. CASE MineAnswered
      <3>1. requests' \subseteq requests /\ pageLoading' \in BOOLEAN
            /\ UNCHANGED <<place, shownStatus, sending, monitor>>
        BY <2>3 DEF MineAnswered
      <3> QED BY <1>0, <1>2, <1>3, <1>m, <3>1 DEF TicketPageTypeOK
    <2>4. CASE OpenMonitor \/ MonitorAnswered \/ CloseMonitor
      <3>1. requests' = requests /\ monitor' \in {"shut", "probing", "shown"}
            /\ UNCHANGED <<place, pageLoading, shownStatus, sending>>
        BY <2>4 DEF OpenMonitor, MonitorAnswered, CloseMonitor, ticketVars
      <3> QED BY <1>2, <1>3, <1>m, <3>1
    <2>5. CASE SendMessage \/ CloseMine
      <3>1. PICK what \in {"message", "close"} :
              /\ Say(what) /\ sending' \in {sending, TRUE}
        BY <2>5 DEF SendMessage, CloseMine
      <3>2. /\ requests' = requests \cup {PageRequest(what, place.at, place.mount)}
            /\ UNCHANGED <<place, pageLoading, shownStatus, monitor>>
            /\ shownStatus \in {"open", "resolved"}
        BY <3>1 DEF Say
      <3>3. place.at \in Tickets /\ place.mount # 0
        BY <1>m, <3>2 DEF NoTicket
      <3>4. PageSent(PageRequest(what, place.at, place.mount))
        BY <1>1, <1>b, <1>m, <3>2, <3>3, PageSends
      <3> QED BY <1>0, <1>2, <1>3, <1>m, <3>1, <3>2, <3>3, <3>4 DEF TicketPageTypeOK
    <2>6. CASE SaidAnswered
      <3>1. PICK r \in requests :
              /\ FromPage(r) /\ r.what \in Writes
              /\ \/ requests' = requests \ {r}
                 \/ \E what \in {"page", "reread"} :
                       requests' = (requests \ {r}) \cup {PageRequest(what, r.ticket, r.mount)}
              /\ sending' \in BOOLEAN /\ (sending' => sending)
              /\ UNCHANGED <<place, pageLoading, shownStatus, monitor>>
        <4>1. PICK r \in requests :
              /\ FromPage(r) /\ r.what \in Writes
              /\ \/ /\ requests' = (requests \ {r}) \cup
                          {IF r.what = "close" THEN PageRequest("page", r.ticket, r.mount)
                           ELSE PageRequest("reread", r.ticket, r.mount)}
                    /\ UNCHANGED sending
                 \/ /\ requests' = requests \ {r}
                    /\ sending' = (sending /\ (r.what = "close" \/ ~OfThisPage(r)))
              /\ UNCHANGED <<place, pageLoading, shownStatus, monitor>>
          BY <2>6 DEF SaidAnswered, GetTicketDetail
        <4>2. sending' \in BOOLEAN /\ (sending' => sending)
          <5>1. CASE UNCHANGED sending
            BY <1>m, <5>1
          <5>2. CASE sending' = (sending /\ (r.what = "close" \/ ~OfThisPage(r)))
            BY ONLY <5>2, Zenon
          <5> QED BY <4>1, <5>1, <5>2
        <4>3. \/ requests' = requests \ {r}
              \/ \E what \in {"page", "reread"} :
                    requests' = (requests \ {r}) \cup {PageRequest(what, r.ticket, r.mount)}
          BY <4>1
        <4> QED BY <4>1, <4>2, <4>3
      <3>2. /\ RequestTyped(r) /\ RequestMounted(r) /\ r.by = Customer
            /\ r.what \notin {"list", "mine"}
        BY <1>0, <3>1 DEF FromPage, Writes, AgentWrites, CustomerWrites
      <3>3. /\ r.ticket \in Tickets /\ r.mount \in Nat /\ r.mount # 0 /\ r.mount > n
            /\ (r.mount = place.mount => place.at \in Tickets)
        BY <1>a, <3>2 DEF RequestTyped, RequestMounted
      <3>4. \A what \in {"page", "reread"} : PageSent(PageRequest(what, r.ticket, r.mount))
        BY <1>1, <1>b, <3>1, <3>3, PageSends
      <3>5. \A q \in requests' : q \in requests \/ PageSent(q)
        BY <3>1, <3>4
      <3> QED BY <1>0, <1>2, <1>3, <1>m, <3>1, <3>5 DEF TicketPageTypeOK
    <2>7. CASE PageAnswered
      <3>1. PICK r \in requests :
              /\ FromPage(r) /\ r.what \in {"page", "reread"}
              /\ \/ /\ requests' = requests \ {r}
                    /\ shownStatus' = IF OfThisPage(r) THEN Seen(r).status ELSE shownStatus
                    /\ pageLoading' = (pageLoading /\ ~OfThisPage(r))
                    /\ sending' = RereadEnds(r)
                    /\ UNCHANGED <<place, monitor>>
                 \/ /\ Goto(TheList, 0)
                    /\ requests' = (requests \ {r}) \cup {GetTickets(0)}
                 \/ requests' = requests \ {r} /\ UNCHANGED ticketPageVars
        BY <2>7 DEF PageAnswered
      <3>2. /\ RequestTyped(r) /\ RequestMounted(r) /\ r.by = Customer
            /\ r.what \notin {"list", "mine"}
        BY <1>0, <3>1 DEF FromPage
      <3>3. /\ Seen(r) \in Rows /\ r.mount # 0
            /\ (r.mount = place.mount => place.at \in Tickets)
        BY <3>2 DEF RequestTyped, RequestMounted, Seen
      <3>4. CASE UNCHANGED ticketPageVars /\ requests' = requests \ {r}
        BY <1>0, <1>2, <1>3, <1>m, <3>4 DEF ticketPageVars, TicketPageTypeOK
      <3>5. CASE Goto(TheList, 0) /\ requests' = (requests \ {r}) \cup {GetTickets(0)}
        <4>1. TicketPageTypeOK' /\ PlaceKnown' /\ place'.mount = 0
          BY <1>4, <3>5
        <4>2. PageSent(PageRequest("mine", NoTicket, 0))
          BY <4>1, PageSends
        <4> QED BY <1>2, <3>5, <4>1, <4>2 DEF GetTickets
      <3>6. CASE /\ requests' = requests \ {r}
                 /\ shownStatus' = IF OfThisPage(r) THEN Seen(r).status ELSE shownStatus
                 /\ pageLoading' = (pageLoading /\ ~OfThisPage(r))
                 /\ sending' = RereadEnds(r)
                 /\ UNCHANGED <<place, monitor>>
        <4>1. sending' \in BOOLEAN /\ (sending' => sending) /\ pageLoading' \in BOOLEAN
          BY <1>m, <3>6 DEF RereadEnds
        <4>2. shownStatus' \in Statuses \cup {NoTicket}
          BY <1>m, <3>3, <3>6 DEF Rows
        <4>3. shownStatus' # NoTicket => place.at \in Tickets /\ place.mount # 0
          BY <1>m, <3>3, <3>6 DEF OfThisPage
        <4>4. TicketPageTypeOK' /\ PlaceKnown'
          BY <1>0, <1>3, <1>m, <3>6, <4>1, <4>2, <4>3 DEF TicketPageTypeOK
        <4> QED BY <1>2, <3>6, <4>4
      <3> QED BY <3>1, <3>4, <3>5, <3>6
    <2> QED BY <2>1, <2>2, <2>3, <2>4, <2>5, <2>6, <2>7 DEF TicketPageNext
  <1>6. DeskTypeOK'
    BY DEF SupportInv, deskVars, DeskTypeOK
  <1>7. TicketsInv'
    BY <1>0, TicketPageSteps, PagesKeepTickets
  <1> QED BY <1>1, <1>5, <1>6, <1>7 DEF SupportInv

LEMMA SupportInvGives == SupportInv => TicketsTypeOK /\ DeskTypeOK /\ TicketPageTypeOK
  BY DEF SupportInv, TicketsInv, TicketsTypeOK, RequestTyped

\* The portal's session: whose tokens it holds is told with them.
PortalTyped ==
    /\ PortalTypeOK /\ session = kept
    /\ \A c \in calls : c \in [at : {"refreshing", "sent"}, whose : People, id : {c.id}]

LEMMA PortalKeepsTyped == ASSUME PortalAssumption, PortalTyped, PortalNext PROVE PortalTyped'
  <1>1. /\ session \in [uid : People \cup {"nobody"}, email : People \cup {"nobody"}]
        /\ kept = session /\ (session.uid = "nobody" => session = NoOne)
        /\ fresh \in BOOLEAN /\ routeUser \in BOOLEAN /\ page \in {"login", "waiting", "dashboard"}
        /\ signIns \subseteq People
        /\ \A c \in calls : c \in [at : {"refreshing", "sent"}, whose : People, id : {c.id}]
    BY DEF PortalTyped, PortalTypeOK
  <1>2. ASSUME session' \in [uid : People \cup {"nobody"}, email : People \cup {"nobody"}],
               session'.uid = "nobody" => session' = NoOne, kept' = session',
               fresh' \in BOOLEAN, routeUser' \in BOOLEAN, page' \in {"login", "waiting", "dashboard"},
               signIns' \subseteq People,
               \A c \in calls' : c \in [at : {"refreshing", "sent"}, whose : People, id : {c.id}]
        PROVE  PortalTyped'
    BY <1>2 DEF PortalTyped, PortalTypeOK
  <1>3. ASSUME NEW s, NotifyListeners(s)
        PROVE  routeUser' \in BOOLEAN /\ page' \in {"login", "waiting", "dashboard"}
    BY <1>1, <1>3 DEF NotifyListeners
  <1>4. NoOne \in [uid : People \cup {"nobody"}, email : People \cup {"nobody"}]
    BY DEF NoOne
  <1>5. CASE MountRoute
    BY <1>1, <1>2, <1>3, <1>5 DEF MountRoute
  <1>6. CASE HandleLogin
    BY <1>1, <1>2, <1>6 DEF HandleLogin
  <1>7. CASE LoginAnswered
    <2>1. PICK p \in People :
            /\ signIns' \subseteq signIns /\ calls' = calls
            /\ \/ /\ session' = SessionOf(p) /\ kept' = SessionOf(p) /\ fresh' = TRUE
                  /\ routeUser' = TRUE /\ page' = "dashboard"
               \/ UNCHANGED <<session, kept, fresh, routeUser, page>>
      BY <1>1, <1>7 DEF LoginAnswered
    <2>2. SessionOf(p) \in [uid : People \cup {"nobody"}, email : People \cup {"nobody"}]
          /\ SessionOf(p).uid # "nobody"
      BY DEF SessionOf, PortalAssumption
    <2>3. signIns' \subseteq People /\ calls' = calls
      BY <1>1, <2>1
    <2>4. CASE session' = SessionOf(p) /\ kept' = SessionOf(p) /\ fresh' = TRUE
               /\ routeUser' = TRUE /\ page' = "dashboard"
      BY <1>1, <1>2, <2>2, <2>3, <2>4
    <2>5. CASE UNCHANGED <<session, kept, fresh, routeUser, page>>
      BY <1>1, <1>2, <2>3, <2>5
    <2> QED BY <2>1, <2>4, <2>5
  <1>8. CASE SignOut
    BY <1>1, <1>2, <1>3, <1>4, <1>8 DEF SignOut, ClearSession
  <1>9. CASE Expires \/ CallAnswered
    BY <1>1, <1>2, <1>9 DEF Expires, CallAnswered
  <1>10. CASE Call
    <2>1. PICK c : c = NewCall(IF fresh THEN "sent" ELSE "refreshing")
      OBVIOUS
    <2>3. session.uid \in People
      BY <1>1, <1>10 DEF Call
    <2>2. c \in [at : {"refreshing", "sent"}, whose : People, id : {c.id}]
      BY <2>1, <2>3 DEF NewCall
    <2>4. calls' = calls \cup {c} /\ UNCHANGED <<session, kept, fresh, routeUser, page, signIns>>
      BY <1>10, <2>1 DEF Call
    <2> QED BY <1>1, <1>2, <2>2, <2>3, <2>4
  <1>11. CASE RefreshEnds
    <2>1. PICK c \in calls : (Refreshed(c) \/ Refused(c)) /\ signIns' = signIns
      BY <1>11 DEF RefreshEnds
    <2>2. CASE Refreshed(c)
      <3>1. PICK s : s = [uid |-> c.whose, email |-> session.email]
        OBVIOUS
      <3>2. s \in [uid : People \cup {"nobody"}, email : People \cup {"nobody"}] /\ s.uid # "nobody"
        BY <1>1, <3>1 DEF PortalAssumption
      <3>3. session' = s /\ kept' = s /\ fresh' = TRUE /\ NotifyListeners(s)
        BY <2>2, <3>1 DEF Refreshed, SaveSession
      <3>4. PICK d : d = [c EXCEPT !.at = "sent"]
        OBVIOUS
      <3>5. d \in [at : {"refreshing", "sent"}, whose : People, id : {d.id}]
        BY <1>1, <2>1, <3>4
      <3>6. \A x \in calls' : x \in calls \/ x = d
        BY <2>2, <3>4 DEF Refreshed
      <3>7. \A x \in calls' : x \in [at : {"refreshing", "sent"}, whose : People, id : {x.id}]
        BY <1>1, <3>5, <3>6
      <3>8. routeUser' \in BOOLEAN /\ page' \in {"login", "waiting", "dashboard"}
        BY <1>3, <3>3
      <3> QED BY <1>1, <1>2, <2>1, <3>2, <3>3, <3>7, <3>8
    <2>3. CASE Refused(c)
      BY <1>1, <1>2, <1>3, <1>4, <2>1, <2>3 DEF Refused, ClearSession
    <2> QED BY <2>1, <2>2, <2>3
  <1>12. CASE RestoreSession
    BY <1>1, <1>2, <1>12 DEF RestoreSession
  <1> QED BY <1>5, <1>6, <1>7, <1>8, <1>9, <1>10, <1>11, <1>12 DEF PortalNext

(* Every part of these pages keeps its types, for any tickets, people, switches*)
(* and bounds; among them, that a conversation is never taken for loaded, nor  *)
(* its reply for sent, on a page that is not a ticket's.                       *)
THEOREM AccountIsTyped == AccountSpec => []AccountTypeOK
  <1> DEFINE I == SettingsInv /\ MfaInv /\ ListsInv /\ HomeInv /\ PortalTyped /\ SupportInv
  <1>1. AccountInit => I
    <2>1. AccountInit => PortalTyped
      <3>1. NoOne \in [uid : People \cup {"nobody"}, email : People \cup {"nobody"}]
        BY DEF NoOne
      <3> QED BY <3>1 DEF AccountInit, PortalInit, PortalTyped, PortalTypeOK
    <2>2. AccountInit => SettingsInv /\ MfaInv /\ ListsInv /\ HomeInv
      BY SettingsInit, MfaInit0, ListsInit0, HomeInit, PreferencesAssumption, MfaAssumption,
         HouseholdPageAssumption DEF AccountInit
    <2>3. AccountInit => SupportInv
      BY SupportInit, SupportAssumption DEF AccountInit
    <2> QED BY <2>1, <2>2, <2>3
  <1>2. I /\ [AccountNext]_accountVars => I'
    <2> SUFFICES ASSUME I, [AccountNext]_accountVars PROVE I'
      OBVIOUS
    <2>1. SettingsInv'
      <3>1. [PreferencesNext]_preferencesVars
        BY DEF AccountNext, accountVars, settingsVars
      <3> QED BY <3>1, SettingsSteps, PreferencesAssumption
    <2>2. MfaInv' /\ ListsInv' /\ HomeInv'
      <3>1. [MfaNext]_mfaVars /\ [ListsNext]_listVars /\ [HouseholdPageNext]_householdPageVars
        BY DEF AccountNext, accountVars, settingsVars
      <3> QED BY <3>1, MfaSteps, ListsSteps, HomeSteps, MfaAssumption, HouseholdPageAssumption
    <2>3. PortalTyped'
      <3>1. PortalNext \/ portalVars' = portalVars
        BY DEF AccountNext, accountVars, settingsVars
      <3>2. CASE portalVars' = portalVars
        BY <3>2 DEF portalVars, PortalTyped, PortalTypeOK
      <3> QED BY <3>1, <3>2, PortalKeepsTyped, PortalAssumption
    <2>4. SupportInv'
      <3>1. \/ UNCHANGED supportVars
            \/ DeskVisit /\ UNCHANGED ticketPageVars
            \/ TicketVisit /\ UNCHANGED deskVars
        BY DEF AccountNext, accountVars, supportVars
      <3>2. CASE UNCHANGED supportVars
        <4>1. UNCHANGED <<ticketVars, deskVars, ticketPageVars>>
          BY <3>2 DEF supportVars
        <4>2. TicketsInv'
          BY <4>1 DEF SupportInv, TicketsInv, ticketVars, ReadGood, Seen
        <4>3. \A r \in requests' : RequestTyped(r) /\ RequestMounted(r)'
          BY <4>1 DEF SupportInv, ticketVars, ticketPageVars, RequestMounted
        <4> QED BY <4>1, <4>2, <4>3
            DEF SupportInv, ticketVars, deskVars, ticketPageVars, DeskTypeOK, TicketPageTypeOK, PlaceKnown
      <3>3. CASE DeskVisit /\ UNCHANGED ticketPageVars
        <4>1. (TicketsNext /\ UNCHANGED deskVars) \/ DeskNext
          BY <3>3 DEF DeskVisit, TicketsNext
        <4> QED BY <3>3, <4>1, HandlersKeepSupport, DeskKeepsSupport, SupportAssumption DEF deskVars, ticketPageVars
      <3>4. CASE TicketVisit /\ UNCHANGED deskVars
        BY <3>4, HandlersKeepSupport, PageKeepsSupport, SupportAssumption
        DEF TicketVisit, deskVars, ticketPageVars
      <3> QED BY <3>1, <3>2, <3>3, <3>4
    <2> QED BY <2>1, <2>2, <2>3, <2>4
  <1>3. I => AccountTypeOK
    BY SettingsInvGives, MfaInvGives, ListsInvGives, HomeInvGives, SupportInvGives
    DEF AccountTypeOK, PortalTyped
  <1> QED BY <1>1, <1>2, <1>3, PTL DEF AccountSpec
================================================================================
