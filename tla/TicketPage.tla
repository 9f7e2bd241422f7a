------------------------------- MODULE TicketPage ------------------------------
(* The customer's side of a ticket: the list of pages/Support.tsx with its     *)
(* system status window, and the conversation of pages/TicketDetail.tsx.       *)
EXTENDS SupportTickets

VARIABLES
    place,       \* the page shown, the list, a ticket or another, and its mounting
    pageLoading, \* loading of the page shown
    shownStatus, \* the ticket's status as the page knows it, or NoTicket
    sending,     \* a reply is being sent
    monitor      \* the system status window: "shut", "probing", "shown"

ticketPageVars == <<place, pageLoading, shownStatus, sending, monitor>>

TheList == "list"
Away == "away"
FromPage(r) == r.by = Customer
PageRequest(what, t, mount) ==
    [Request(Customer, what, t, NoTicket) EXCEPT !.mount = mount]
OfThisPage(r) == r.mount = place.mount

TicketPageInit ==
    /\ place = [at |-> Away, mount |-> MaxPageReads + 1]
    /\ pageLoading = FALSE /\ shownStatus = NoTicket
    /\ sending = FALSE /\ monitor = "shut"

GotoStale(where, mount) ==
    /\ place' = [at |-> where, mount |-> mount]
    /\ pageLoading' = TRUE /\ monitor' = "shut" /\ UNCHANGED <<shownStatus, sending>>

(* A page that is left is gone, but not its requests nor their handlers.       *)
Goto(where, mount) ==
    /\ place' = [at |-> where, mount |-> mount]
    /\ pageLoading' = TRUE
    /\ shownStatus' = NoTicket /\ sending' = FALSE /\ monitor' = "shut"

GetTickets(mount) == PageRequest("mine", NoTicket, mount)
GetTicketDetail(t, mount) == PageRequest("page", t, mount)

OpenTicketPage ==
    /\ place.at = TheList /\ ~pageLoading /\ monitor = "shut"
    /\ Charge("pageReads")
    /\ \E t \in Tickets :
          /\ Goto(t, supportBudget["pageReads"])
          /\ requests' = requests \cup {GetTicketDetail(t, supportBudget["pageReads"])}
    /\ UNCHANGED ticket

GoToSupport ==
    /\ place.at = Away \/ shownStatus # NoTicket
    /\ Charge("pageReads")
    /\ Goto(TheList, supportBudget["pageReads"])
    /\ requests' = requests \cup {GetTickets(supportBudget["pageReads"])}
    /\ UNCHANGED ticket

(* fetchTickets of the list.                                                   *)
MineAnswered ==
    \E r \in requests :
        /\ FromPage(r) /\ r.what = "mine"
        /\ requests' = requests \ {r}
        /\ (r.at = "done" /\ UNCHANGED supportBudget) \/ Charge("faults")
        /\ pageLoading' = (pageLoading /\ ~OfThisPage(r))
        /\ UNCHANGED <<ticket, place, shownStatus, sending, monitor>>
--------------------------------------------------------------------------------
(* SystemStatus asks for the backend's health each time it is opened.          *)
OpenMonitor ==
    /\ place.at = TheList /\ monitor = "shut" /\ Charge("pageReads")
    /\ monitor' = "probing"
    /\ UNCHANGED <<ticket, requests, place, pageLoading, shownStatus, sending>>

MonitorAnswered ==
    /\ monitor = "probing" /\ monitor' = "shown"
    /\ UNCHANGED <<ticketVars, place, pageLoading, shownStatus, sending>>

CloseMonitor ==
    /\ monitor # "shut" /\ monitor' = "shut"
    /\ UNCHANGED <<ticketVars, place, pageLoading, shownStatus, sending>>
--------------------------------------------------------------------------------
Say(what) ==
    /\ shownStatus \in {"open", "resolved"} /\ Charge("writes")
    /\ requests' = requests \cup {PageRequest(what, place.at, place.mount)}
    /\ UNCHANGED <<ticket, place, pageLoading, shownStatus, monitor>>

SendMessage == ~sending /\ sending' = TRUE /\ Say("message")
CloseMine == Say("close") /\ UNCHANGED sending

(* A message or a close was answered: its handler reads the ticket again, and  *)
(* a message waits for that.                                                   *)
SaidAnswered ==
    \E r \in requests :
        /\ FromPage(r) /\ r.what \in Writes
        /\ \/ /\ r.at = "done"
              /\ requests' = (requests \ {r}) \cup
                    {IF r.what = "close" THEN GetTicketDetail(r.ticket, r.mount)
                     ELSE PageRequest("reread", r.ticket, r.mount)}
              /\ UNCHANGED <<sending, supportBudget>>
           \/ /\ r.at # "read" /\ Charge("faults")
              /\ requests' = requests \ {r}
              /\ sending' = (sending /\ (r.what = "close" \/ ~OfThisPage(r)))
        /\ UNCHANGED <<ticket, place, pageLoading, shownStatus, monitor>>

RereadEndsNot(r) == sending
RereadEnds(r) == sending /\ ~(r.what = "reread" /\ OfThisPage(r))

(* fetchTicket. When it fails the customer is sent to the list, even from the  *)
(* page of another ticket they have opened since.                              *)
PageAnswered ==
    \E r \in requests :
        /\ FromPage(r) /\ r.what \in {"page", "reread"}
        /\ \/ /\ r.at = "done"
              /\ requests' = requests \ {r}
              /\ shownStatus' = IF OfThisPage(r) THEN Seen(r).status ELSE shownStatus
              /\ pageLoading' = (pageLoading /\ ~OfThisPage(r))
              /\ sending' = RereadEnds(r)
              /\ UNCHANGED <<place, monitor, supportBudget>>
           \/ /\ Charge("faults")
              /\ \/ /\ place.at # TheList
                    /\ Goto(TheList, 0)
                    /\ requests' = (requests \ {r}) \cup {GetTickets(0)}
                 \/ /\ place.at = TheList
                    /\ requests' = requests \ {r}
                    /\ UNCHANGED ticketPageVars
        /\ UNCHANGED ticket

TicketPageNext ==
    \/ OpenTicketPage \/ GoToSupport \/ MineAnswered
    \/ OpenMonitor \/ MonitorAnswered \/ CloseMonitor
    \/ SendMessage \/ CloseMine \/ SaidAnswered \/ PageAnswered
TicketPageFairness ==
    WF_<<ticketVars, ticketPageVars>>(MineAnswered \/ SaidAnswered \/ PageAnswered)
--------------------------------------------------------------------------------
TicketPageTypeOK ==
    /\ place.at \in Tickets \cup {TheList, Away}
    /\ shownStatus \in Statuses \cup {NoTicket}
    /\ {pageLoading, sending} \subseteq BOOLEAN
    /\ monitor \in {"shut", "probing", "shown"}
    /\ shownStatus # NoTicket \/ sending => place.at \in Tickets

(* The customer's pages do not load for ever, and Send comes back.             *)
TicketPageSettles ==
    /\ pageLoading ~> ~pageLoading
    /\ sending ~> ~sending
================================================================================
