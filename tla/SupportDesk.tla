------------------------------ MODULE SupportDesk ------------------------------
(* The dashboard of the support portal, pages/Dashboard.tsx: a list of tickets *)
(* for a tab, and a panel over it for the ticket that was opened. What a button*)
(* of the panel does is followed by a refresh of the panel and of the list, of *)
(* the ticket and the tab there were when the button was pressed.              *)
EXTENDS SupportTickets

VARIABLES
    deskTab,     \* activeTab
    rows,        \* tickets: the ids, and the tab they were listed for
    listView,    \* "closed" before the page is, then what loading and error
                 \* make of it: "loading", "failed" or "shown"
    panel,       \* selectedTicket: [id, row], or NoTicket
    opening,     \* detailLoading
    box          \* the reply: the ticket it was written on, or NoTicket

deskVars == <<deskTab, rows, listView, panel, opening, box>>

Tabs == {"all", "queue", "assigned", "escalated", "resolved"}
NoPanel == [id |-> NoTicket, row |-> NewRow]
Mine(r) == r.by = Me

(* list_tickets under the filters of loadTickets.                              *)
Listed(tab, seen) ==
    {t \in Tickets : CASE tab = "queue" -> seen[t].queue = "queued" /\ seen[t].holder = Nobody
                       [] tab = "assigned" -> seen[t].holder = Me
                       [] tab = "escalated" -> seen[t].queue = "escalated"
                       [] tab = "resolved" -> seen[t].status = "resolved"
                       [] OTHER -> TRUE}

LoadTicketsOfNoTab(tab) == Request(Me, "list", NoTicket, NoTicket)
LoadTickets(tab) == Request(Me, "list", NoTicket, tab)
RefreshTicket(r) == Request(Me, "refresh", r.ticket, r.tab)

DeskInit ==
    /\ deskTab = "queue" /\ rows = [of |-> "queue", ids |-> {}]
    /\ listView = "closed"
    /\ panel = NoPanel /\ opening = FALSE /\ box = NoTicket
--------------------------------------------------------------------------------
Load(tab) ==
    /\ deskTab' = tab
    /\ listView' = "loading"
    /\ requests' = requests \cup {LoadTickets(tab)}
    /\ UNCHANGED <<ticket, rows, panel, opening, box>>

OpenDesk == listView = "closed" /\ Load("queue") /\ UNCHANGED supportBudget

(* The tabs and Refresh are under the panel when one is shown.                 *)
ChooseTab ==
    /\ listView # "closed" /\ panel.id = NoTicket
    /\ Charge("deskReads")
    /\ \E tab \in Tabs : Load(tab)

OpenTicket ==
    /\ panel.id = NoTicket /\ listView = "shown"
    /\ Charge("deskReads")
    /\ \E t \in rows.ids : requests' = requests \cup {Request(Me, "open", t, NoTicket)}
    /\ opening' = TRUE
    /\ UNCHANGED <<ticket, deskTab, rows, listView, panel, box>>

ClosePanel ==
    /\ panel.id # NoTicket
    /\ panel' = NoPanel
    /\ UNCHANGED <<ticketVars, deskTab, rows, listView, opening, box>>

TypeReply ==
    /\ panel.id # NoTicket /\ ~opening /\ box = NoTicket
    /\ box' = panel.id
    /\ UNCHANGED <<ticketVars, deskTab, rows, listView, panel, opening>>

(* The five handlers. No button is off while another press is under way.       *)
PressButton(what) ==
    /\ panel.id # NoTicket
    /\ Charge("writes")
    /\ requests' = requests \cup {Request(Me, what, panel.id, deskTab)}
    /\ UNCHANGED <<ticket, deskTab, rows, listView, panel, opening, box>>

HandleReply == ~opening /\ box # NoTicket /\ PressButton("reply")
HandlePickup == panel.row.queue = "queued" /\ PressButton("pickup")
HandleAssign == \E a \in {"toMe", "toColleague"} : PressButton(a)
HandleEscalate == panel.id \in Technical /\ PressButton("escalate")
HandleStatusUpdate == \E s \in {"resolved", "closed"} : PressButton(s)
--------------------------------------------------------------------------------
(* A request failed: refused, or lost before it was handled or after.          *)
Lost(r) == (r.at = "refused" /\ UNCHANGED supportBudget) \/ (r.at # "read" /\ Charge("faults"))

ListAnswered ==
    \E r \in requests :
        /\ Mine(r) /\ r.what = "list"
        /\ requests' = requests \ {r}
        /\ \/ /\ r.at = "done"
              /\ rows' = [of |-> r.tab, ids |-> Listed(r.tab, r.seen)]
              /\ listView' = "shown"
              /\ UNCHANGED supportBudget
           \/ Lost(r) /\ listView' = "failed" /\ UNCHANGED rows
        /\ UNCHANGED <<ticket, deskTab, panel, opening, box>>

OpenedStillLoading(r) ==
    panel' = [id |-> r.ticket, row |-> Seen(r)] /\ box' = NoTicket /\ UNCHANGED opening
Opened(r) == opening' = FALSE /\ panel' = [id |-> r.ticket, row |-> Seen(r)] /\ box' = NoTicket

OpenAnswered ==
    \E r \in requests :
        /\ Mine(r) /\ r.what = "open"
        /\ requests' = requests \ {r}
        /\ \/ r.at = "done" /\ Opened(r) /\ UNCHANGED supportBudget
           \/ Lost(r) /\ opening' = FALSE /\ UNCHANGED <<panel, box>>
        /\ UNCHANGED <<ticket, deskTab, rows, listView>>

(* The answer of a press: the box is emptied, whatever was typed meanwhile, and*)
(* the ticket is read again; on failure the handler ends.                      *)
Answered(r) == requests' = (requests \ {r}) \cup {RefreshTicket(r)}

PressAnswered ==
    \E r \in requests :
        /\ Mine(r) /\ r.what \in AgentWrites
        /\ \/ /\ r.at = "done" /\ Answered(r)
              /\ box' = IF r.what = "reply" THEN NoTicket ELSE box
              /\ UNCHANGED supportBudget
           \/ Lost(r) /\ requests' = requests \ {r} /\ UNCHANGED box
        /\ UNCHANGED <<ticket, deskTab, rows, listView, panel, opening>>

(* The panel shows the ticket of the press, whichever it shows by now, or none.*)
RefreshAnswered ==
    \E r \in requests :
        /\ Mine(r) /\ r.what = "refresh"
        /\ \/ /\ r.at = "done"
              /\ panel' = [id |-> r.ticket, row |-> Seen(r)]
              /\ requests' = (requests \ {r}) \cup {LoadTickets(r.tab)}
              /\ listView' = "loading"
              /\ UNCHANGED supportBudget
           \/ Lost(r) /\ requests' = requests \ {r} /\ UNCHANGED <<panel, listView>>
        /\ UNCHANGED <<ticket, deskTab, rows, opening, box>>

DeskNext ==
    \/ OpenDesk \/ ChooseTab \/ OpenTicket \/ ClosePanel \/ TypeReply
    \/ HandleReply \/ HandlePickup \/ HandleAssign \/ HandleEscalate \/ HandleStatusUpdate
    \/ ListAnswered \/ OpenAnswered \/ PressAnswered \/ RefreshAnswered
DeskFairness ==
    WF_<<ticketVars, deskVars>>(ListAnswered \/ OpenAnswered \/ PressAnswered \/ RefreshAnswered)
--------------------------------------------------------------------------------
DeskTypeOK ==
    /\ deskTab \in Tabs /\ rows.of \in Tabs /\ rows.ids \subseteq Tickets
    /\ listView \in {"closed", "loading", "failed", "shown"}
    /\ panel.id \in Tickets \cup {NoTicket} /\ panel.row \in Rows
    /\ opening \in BOOLEAN /\ box \in Tickets \cup {NoTicket}

(* The list and the panel do not load for ever, whatever the presses overlap.  *)
DeskSettles ==
    /\ (listView = "loading") ~> (listView # "loading")
    /\ opening ~> ~opening

(* A reply is sent to the ticket it was written on. The code does not ensure it*)
(* (a late refresh changes the panel under the text), nor the next two.        *)
SentWhereWritten == [][HandleReply => box = panel.id]_<<ticketVars, deskVars>>

(* The panel that was closed stays closed until a ticket is opened.            *)
ClosedStaysClosed ==
    [][panel.id = NoTicket /\ panel'.id # NoTicket => opening]_<<ticketVars, deskVars>>

(* The rows that are shown were listed for the tab that is shown.              *)
RowsAreOfTab == listView = "shown" => rows.of = deskTab
================================================================================
