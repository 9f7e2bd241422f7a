----------------------------- MODULE SettingsLists -----------------------------
(* The session list of the security tab and the member and invite lists of the*)
(* household tab of pages/Settings.tsx. A list is loaded when its tab is opened*)
(* and again after each change made to it; an answer replaces what is shown, in*)
(* whatever order answers come.                                               *)
EXTENDS Naturals, FiniteSets

CONSTANTS SessionRows,    \* the user's other sessions
          HouseholdRows,  \* other members and pending invites
          MaxOpenings, MaxConfirms, MaxListFaults, MaxElsewhereRows

ASSUME SettingsListsAssumption ==
    {MaxOpenings, MaxConfirms, MaxListFaults, MaxElsewhereRows} \subseteq Nat

VARIABLES
    rowsStored,  \* rows of each list at the backend
    rowsShown,   \* rows of each list on the page
    listLoads,   \* requests for a list: [id, list, at, seen, after]
    changes,     \* requests to remove rows: [id, list, row, at]
    tab,
    confirming,  \* sessionConfirm: a session, "others", or "none"
    actionRow,   \* memberActionUid/inviteActionId, terminatingSessionId
    stale,       \* history: lists not loaded yet, whose last loads overlapped
                 \* or failed, or that changed elsewhere since
    listBudget

listVars == <<rowsStored, rowsShown, listLoads, changes, tab, confirming, actionRow, stale,
              listBudget>>

ListNames == {"sessions", "household"}
RowsOf == [sessions |-> SessionRows, household |-> HouseholdRows]
TabOf == [sessions |-> "security", household |-> "household"]
NoRow == "none"
Others == "others"
Pay(b) == listBudget[b] > 0 /\ listBudget' = [listBudget EXCEPT ![b] = @ - 1]

ListsInit ==
    /\ rowsStored = RowsOf
    /\ rowsShown = [l \in ListNames |-> {}]
    /\ listLoads = {} /\ changes = {}
    /\ tab = "profile" /\ confirming = NoRow
    /\ actionRow = [l \in ListNames |-> NoRow]
    /\ stale = ListNames
    /\ listBudget = [openings |-> MaxOpenings, confirms |-> MaxConfirms,
                     faults |-> MaxListFaults, elsewhere |-> MaxElsewhereRows]
--------------------------------------------------------------------------------
(* loadSessions, loadHousehold. `after` is the change that awaits this load.  *)
LoadOf(l, after) == [list |-> l, at |-> "sent", seen |-> {}, after |-> after,
                     id |-> CHOOSE n \in 1..Cardinality(listLoads) + 1 :
                                \A o \in listLoads : o.id # n]
Overlapping(l) == IF \E o \in listLoads : o.list = l THEN {l} ELSE {}

(* The effect of the tab loads its list; each visit does.                     *)
OpenTab ==
    /\ Pay("openings")
    /\ confirming = NoRow
    /\ \E t \in {"profile", "security", "household"} \ {tab} :
          /\ tab' = t
          /\ \/ t = "profile" /\ UNCHANGED <<listLoads, stale>>
             \/ \E l \in ListNames :
                   /\ TabOf[l] = t
                   /\ listLoads' = listLoads \cup {LoadOf(l, "open")}
                   /\ stale' = (stale \ {l}) \cup Overlapping(l)
    /\ UNCHANGED <<rowsStored, rowsShown, changes, confirming, actionRow>>

(* The Refresh and Retry buttons, off while the list is loading.              *)
RefreshSessions ==
    /\ tab = "security" /\ confirming = NoRow /\ Overlapping("sessions") = {}
    /\ Pay("openings")
    /\ listLoads' = listLoads \cup {LoadOf("sessions", "open")}
    /\ stale' = stale \ {"sessions"}
    /\ UNCHANGED <<rowsStored, rowsShown, changes, tab, confirming, actionRow>>

LoadRead ==
    \E o \in listLoads :
        /\ o.at = "sent"
        /\ listLoads' = (listLoads \ {o}) \cup {[o EXCEPT !.at = "read", !.seen = rowsStored[o.list]]}
        /\ UNCHANGED <<rowsStored, rowsShown, changes, tab, confirming, actionRow, stale, listBudget>>

OverQuietly(l, closes) ==
    /\ UNCHANGED actionRow
    /\ confirming' = IF l = "sessions" /\ closes THEN NoRow ELSE confirming

(* The end of a change: its dialog closes and its row is enabled, or, for two *)
(* members at once, whichever row was pressed last.                           *)
Over(l, closes) ==
    /\ actionRow' = [actionRow EXCEPT ![l] = NoRow]
    /\ confirming' = IF l = "sessions" /\ closes THEN NoRow ELSE confirming

LoadAnswered ==
    \E o \in listLoads :
        /\ listLoads' = listLoads \ {o}
        /\ \/ /\ o.at = "read"
              /\ rowsShown' = [rowsShown EXCEPT ![o.list] = o.seen]
              /\ UNCHANGED <<stale, listBudget>>
           \/ /\ Pay("faults")
              /\ rowsShown' = IF o.list = "household" THEN [rowsShown EXCEPT ![o.list] = {}]
                           ELSE rowsShown
              /\ stale' = stale \cup {o.list}
        /\ IF o.after = "open" THEN UNCHANGED <<actionRow, confirming>>
           ELSE Over(o.list, TRUE)
        /\ UNCHANGED <<rowsStored, changes, tab>>
--------------------------------------------------------------------------------
Ending == \E c \in changes : c.list = "sessions"
Reloading == \E o \in listLoads : o.list = "sessions" /\ o.after = "change"

(* "End Session" of a row, or "End Other Sessions", opens the dialog.         *)
AskEndSession ==
    /\ tab = "security" /\ confirming = NoRow
    /\ rowsShown["sessions"] # {}
    /\ confirming' \in rowsShown["sessions"] \cup {Others}
    /\ UNCHANGED <<rowsStored, rowsShown, listLoads, changes, tab, actionRow, stale, listBudget>>

CancelEndSession ==
    /\ confirming # NoRow /\ ~Ending /\ ~Reloading
    /\ confirming' = NoRow
    /\ UNCHANGED <<rowsStored, rowsShown, listLoads, changes, tab, actionRow, stale, listBudget>>

Change(l, row) ==
    /\ Pay("confirms")
    /\ changes' = changes \cup {[list |-> l, row |-> row, at |-> "sent",
                                 id |-> listBudget["confirms"]]}
    /\ actionRow' = [actionRow EXCEPT ![l] = row]
    /\ UNCHANGED <<rowsStored, rowsShown, listLoads, tab, confirming, stale>>

ConfirmSessionAction ==
    /\ confirming # NoRow /\ ~Ending /\ ~Reloading
    /\ Change("sessions", confirming)

(* handleRemoveMember and handleCancelInvite: only the row pressed last is    *)
(* disabled meanwhile.                                                        *)
RemoveAsSession ==
    /\ tab = "household"
    /\ \E row \in rowsShown["household"] : Change("sessions", row)

RemoveMemberOrInvite ==
    /\ tab = "household"
    /\ \E row \in rowsShown["household"] \ {actionRow["household"]} : Change("household", row)

ChangeStored ==
    \E c \in changes :
        /\ c.at = "sent"
        /\ rowsStored' = [rowsStored EXCEPT ![c.list] = IF c.row = Others THEN {} ELSE @ \ {c.row}]
        /\ changes' = (changes \ {c}) \cup {[c EXCEPT !.at = "stored"]}
        /\ UNCHANGED <<rowsShown, listLoads, tab, confirming, actionRow, stale, listBudget>>

(* The answer: the handler awaits a new load. On failure it ends at once, and *)
(* the session dialog stays open.                                             *)
ReloadsNoList(c) == listLoads
ReloadsList(c) == listLoads \cup {LoadOf(c.list, "change")}

ChangeAnswered ==
    \E c \in changes :
        /\ changes' = changes \ {c}
        /\ \/ /\ c.at = "stored"
              /\ listLoads' = ReloadsList(c)
              /\ stale' = (stale \ {c.list}) \cup Overlapping(c.list)
              /\ UNCHANGED <<actionRow, confirming, listBudget>>
           \/ /\ Pay("faults")
              /\ stale' = IF c.at = "stored" THEN stale \cup {c.list} ELSE stale
              /\ Over(c.list, FALSE)
              /\ UNCHANGED listLoads
        /\ UNCHANGED <<rowsStored, rowsShown, tab>>

(* A new sign-in, an accepted invitation, a member who leaves.                *)
ChangedElsewhere ==
    /\ Pay("elsewhere")
    /\ \E l \in ListNames : \E row \in RowsOf[l] :
          /\ rowsStored' = [rowsStored EXCEPT ![l] = IF row \in @ THEN @ \ {row} ELSE @ \cup {row}]
          /\ stale' = stale \cup {l}
    /\ UNCHANGED <<rowsShown, listLoads, changes, tab, confirming, actionRow>>
--------------------------------------------------------------------------------
ListsNext ==
    \/ OpenTab \/ RefreshSessions \/ LoadRead \/ LoadAnswered
    \/ AskEndSession \/ CancelEndSession \/ ConfirmSessionAction
    \/ RemoveMemberOrInvite \/ ChangeStored \/ ChangeAnswered \/ ChangedElsewhere

ListsFairness ==
    WF_listVars(LoadRead \/ LoadAnswered \/ ChangeStored \/ ChangeAnswered)
ListsSpec == ListsInit /\ [][ListsNext]_listVars /\ ListsFairness
--------------------------------------------------------------------------------
ListsTypeOK ==
    /\ \A l \in ListNames : /\ {rowsStored[l], rowsShown[l]} \subseteq SUBSET RowsOf[l]
                        /\ actionRow[l] \in RowsOf[l] \cup {NoRow, Others}
    /\ \A o \in listLoads : /\ o.list \in ListNames /\ o.at \in {"sent", "read"}
                        /\ o.seen \subseteq RowsOf[o.list] /\ o.after \in {"open", "change"}
    /\ \A c \in changes : c.list \in ListNames /\ c.at \in {"sent", "stored"}
    /\ tab \in {"profile", "security", "household"}
    /\ confirming \in SessionRows \cup {NoRow, Others}
    /\ stale \subseteq ListNames

(* When nothing is under way for a list that was loaded, it shows the rows the*)
(* backend has, whatever was removed: unless two loads of it overlapped, a    *)
(* request failed, or it changed elsewhere.                                   *)
ListedIsStored ==
    \A l \in ListNames \ stale :
        /\ \A o \in listLoads : o.list # l
        /\ \A c \in changes : c.list # l
        => rowsShown[l] = rowsStored[l]

(* A row that is being removed is given back, and the dialog can be closed.   *)
RowsAreGivenBack ==
    \A l \in ListNames : (actionRow[l] # NoRow) ~> (actionRow[l] = NoRow)
================================================================================
