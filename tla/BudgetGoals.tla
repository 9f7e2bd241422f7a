------------------------------- MODULE BudgetGoals -----------------------------
(* The Financial Analysis page of frontend-app (pages/FinancialAnalysis.tsx,  *)
(* hooks/useBudget.ts, useBudgetReporting.ts, useAnalytics.ts): the budget    *)
(* goals of the scope on screen, what is spent of them, and the reports, over *)
(* the rows backend/api/budgets.py keeps for the visitor and for the admin of *)
(* their household.                                                           *)
EXTENDS Naturals, FiniteSets

CONSTANTS Spendings,   \* categories a goal is set for
          Amounts, Periods,
          Options,     \* a report's periods, timeframes and filters
          Follows,     \* the sets of hooks whose requests a visit follows
          MaxEvents    \* changes asked for, toggles, failures, a removal

ASSUME BudgetGoalsAssumption ==
    /\ "monthly" \in Periods /\ Options # {} /\ "any" \notin Options
    /\ Follows \subseteq SUBSET {"budgets", "status", "history", "chart"}
    /\ MaxEvents \in Nat

VARIABLES
    role,       \* the visitor's in the household: "admin", "viewer" or "none"
    access,     \* their profile says that they may view it
    goals,      \* the goals stored for each owner
    scope, option,      \* what is on screen
    followed,   \* the hooks whose requests this visit follows
    data,      \* each hook's data, and the key it was fetched for
    waitingFor, failed,   \* reports that are loading, hooks with an error
    reads, writes,    \* requests in flight
    editor,     \* the goal being edited, and the period that will be saved
    resetOpen, resetting, bulking,
    sure,       \* hooks whose last load began alone, for what was on screen,
                \* and has not failed since
    events

bgVars == <<role, access, goals, scope, option, followed, data, waitingFor, failed, reads,
            writes, editor, resetOpen, resetting, bulking, sure, events>>
household == <<role, access>>
dialogs == <<resetOpen, resetting, bulking>>

Scopes == {"personal", "household"}
Reports == {"history", "chart"}
Hooks == {"budgets", "status"} \cup Reports
Goal == [amount : Amounts, period : Periods]
NoGoal == [amount |-> 0, period |-> "none"]
NoGoals == [c \in Spendings |-> NoGoal]
Key(h, s, o) == <<s, IF h \in Reports THEN o ELSE "any">>
KeyOnScreen(h) == Key(h, scope, option)
NoEditor == [cat |-> "none", period |-> "none"]
Happens == events < MaxEvents /\ events' = events + 1
--------------------------------------------------------------------------------
(* The backend: whose rows a scope means, and who may read and change them.   *)
Owner(s) == IF s = "household" /\ role # "admin" THEN "admin" ELSE "me"
MayRead(s) == s = "personal" \/ role # "none"
CanEdit(s) == s = "personal" \/ role = "admin"
Answer(h, k) == [of |-> k, rows |-> IF h = "chart" THEN NoGoals ELSE goals[Owner(k[1])]]

Found(w) == w.kind = "clear" => goals[Owner(w.scope)][w.cat] # NoGoal
Written(w) ==
    LET rows == goals[Owner(w.scope)]
    IN [c \in Spendings |->
          CASE w.kind = "save" /\ c = w.cat -> w.goal
            [] w.kind = "clear" /\ c = w.cat -> NoGoal
            [] w.kind = "reset" -> NoGoal
            [] w.kind = "bulk" /\ rows[c] # NoGoal -> [rows[c] EXCEPT !.period = w.goal.period]
            [] OTHER -> rows[c]]
--------------------------------------------------------------------------------
(* A hook loads; the charts share a request of the same key that is in flight.*)
Alone(h) == \A f \in reads : f.hook # h
Unused(h) == CHOOSE n \in 0 .. Cardinality(reads) :
                 \A f \in reads : f.hook = h => f.n # n
NewRead(h, k, after) ==
    [hook |-> h, key |-> k, n |-> Unused(h), after |-> after, is |-> FALSE, rows |-> NoGoals]
(* Mutant: a chart is fetched again while the same is in flight.              *)
LoadsTwice(hs, s, o) ==
    /\ reads' = reads \cup {NewRead(h, Key(h, s, o), "none") : h \in hs}
    /\ waitingFor' = waitingFor \cup (hs \cap Reports)
    /\ failed' = failed \ hs
    /\ sure' = (sure \ hs) \cup {h \in hs : Alone(h)}

InFlight(h, k) == \E f \in reads : f.hook = h /\ f.key = k
Loads(hs, s, o) ==
    /\ reads' = reads \cup {NewRead(h, Key(h, s, o), "none") :
                       h \in {h \in hs : h = "chart" => ~InFlight(h, Key(h, s, o))}}
    /\ waitingFor' = waitingFor \cup (hs \cap Reports)
    /\ failed' = failed \ hs
    /\ sure' = (sure \ hs) \cup {h \in hs : Alone(h)}

(* What a handler does after its reload: the dialog closes, the buttons wake. *)
Over(after) ==
    /\ resetting' = (resetting /\ after # "reset")
    /\ resetOpen' = (resetOpen /\ after # "reset")
    /\ bulking' = (bulking /\ after # "bulk")
ReadRest == UNCHANGED <<household, goals, scope, option, followed, writes, editor>>

ReadServed == \E f \in reads :
    /\ ~f.is /\ MayRead(f.key[1])
    /\ reads' = (reads \ {f}) \cup
           {[f EXCEPT !.is = TRUE, !.rows = Answer(f.hook, f.key).rows]}
    /\ UNCHANGED <<data, waitingFor, failed, dialogs, sure, events>> /\ ReadRest

ReadAnswered == \E f \in reads :
    /\ f.is /\ reads' = reads \ {f}
    /\ data' = [data EXCEPT ![f.hook] = [of |-> f.key, rows |-> f.rows]]
    /\ waitingFor' = waitingFor \ {f.hook}
    /\ Over(f.after)
    /\ UNCHANGED <<failed, sure, events>> /\ ReadRest

(* Only the history says that it failed; the others keep what they showed.    *)
ReadFails(f) ==
    /\ reads' = reads \ {f}
    /\ waitingFor' = waitingFor \ {f.hook}
    /\ failed' = failed \cup ({f.hook} \ {"budgets"})
    /\ sure' = sure \ ({f.hook} \ {"history"})
    /\ Over(f.after)
    /\ UNCHANGED data /\ ReadRest
ReadRefused == \E f \in reads :
    ~f.is /\ ~MayRead(f.key[1]) /\ ReadFails(f) /\ UNCHANGED events
ReadLost == \E f \in reads : Happens /\ ReadFails(f)
--------------------------------------------------------------------------------
(* The visitor.  A click elsewhere blurs the open editor first, and the open  *)
(* reset dialog covers the page.                                              *)
Ready == ~resetOpen /\ editor = NoEditor
GoalsShown == data["budgets"].rows
ScreenRest == UNCHANGED <<goals, followed, data, writes, editor, dialogs>>

ToggleScope == \E s \in Scopes \ {scope} :
    /\ Ready /\ access /\ Happens
    /\ scope' = s /\ Loads(followed, s, option)
    /\ UNCHANGED <<household, option>> /\ ScreenRest
ChooseOption == \E o \in Options \ {option} :
    /\ followed \subseteq Reports /\ Happens
    /\ option' = o /\ Loads(followed, scope, o)
    /\ UNCHANGED <<household, scope>> /\ ScreenRest

(* The admin removes the visitor; once their profile says so, the page falls  *)
(* back to their own scope.                                                   *)
LeaveHousehold ==
    /\ role = "viewer" /\ role' = "none"
    /\ Happens
    /\ UNCHANGED <<access, scope, option, reads, waitingFor, failed, sure>>
    /\ ScreenRest
ProfileRefreshed ==
    /\ access /\ role = "none" /\ access' = FALSE
    /\ scope' = "personal"
    /\ IF scope = "household" THEN Loads(followed, scope', option)
       ELSE UNCHANGED <<reads, waitingFor, failed, sure>>
    /\ UNCHANGED <<role, option, events>> /\ ScreenRest

WriteRest == UNCHANGED <<household, goals, scope, option, followed, data, waitingFor, failed,
                         reads, sure>>
NextWrite == CHOOSE n \in 0 .. Cardinality(writes) : \A w \in writes : w.n # n
AsksToWrite(kind, c, goal) ==
    /\ "budgets" \in followed /\ Happens
    /\ writes' = writes \cup {[n |-> NextWrite, kind |-> kind, scope |-> scope,
                               cat |-> c, goal |-> goal, served |-> FALSE]}
    /\ WriteRest

(* handleEdit keeps the period of the visitor's own row; the editor's amount  *)
(* has the focus, and losing it (or Enter) saves and closes, so the period,   *)
(* the threshold and the switch beside it are out of reach.                   *)
OwnPeriod(c) ==
    IF GoalsShown[c] # NoGoal /\ Owner(data["budgets"].of[1]) = "me" THEN GoalsShown[c].period
    ELSE "monthly"
HandleEdit == \E c \in Spendings :
    /\ Ready /\ "budgets" \in followed /\ events < MaxEvents
    /\ editor' = [cat |-> c, period |-> OwnPeriod(c)]
    /\ UNCHANGED <<writes, dialogs>> /\ UNCHANGED events /\ WriteRest
HandleSave ==
    /\ editor # NoEditor /\ editor' = NoEditor
    /\ \/ \E a \in Amounts : AsksToWrite("save", editor.cat, [amount |-> a, period |-> editor.period])
       \/ AsksToWrite("clear", editor.cat, NoGoal)
    /\ UNCHANGED dialogs

ClearGoal == \E c \in Spendings :
    /\ Ready /\ GoalsShown[c] # NoGoal /\ AsksToWrite("clear", c, NoGoal)
    /\ UNCHANGED <<editor, dialogs>>
OpenReset ==
    /\ Ready /\ GoalsShown # NoGoals /\ resetOpen' = TRUE
    /\ UNCHANGED <<writes, editor, resetting, bulking>> /\ UNCHANGED events /\ WriteRest
CloseReset ==
    /\ resetOpen /\ resetOpen' = FALSE
    /\ UNCHANGED <<writes, editor, resetting, bulking>> /\ UNCHANGED events /\ WriteRest
ConfirmReset ==
    /\ resetOpen /\ ~resetting /\ resetting' = TRUE
    /\ AsksToWrite("reset", "none", NoGoal)
    /\ UNCHANGED <<editor, resetOpen, bulking>>
BulkSetPeriod == \E p \in Periods :
    /\ Ready /\ GoalsShown # NoGoals /\ ~bulking /\ bulking' = TRUE
    /\ AsksToWrite("bulk", "none", [NoGoal EXCEPT !.period = p])
    /\ UNCHANGED <<editor, resetOpen, resetting>>
--------------------------------------------------------------------------------
HandlerRest == UNCHANGED <<household, scope, option, followed, data, waitingFor, failed, editor>>

(* The status and the history are not fetched again after a write.            *)
WriteServed == \E w \in writes :
    /\ ~w.served /\ CanEdit(w.scope) /\ Found(w)
    /\ goals' = [goals EXCEPT ![Owner(w.scope)] = Written(w)]
    /\ writes' = (writes \ {w}) \cup {[w EXCEPT !.served = TRUE]}
    /\ sure' = sure \ {"status", "history"}
    /\ UNCHANGED <<reads, dialogs, events>> /\ HandlerRest

(* Mutant: a write does not fetch the goals again.                            *)
WriteAnsweredQuietly == \E w \in writes :
    /\ w.served /\ writes' = writes \ {w}
    /\ Over(w.kind)
    /\ UNCHANGED <<goals, reads, sure, events>> /\ HandlerRest

(* The handler fetches the goals of the scope it was called in.               *)
WriteAnswered == \E w \in writes :
    /\ w.served /\ writes' = writes \ {w}
    /\ reads' = reads \cup {NewRead("budgets", <<w.scope, "any">>, w.kind)}
    /\ sure' = IF w.scope = scope /\ Alone("budgets") THEN sure \cup {"budgets"}
               ELSE sure \ {"budgets"}
    /\ UNCHANGED <<goals, dialogs, events>> /\ HandlerRest

(* A refused or lost write is logged to the console, and nothing is fetched.  *)
(* Mutant: the handler goes on only after a write that succeeded.             *)
WriteEndsThere(w) == /\ writes' = writes \ {w}
                     /\ UNCHANGED <<goals, reads, dialogs>> /\ HandlerRest
WriteEnds(w) == /\ writes' = writes \ {w} /\ Over(w.kind)
                /\ UNCHANGED <<goals, reads>> /\ HandlerRest
WriteRefused == \E w \in writes :
    /\ ~w.served /\ ~(CanEdit(w.scope) /\ Found(w))
    /\ WriteEnds(w) /\ UNCHANGED <<sure, events>>
WriteLost == \E w \in writes :
    /\ Happens /\ WriteEnds(w)
    /\ sure' = IF w.served THEN sure \ {"budgets"} ELSE sure
--------------------------------------------------------------------------------
BudgetGoalsInit ==
    /\ role \in {"admin", "viewer"} /\ access = TRUE
    /\ \E a \in Amounts, theirs \in BOOLEAN :
         LET some == [c \in Spendings |-> [amount |-> a, period |-> "monthly"]]
         IN goals = [o \in {"me", "admin"} |->
                       IF theirs <=> o = "admin" THEN some ELSE NoGoals]
    /\ scope = "personal" /\ followed \in Follows /\ option = CHOOSE o \in Options : TRUE
    /\ data = [h \in Hooks |-> [of |-> <<"none", "any">>, rows |-> NoGoals]]
    /\ reads = {[hook |-> h, key |-> KeyOnScreen(h), n |-> 0, after |-> "none", is |-> FALSE,
                   rows |-> NoGoals] : h \in followed}
    /\ waitingFor = followed \cap Reports /\ failed = {} /\ sure = followed
    /\ writes = {} /\ editor = NoEditor
    /\ resetOpen = FALSE /\ resetting = FALSE /\ bulking = FALSE
    /\ events = 0

BudgetGoalsNext ==
    \/ ReadServed \/ ReadAnswered \/ ReadRefused \/ ReadLost
    \/ ToggleScope \/ ChooseOption \/ LeaveHousehold \/ ProfileRefreshed
    \/ HandleEdit \/ HandleSave \/ ClearGoal \/ OpenReset \/ CloseReset \/ ConfirmReset
    \/ BulkSetPeriod
    \/ WriteServed \/ WriteAnswered \/ WriteRefused \/ WriteLost

(* Every request ends in an answer or an error.                               *)
RequestEnds == \/ ReadServed \/ ReadAnswered \/ ReadRefused
               \/ WriteServed \/ WriteAnswered \/ WriteRefused
BudgetGoalsSpec == BudgetGoalsInit /\ [][BudgetGoalsNext]_bgVars /\ WF_bgVars(RequestEnds)
--------------------------------------------------------------------------------
BudgetGoalsTypeOK ==
    /\ goals \in [{"me", "admin"} -> [Spendings -> Goal \cup {NoGoal}]]
    /\ scope \in Scopes /\ option \in Options /\ {waitingFor, failed, sure} \subseteq SUBSET Hooks
    /\ \A f \in reads : f.hook \in followed /\ f.after \in {"none", "save", "clear", "reset", "bulk"}
    /\ \A f, g \in reads : f.hook = "chart" /\ g.hook = "chart" /\ f.key = g.key => f = g
    /\ Cardinality({w \in writes : w.kind = "reset"}) + Cardinality({w \in writes : w.kind = "bulk"}) <= 2

(* With nothing in flight, the goals on screen are those the server holds for *)
(* the scope on screen, after any sequence of saves, clears, resets and bulk  *)
(* changes, refused ones included; a report is that of its buttons or, the    *)
(* history's, an error.  Not claimed where loads of one hook overlapped, a    *)
(* request failed, a write was answered under another scope, or goals changed *)
(* under a report that is not fetched again.                                  *)
GoalsCurrent ==
    reads = {} /\ writes = {} =>
        \A h \in sure : data[h] = Answer(h, KeyOnScreen(h)) \/ h \in failed

(* "Resetting...", the sleeping bulk buttons and "Loading..." all end.        *)
GoalsBusy == resetting \/ bulking \/ waitingFor # {}
GoalsSettle == GoalsBusy ~> ~GoalsBusy

(* What is spent is shown against the goals shown (not so: useBudgetStatus's  *)
(* refetch is not used, FinancialAnalysis.tsx:784).                           *)
StatusFollowsGoals ==
    reads = {} /\ writes = {} /\ "budgets" \in sure /\ "status" \notin failed =>
        data["status"].rows = data["budgets"].rows

(* "* Changes are saved automatically on change or blur." (FinancialAnalysis   *)
(* .tsx:595): no edit is refused (a viewer's of the household's goals is).    *)
EditsAreSaved ==
    [][\A w \in writes : w.kind = "save" /\ events' = events =>
          w.served \/ \E v \in writes' : v.n = w.n]_bgVars
================================================================================
