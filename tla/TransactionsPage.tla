--------------------------- MODULE TransactionsPage ----------------------------
(* The Transactions page of frontend-app (pages/Transactions.tsx, its two     *)
(* modals, hooks/useTransactions.ts, services/transactions.ts).  SWR keeps a  *)
(* list for every query, a query being what is asked for (filters, scope,     *)
(* search) and a page of it; the handlers edit the list of the query on       *)
(* screen when their answer comes, whichever was on screen when they asked.   *)
(* The rows of a list are a set: their order only decides what a page holds.  *)
EXTENDS Naturals, FiniteSets

CONSTANTS Txns,     \* transactions, by their place in the sort order
          Posted,   \* those the server has at the start
          Categories,
          Views,    \* categories one filters by, and "all"
          PageSize, MaxPage,
          MaxAsks,  \* changes the visitor asks for
          MaxTurns  \* changes of query, and requests that fail

ASSUME TransactionsPageAssumption ==
    /\ Posted \subseteq Txns /\ Txns \subseteq Nat /\ IsFiniteSet(Txns)
    /\ {"all", "gone"} \cap Categories = {}
    /\ "all" \in Views /\ Views \subseteq Categories \cup {"all"}
    /\ {PageSize, MaxPage, MaxAsks, MaxTurns} \subseteq Nat
    /\ PageSize > 0 /\ MaxPage > 0 /\ Cardinality(Txns) <= MaxPage * PageSize

VARIABLES
    book,      \* the server's transactions: their category, or "gone"
    query,     \* the view and the page on screen
    lists,     \* SWR's list of each query
    errors,    \* queries whose last fetch failed
    backup,    \* the reply kept in localStorage for each query
    gets,      \* fetches in flight
    asks,      \* handlers in flight
    form,      \* the modal that is open
    debounce,  \* the search was edited and its timer runs
    crossed,   \* transactions whose changes overlapped with each other, with
               \* a fetch a later visit shared, or with one an edit overtook
    noReply,   \* a request failed
    askCount, turns

tpVars == <<book, query, lists, errors, backup, gets, asks, form, debounce, crossed,
            noReply, askCount, turns>>
tpBounds == <<noReply, askCount, turns>>

Queries == [view : Views, page : 1 .. MaxPage]
Row == [id : Txns, category : Categories]
NoList == [rows |-> {}, total |-> 0, is |-> FALSE]
Form(kind, t) == [kind |-> kind, txn |-> t]
NoForm == Form("none", 0)
Turn == turns < MaxTurns /\ turns' = turns + 1
NoReply == Turn /\ noReply' = TRUE
--------------------------------------------------------------------------------
(* What the server answers.                                                   *)
Matches(v) == {t \in Txns : book[t] # "gone" /\ v \in {book[t], "all"}}
RowOf(t) == [id |-> t, category |-> book[t]]
Nth(t, S) == Cardinality({u \in S : u <= t})
(* Mutant: a page has one row too many.                                       *)
ResultOfOneMore(q) ==
    LET all == Matches(q.view)
        skip == (q.page - 1) * PageSize
    IN [rows |-> {RowOf(t) : t \in {u \in all : Nth(u, all) \in skip + 1 .. skip + PageSize + 1}},
        total |-> Cardinality(all), is |-> TRUE]

Result(q) ==
    LET all == Matches(q.view)
        skip == (q.page - 1) * PageSize
    IN [rows |-> {RowOf(t) : t \in {u \in all : Nth(u, all) \in skip + 1 .. skip + PageSize}},
        total |-> Cardinality(all), is |-> TRUE]

(* SWR: of the fetches of a query the latest counts, and none that an edit of *)
(* the list has overtaken.                                                    *)
Overtaken(q) == {[g EXCEPT !.counts = @ /\ g.query # q] : g \in gets}
NewGet(q, n) == [query |-> q, reply |-> NoList, counts |-> TRUE, try |-> n]
Refetched(q) == Overtaken(q) \cup {NewGet(q, 0)}
Edit(q, list) == /\ lists' = [lists EXCEPT ![q] = list]
                 /\ errors' = errors \ {q}
                 /\ gets' = Overtaken(q)
                 /\ crossed' = IF gets' = gets THEN crossed ELSE Txns
(* A query that comes on screen is fetched, or shares a fetch just begun.     *)
Visit(q, gs) == IF \E g \in gs : g.query = q /\ g.counts
                THEN gets' = gs /\ crossed' = Txns
                ELSE gets' = gs \cup {NewGet(q, 0)} /\ UNCHANGED crossed

GetServed == \E g \in gets :
    /\ ~g.reply.is
    /\ gets' = (gets \ {g}) \cup {[g EXCEPT !.reply = Result(g.query)]}
    /\ UNCHANGED <<book, query, lists, errors, backup, asks, form, debounce, crossed, tpBounds>>

(* Mutant: an answer is shown for whichever query is on screen.               *)
GetAnsweredAnywhere == \E g \in gets :
    /\ g.reply.is
    /\ gets' = gets \ {g}
    /\ lists' = [lists EXCEPT ![query] = g.reply]
    /\ errors' = errors \ {g.query} /\ backup' = [backup EXCEPT ![g.query] = g.reply]
    /\ UNCHANGED <<book, query, asks, form, debounce, crossed, tpBounds>>

GetAnswered == \E g \in gets :
    /\ g.reply.is
    /\ gets' = gets \ {g}
    /\ IF g.counts
       THEN lists' = [lists EXCEPT ![g.query] = g.reply] /\ errors' = errors \ {g.query}
       ELSE UNCHANGED <<lists, errors>>
    /\ backup' = [backup EXCEPT ![g.query] = g.reply]
    /\ UNCHANGED <<book, query, asks, form, debounce, crossed, tpBounds>>

(* Mutant: a fetch that fails twice leaves no error.                          *)
GetFailedQuietly == \E g \in gets :
    /\ NoReply
    /\ gets' = gets \ {g}
    /\ lists' = IF g.counts /\ backup[g.query].is
                THEN [lists EXCEPT ![g.query] = backup[g.query]] ELSE lists
    /\ UNCHANGED <<book, query, errors, backup, asks, form, debounce, crossed, askCount>>

(* getTransactions answers a failure with its copy; without one the fetch     *)
(* failed, and SWR tries once more.                                           *)
GetFailed == \E g \in gets :
    /\ NoReply
    /\ IF backup[g.query].is
       THEN /\ gets' = gets \ {g}
            /\ lists' = IF g.counts THEN [lists EXCEPT ![g.query] = backup[g.query]] ELSE lists
            /\ UNCHANGED errors
       ELSE /\ gets' = (gets \ {g}) \cup
                  (IF g.counts /\ g.try = 0 THEN {NewGet(g.query, 1)} ELSE {})
            /\ errors' = IF g.counts THEN errors \cup {g.query} ELSE errors
            /\ UNCHANGED lists
    /\ UNCHANGED <<book, query, backup, asks, form, debounce, crossed, askCount>>
--------------------------------------------------------------------------------
TurnRest == UNCHANGED <<book, lists, errors, backup, asks, form, askCount, noReply>>

(* A filter: handleFilterChange refetches, which is the list of the old query.*)
ChooseFilter == \E v \in Views \ {query.view} :
    /\ Turn /\ query' = [view |-> v, page |-> 1]
    /\ Visit(query', Refetched(query))
    /\ UNCHANGED debounce /\ TurnRest

(* The scope and the search change the query; their page stays until, for the *)
(* search, the timer fires.                                                   *)
Narrow(typed) == \E v \in Views \ {query.view} :
    /\ Turn /\ query' = [query EXCEPT !.view = v]
    /\ Visit(query', gets)
    /\ debounce' = (debounce \/ typed) /\ TurnRest
ChooseScope == Narrow(FALSE)
TypeSearch == Narrow(TRUE)

DebounceFires ==
    /\ debounce /\ debounce' = FALSE
    /\ query' = [query EXCEPT !.page = 1]
    /\ IF query' = query THEN gets' = Refetched(query) /\ UNCHANGED crossed
       ELSE Visit(query', Refetched(query))
    /\ UNCHANGED turns /\ TurnRest

Pages == LET n == lists[query].total IN IF n = 0 THEN 1 ELSE (n + PageSize - 1) \div PageSize
TurnPage ==
    /\ Turn
    /\ \/ query.page > 1 /\ query' = [query EXCEPT !.page = @ - 1]
       \/ query.page < Pages /\ query' = [query EXCEPT !.page = @ + 1]
    /\ Visit(query', gets)
    /\ UNCHANGED debounce /\ TurnRest

Retry == /\ query \in errors /\ \A g \in gets : g.query # query
         /\ gets' = Refetched(query)
         /\ UNCHANGED <<query, debounce, crossed, turns>> /\ TurnRest
--------------------------------------------------------------------------------
Rows == lists[query].rows
Loading == ~lists[query].is /\ query \notin errors
OnThisPage(t) == ~Loading /\ \E r \in Rows : r.id = t

Asks(kind, t, c) ==
    /\ askCount < MaxAsks /\ askCount' = askCount + 1
    /\ asks' = asks \cup {[id |-> askCount + 1, kind |-> kind, txn |-> t, category |-> c,
                           pc |-> "sent"]}
    /\ crossed' = crossed \cup {t2 \in {t} : \E a \in asks : a.txn = t2}
    /\ UNCHANGED <<book, query, lists, errors, backup, gets, debounce, turns, noReply>>

(* The category of a row, the delete button of a manual one, and the modals   *)
(* to edit a row or add one, whose button is off while they wait.             *)
PickCategory == \E t \in Txns, c \in Categories :
    OnThisPage(t) /\ form = NoForm /\ Asks("category", t, c) /\ UNCHANGED form
ConfirmDelete == \E t \in Txns :
    OnThisPage(t) /\ form = NoForm /\ Asks("delete", t, "gone") /\ UNCHANGED form
FormRest == UNCHANGED <<book, query, lists, errors, backup, gets, asks, debounce, crossed, tpBounds>>
OpenEdit == \E t \in Txns :
    form = NoForm /\ OnThisPage(t) /\ form' = Form("edit", t) /\ FormRest
OpenAdd == \E t \in Txns :
    form = NoForm /\ ~OnThisPage(t) /\ book[t] = "gone" /\ form' = Form("add", t) /\ FormRest
SubmitModal(kind) == \E c \in Categories :
    /\ form.kind = kind /\ ~\E a \in asks : a.kind = kind
    /\ Asks(kind, form.txn, c) /\ UNCHANGED form
SaveEdit == SubmitModal("edit")
SaveAdd == SubmitModal("add")
CloseForm ==
    /\ form # NoForm /\ form' = NoForm /\ FormRest

(* The server handles a request: it refuses what is gone.                     *)
AskServed == \E a \in asks :
    /\ a.pc = "sent" /\ (a.kind # "add" => book[a.txn] # "gone")
    /\ book' = [book EXCEPT ![a.txn] = a.category]
    /\ asks' = (asks \ {a}) \cup {[a EXCEPT !.pc = "served"]}
    /\ UNCHANGED <<query, lists, errors, backup, gets, form, debounce, crossed, tpBounds>>

(* updateOne and remove edit the list; where there is none yet they make one. *)
Recategorised(l, a) ==
    LET row == [id |-> a.txn, category |-> a.category] IN
    IF l.is THEN [l EXCEPT !.rows = {IF r.id = a.txn THEN row ELSE r : r \in l.rows}]
    ELSE [rows |-> {row}, total |-> 1, is |-> TRUE]
Without(l, a) ==
    IF l.is THEN [rows |-> {r \in l.rows : r.id # a.txn}, is |-> TRUE,
                  total |-> IF l.total = 0 THEN 0 ELSE l.total - 1]
    ELSE [rows |-> {}, total |-> 0, is |-> TRUE]

AskDone(a) == /\ a.pc = "served" /\ asks' = asks \ {a}
              /\ UNCHANGED <<book, query, backup, debounce, tpBounds>>
CategoryAnswered == \E a \in asks :
    /\ a.kind = "category" /\ AskDone(a)
    /\ Edit(query, Recategorised(lists[query], a)) /\ UNCHANGED form
DeleteAnswered == \E a \in asks :
    /\ a.kind = "delete" /\ AskDone(a)
    /\ Edit(query, Without(lists[query], a)) /\ UNCHANGED form

(* Mutant: a saved form closes without a refetch.                             *)
FormAnsweredQuietly == \E a \in asks :
    /\ a.kind \in {"edit", "add"} /\ AskDone(a)
    /\ form' = IF form.kind = a.kind THEN NoForm ELSE form
    /\ UNCHANGED <<lists, errors, crossed, gets>>

(* The modals refetch and close, whichever transaction they are open for.     *)
FormAnswered == \E a \in asks :
    /\ a.kind \in {"edit", "add"} /\ AskDone(a)
    /\ form' = IF form.kind = a.kind THEN NoForm ELSE form
    /\ gets' = Refetched(query) /\ UNCHANGED <<lists, errors, crossed>>

AskFailed == \E a \in asks :
    /\ asks' = asks \ {a}
    /\ \/ a.pc = "sent" /\ a.kind # "add" /\ book[a.txn] = "gone"
          /\ UNCHANGED <<noReply, turns>>
       \/ NoReply
    /\ UNCHANGED <<book, query, lists, errors, backup, gets, form, debounce, crossed, askCount>>
--------------------------------------------------------------------------------
TransactionsPageInit ==
    /\ \E c \in Categories : book = [t \in Txns |-> IF t \in Posted THEN c ELSE "gone"]
    /\ query = [view |-> "all", page |-> 1]
    /\ lists = [q \in Queries |-> NoList] /\ errors = {}
    /\ backup = [q \in Queries |-> NoList]
    /\ gets = {NewGet(query, 0)} /\ asks = {} /\ form = NoForm
    /\ debounce = FALSE /\ crossed = {}
    /\ noReply = FALSE /\ askCount = 0 /\ turns = 0

TransactionsPageNext ==
    \/ GetServed \/ GetAnswered \/ GetFailed
    \/ ChooseFilter \/ ChooseScope \/ TypeSearch \/ DebounceFires \/ TurnPage \/ Retry
    \/ PickCategory \/ ConfirmDelete
    \/ OpenEdit \/ OpenAdd \/ SaveEdit \/ SaveAdd \/ CloseForm
    \/ AskServed \/ CategoryAnswered \/ DeleteAnswered \/ FormAnswered \/ AskFailed

(* Requests end in an answer or an error.                                     *)
TransactionsPageSpec == TransactionsPageInit /\ [][TransactionsPageNext]_tpVars
                        /\ WF_tpVars(GetServed) /\ WF_tpVars(GetAnswered)
--------------------------------------------------------------------------------
List == [rows : SUBSET Row, total : 0 .. Cardinality(Txns), is : BOOLEAN]
TransactionsPageTypeOK ==
    /\ book \in [Txns -> Categories \cup {"gone"}] /\ query \in Queries
    /\ \A q \in Queries : {lists[q], backup[q]} \subseteq List /\ Cardinality(lists[q].rows) <= PageSize
    /\ errors \subseteq Queries /\ crossed \subseteq Txns
    /\ \A g \in gets : g.query \in Queries /\ g.reply \in List /\ g.try \in {0, 1}
    /\ \A q \in Queries : Cardinality({g \in gets : g.query = q /\ g.counts}) <= 1
    /\ \A a \in asks : a.kind \in {"category", "delete", "edit", "add"} /\ a.txn \in Txns

(* With nothing in flight, a row on screen shows what the server holds,       *)
(* however the visitor moved between queries while a handler was waiting,     *)
(* unless a request failed, two changes of one transaction overlapped, an    *)
(* edit overtook a fetch or a visit shared the fetch of an earlier one.       *)
RowsCurrent ==
    gets = {} /\ asks = {} /\ ~noReply =>
        \A r \in Rows : r.id \notin crossed => book[r.id] = r.category

(* "Loading..." is not shown for ever: the query on screen gets a list or an  *)
(* error, whatever was fetched, edited or left meanwhile.                     *)
LoadingEnds == Loading ~> ~Loading

(* "No transactions found" (Transactions.tsx:464) is shown, with nothing in   *)
(* flight, only if the server finds none on that page.                        *)
EmptyIsEmpty ==
    gets = {} /\ asks = {} /\ ~noReply /\ ~Loading /\ Rows = {} => Result(query).rows = {}

(* "Auto-apply search with debouncing to avoid excessive API calls while      *)
(* typing" (Transactions.tsx:152): typing by itself fetches nothing.          *)
TypingFetchesNothing == [][debounce' /\ ~debounce => gets' = gets]_tpVars
================================================================================
