---------------------------- MODULE LinkedAccounts -----------------------------
(* The Connect Accounts page of frontend-app (pages/ConnectAccounts.tsx,      *)
(* hooks/useAccounts.ts, services/accounts.ts): the list the page shows is a  *)
(* SWR cache of GET /accounts that every dialog's answer also edits in place, *)
(* with a copy in localStorage for requests that fail.  An account is 0 when  *)
(* it is absent and otherwise the version of its details.                     *)
EXTENDS Naturals, FiniteSets, Sequences

CONSTANTS Linked,         \* wallets and exchanges linked before, synced by hand
          NewAccounts,    \* accounts the visitor may link on the page
          AccountLimit,   \* accounts the plan allows
          MaxSubmits,     \* forms and buttons the visitor submits
          MaxLostReplies  \* requests that end in an error

ASSUME LinkedAccountsAssumption ==
    /\ Linked \cap NewAccounts = {} /\ IsFiniteSet(Linked) /\ IsFiniteSet(NewAccounts)
    /\ {AccountLimit, MaxSubmits, MaxLostReplies} \subseteq Nat

VARIABLES
    held,      \* accounts the server holds
    listed,    \* accounts the page lists
    kept,      \* the list's copy in localStorage, or NoCopy
    fetches,   \* GET /accounts in flight
    requests,  \* handlers in flight, each at its await
    dialog,    \* the dialog that is open, and the account it is about
    syncing,   \* accounts whose row shows the spinner
    limits,    \* what the last GET /accounts/limits said: "unknown", "room", "full"
    leaving,   \* "soon": a timer will load the upgrade page; "gone"
    submits, lostReplies

laVars == <<held, listed, kept, fetches, requests, dialog, syncing, limits, leaving,
            submits, lostReplies>>
bounds == <<submits, lostReplies>>

Accounts == Linked \cup NewAccounts
Lists == [Accounts -> Nat]
NoCopy == <<>>
Closed == [kind |-> "closed", acct |-> ""]
Present(list) == {a \in Accounts : list[a] # 0}
Full == Cardinality(Present(held)) >= AccountLimit
LoseReply == lostReplies < MaxLostReplies /\ lostReplies' = lostReplies + 1
--------------------------------------------------------------------------------
(* SWR: a fetch is current until a newer one starts or the list is edited in  *)
(* place; only the answer of the current one is shown.                        *)
Outdated(fs) == {[f EXCEPT !.current = FALSE] : f \in fs}
(* Mutant: an older fetch stays current.                                      *)
FetchAlso(by) == fetches' = fetches \cup {[by |-> by, reply |-> NoCopy, current |-> TRUE]}

Fetch(by) == fetches' = Outdated(fetches)
                        \cup {[by |-> by, reply |-> NoCopy, current |-> TRUE]}
Edited(list) == listed' = list /\ fetches' = Outdated(fetches)

FetchServed == \E f \in fetches :
    /\ f.reply = NoCopy
    /\ fetches' = (fetches \ {f}) \cup {[f EXCEPT !.reply = held]}
    /\ UNCHANGED <<held, listed, kept, requests, dialog, syncing, limits, leaving, bounds>>

(* getAccounts stores what it got, also for a fetch SWR then ignores, and     *)
(* answers a failure with the copy.                                           *)
FetchAnswered == \E f \in fetches :
    /\ fetches' = fetches \ {f}
    /\ \/ /\ f.reply # NoCopy
          /\ kept' = f.reply /\ listed' = IF f.current THEN f.reply ELSE listed
          /\ UNCHANGED lostReplies
       \/ /\ LoseReply
          /\ listed' = IF f.current /\ kept # NoCopy THEN kept ELSE listed
          /\ UNCHANGED kept
    /\ UNCHANGED <<held, requests, dialog, syncing, limits, leaving, submits>>

(* The limits are asked for when the page mounts and after a link.            *)
LimitsRequest(id) == [id |-> id, kind |-> "limits", acct |-> "", pc |-> "sent",
                      rest |-> <<>>, spins |-> FALSE]

LimitsAnswered == \E r \in requests :
    /\ r.kind = "limits" /\ requests' = requests \ {r}
    /\ \/ limits' = (IF Full THEN "full" ELSE "room") /\ UNCHANGED lostReplies
       \/ UNCHANGED limits /\ LoseReply
    /\ UNCHANGED <<held, listed, kept, fetches, dialog, syncing, leaving, submits>>
--------------------------------------------------------------------------------
(* checkAccountLimit before a form of the connection options opens.           *)
Forms == {"wallet", "exchange", "manual"}
LimitReached == limits = "full"

Connect == \E n \in NewAccounts, form \in Forms :
    /\ dialog = Closed /\ listed[n] = 0 /\ leaving # "gone"
    /\ IF LimitReached
       THEN leaving' = "soon" /\ UNCHANGED dialog
       ELSE dialog' = [kind |-> form, acct |-> n] /\ UNCHANGED leaving
    /\ UNCHANGED <<held, listed, kept, fetches, requests, syncing, limits, bounds>>

OpenRowDialog == \E a \in Present(listed), k \in {"edit", "refresh", "remove"} :
    /\ dialog = Closed /\ leaving # "gone" /\ (k = "refresh" => a \in Linked)
    /\ dialog' = [kind |-> k, acct |-> a]
    /\ UNCHANGED <<held, listed, kept, fetches, requests, syncing, limits, leaving, bounds>>

(* The cross of a dialog stays enabled while its request is in flight.        *)
CloseDialog ==
    /\ dialog # Closed /\ dialog' = Closed
    /\ UNCHANGED <<held, listed, kept, fetches, requests, syncing, limits, leaving, bounds>>

Request(kind, a, rest) ==
    [id |-> submits + 1, kind |-> kind, acct |-> a, pc |-> "sent", rest |-> rest,
     spins |-> kind = "sync"]

Submit(request) ==
    /\ submits < MaxSubmits /\ submits' = submits + 1
    /\ requests' = requests \cup {request}
    /\ UNCHANGED <<held, listed, kept, fetches, dialog, syncing, limits, leaving, lostReplies>>

(* The forms that add an account disable their button while they wait; opened *)
(* anew they are other instances.  The model has one at a time per account.   *)
SubmitAdd(form) ==
    /\ dialog.kind = form
    /\ \A r \in requests : r.kind \notin Forms \/ r.acct # dialog.acct
    /\ Submit(Request(form, dialog.acct, <<>>))
SubmitWallet == SubmitAdd("wallet")
SubmitExchange == SubmitAdd("exchange")
SubmitManual == SubmitAdd("manual")

(* The edit form and the confirmation keep theirs enabled.                    *)
SubmitEdit == dialog.kind = "edit" /\ Submit(Request("edit", dialog.acct, <<>>))

Confirm ==
    \/ dialog.kind = "remove" /\ Submit(Request("remove", dialog.acct, <<>>))
    \/ /\ dialog.kind = "refresh"
       /\ Submit([Request("sync", dialog.acct, <<>>) EXCEPT !.spins = FALSE])

SyncRow == \E a \in Present(listed) \cap Linked :
    /\ submits < MaxSubmits /\ submits' = submits + 1 /\ leaving # "gone"
    /\ a \notin syncing /\ syncing' = syncing \cup {a}
    /\ requests' = requests \cup {Request("sync", a, <<>>)}
    /\ UNCHANGED <<held, listed, kept, fetches, dialog, limits, leaving, lostReplies>>

(* `for (const acc of syncableAccounts)`: the loop and handleSync keep asking *)
(* the syncingAccounts of the render that was clicked.                        *)
Orders(S) == {q \in [1 .. Cardinality(S) -> S] : \A i, j \in DOMAIN q : q[i] = q[j] => i = j}
SyncAll == \E q \in Orders((Present(listed) \cap Linked) \ syncing) :
    /\ submits < MaxSubmits /\ submits' = submits + 1
    /\ q # <<>> /\ leaving # "gone"
    /\ requests' = requests \cup {Request("sync", Head(q), Tail(q))}
    /\ syncing' = syncing \cup {Head(q)}
    /\ UNCHANGED <<held, listed, kept, fetches, dialog, limits, leaving, lostReplies>>
--------------------------------------------------------------------------------
(* The server handles a request, or refuses it.                               *)
Refuses(r) == IF r.kind \in Forms
              THEN held[r.acct] # 0 \/ Full
              ELSE held[r.acct] = 0

Applied == \E r \in requests :
    /\ r.kind # "limits" /\ r.pc = "sent" /\ ~Refuses(r)
    /\ requests' = (requests \ {r}) \cup {[r EXCEPT !.pc = "served"]}
    /\ held' = CASE r.kind \in Forms \cup {"edit"} -> [held EXCEPT ![r.acct] = @ + 1]
                 [] r.kind = "remove" -> [held EXCEPT ![r.acct] = 0]
                 [] OTHER -> held
    /\ UNCHANGED <<listed, kept, fetches, dialog, syncing, limits, leaving, bounds>>

Shuts(kinds) == dialog' = IF dialog.kind \in kinds THEN Closed ELSE dialog

(* A link only asks for the limits again; useAccounts().create also puts the  *)
(* manual account on the list.                                                *)
Adds(r) == listed' = IF r.kind = "manual" THEN [listed EXCEPT ![r.acct] = held[r.acct]]
                                         ELSE listed

(* Mutant: onSuccess does not refetch.                                        *)
LinkAnsweredQuietly == \E r \in requests :
    /\ r.kind \in Forms /\ r.pc = "served"
    /\ requests' = (requests \ {r}) \cup {LimitsRequest(r.id)}
    /\ Shuts({r.kind}) /\ Adds(r)
    /\ UNCHANGED <<held, kept, fetches, syncing, limits, leaving, bounds>>

(* onSuccess closes the form, whichever instance is open, and refetches.      *)
LinkAnswered == \E r \in requests :
    /\ r.kind \in Forms /\ r.pc = "served"
    /\ requests' = (requests \ {r}) \cup {LimitsRequest(r.id)}
    /\ Shuts({r.kind}) /\ Adds(r) /\ Fetch(r.id)
    /\ UNCHANGED <<held, kept, syncing, limits, leaving, bounds>>

(* update: the answer replaces its row; setEditingAccount(null).              *)
EditAnswered == \E r \in requests :
    /\ r.kind = "edit" /\ r.pc = "served"
    /\ requests' = requests \ {r}
    /\ Edited([listed EXCEPT ![r.acct] = IF @ = 0 THEN 0 ELSE held[r.acct]])
    /\ Shuts({"edit"})
    /\ UNCHANGED <<held, kept, syncing, limits, leaving, bounds>>

(* Mutant: the row is taken out of the list behind SWR's back.                *)
RemoveAnsweredAside == \E r \in requests :
    /\ r.kind = "remove" /\ r.pc = "served"
    /\ requests' = (requests \ {r}) \cup {[r EXCEPT !.pc = "refetch"]}
    /\ listed' = [listed EXCEPT ![r.acct] = 0]
    /\ UNCHANGED <<held, kept, fetches, dialog, syncing, limits, leaving, bounds>>

(* remove: the row goes, and the confirmation waits for a refetch.            *)
RemoveAnswered == \E r \in requests :
    /\ r.kind = "remove" /\ r.pc = "served"
    /\ requests' = (requests \ {r}) \cup {[r EXCEPT !.pc = "refetch"]}
    /\ listed' = [listed EXCEPT ![r.acct] = 0] /\ Fetch(r.id)
    /\ UNCHANGED <<held, kept, dialog, syncing, limits, leaving, bounds>>

(* performSync: `await sync(id)` reloads the list, `await refetch()` once     *)
(* more; handleConfirmAction refetches after either action.                   *)
Reloads(r) == CASE r.kind = "sync" /\ r.pc = "served" -> "reload"
                [] r.kind = "sync" /\ r.pc = "reload" -> "reloaded"
                [] r.kind = "sync" /\ r.pc = "reloaded" /\ ~r.spins -> "refetch"
                [] OTHER -> "ends"
Resumes(r) == r.pc # "sent" /\ \A f \in fetches : f.by # r.id

Reload == \E r \in requests :
    /\ r.kind = "sync" /\ Resumes(r) /\ Reloads(r) # "ends"
    /\ requests' = (requests \ {r}) \cup {[r EXCEPT !.pc = Reloads(r)]}
    /\ Fetch(r.id)
    /\ UNCHANGED <<held, listed, kept, dialog, syncing, limits, leaving, bounds>>

(* Mutant: only the confirmation cleans up after itself.                      *)
FinishQuietly(r) ==
    /\ requests' = requests \ {r}
    /\ UNCHANGED syncing
    /\ IF r.spins THEN UNCHANGED dialog ELSE Shuts({"refresh", "remove"})

(* The `finally` of handleSync, and the loop's next account; the confirmation *)
(* closes.                                                                    *)
Finish(r) ==
    /\ requests' = (requests \ {r}) \cup
          (IF r.rest = <<>> THEN {}
           ELSE {[r EXCEPT !.acct = Head(r.rest), !.rest = Tail(r.rest), !.pc = "sent"]})
    /\ syncing' = IF ~r.spins THEN syncing
                  ELSE (syncing \ {r.acct}) \cup (IF r.rest = <<>> THEN {} ELSE {Head(r.rest)})
    /\ IF r.spins THEN UNCHANGED dialog ELSE Shuts({"refresh", "remove"})

ActionEnds == \E r \in requests :
    /\ r.kind \in {"sync", "remove"} /\ Resumes(r) /\ Reloads(r) = "ends"
    /\ r.kind = "remove" => r.pc = "refetch"
    /\ Finish(r)
    /\ UNCHANGED <<held, listed, kept, fetches, limits, leaving, bounds>>

(* A request fails, before or after the server handled it.  A link that hits  *)
(* the limit leaves for the upgrade page, a manual account does not; a        *)
(* refresh still refetches.                                                   *)
RequestFailed == \E r \in requests :
    /\ r.kind # "limits" /\ r.pc \in {"sent", "served"}
    /\ \/ r.pc = "sent" /\ Refuses(r) /\ UNCHANGED lostReplies
       \/ LoseReply
    /\ leaving' = IF r.kind \in {"wallet", "exchange"} /\ r.pc = "sent" /\ held[r.acct] = 0 /\ Refuses(r)
                  THEN "soon" ELSE leaving
    /\ CASE r.kind = "remove" \/ r.spins -> Finish(r) /\ UNCHANGED fetches
         [] r.kind = "sync" /\ ~r.spins ->
              /\ requests' = (requests \ {r}) \cup {[r EXCEPT !.pc = "refetch"]}
              /\ Fetch(r.id) /\ UNCHANGED <<dialog, syncing>>
         [] OTHER -> requests' = requests \ {r} /\ UNCHANGED <<fetches, dialog, syncing>>
    /\ UNCHANGED <<held, listed, kept, limits, submits>>

(* The timer loads another page, whatever the visitor does here.              *)
UpgradePage ==
    /\ leaving = "soon" /\ leaving' = "gone"
    /\ fetches' = {} /\ requests' = {} /\ dialog' = Closed /\ syncing' = {}
    /\ UNCHANGED <<held, listed, kept, limits, bounds>>
--------------------------------------------------------------------------------
LinkedAccountsInit ==
    /\ held = [a \in Accounts |-> IF a \in Linked THEN 1 ELSE 0]
    /\ listed = [a \in Accounts |-> 0] /\ kept = NoCopy
    /\ fetches = {[by |-> 0, reply |-> NoCopy, current |-> TRUE]}
    /\ requests = {LimitsRequest(0)} /\ dialog = Closed /\ syncing = {}
    /\ limits = "unknown" /\ leaving = "no"
    /\ submits = 0 /\ lostReplies = 0

LinkedAccountsNext ==
    \/ FetchServed \/ FetchAnswered \/ LimitsAnswered
    \/ Connect \/ OpenRowDialog \/ CloseDialog
    \/ SubmitWallet \/ SubmitExchange \/ SubmitManual \/ SubmitEdit \/ Confirm
    \/ SyncRow \/ SyncAll
    \/ Applied \/ LinkAnswered \/ EditAnswered \/ RemoveAnswered
    \/ Reload \/ ActionEnds \/ RequestFailed \/ UpgradePage

(* Every request ends in an answer or an error, and a handler goes on.        *)
LinkedAccountsSpec == LinkedAccountsInit /\ [][LinkedAccountsNext]_laVars
                      /\ WF_laVars(FetchServed) /\ WF_laVars(FetchAnswered)
                      /\ WF_laVars(Applied) /\ WF_laVars(RequestFailed)
                      /\ WF_laVars(Reload) /\ WF_laVars(ActionEnds)
--------------------------------------------------------------------------------
LinkedAccountsTypeOK ==
    /\ {held, listed} \subseteq Lists /\ kept \in Lists \cup {NoCopy}
    /\ \A f \in fetches : f.reply \in Lists \cup {NoCopy}
    /\ Cardinality({f \in fetches : f.current}) <= 1
    /\ \A r \in requests : r.kind \in Forms \cup {"limits", "edit", "sync", "remove"}
                         /\ r.pc \in {"sent", "served", "reload", "reloaded", "refetch"}
    /\ syncing \subseteq Linked
    /\ leaving \in {"no", "soon", "gone"}
    /\ limits \in {"unknown", "room", "full"}

(* A removal and a link that wait for their answer, and what the list will    *)
(* show.                                                                      *)
Removing(a) == \E r \in requests : r.kind = "remove" /\ r.acct = a /\ r.pc = "served"
Linking(a) == \E r \in requests : r.kind \in Forms /\ r.acct = a /\ r.pc = "served"
WillShow(a) ==
    \/ held[a] = 0 \/ listed[a] # 0 \/ Linking(a)
    \/ \E f \in fetches : f.current /\ (f.reply = NoCopy \/ f.reply[a] # 0)

(* A row that was removed does not come back while the server has no such     *)
(* account, however reloads overlap with the removal: only a second removal   *)
(* that waits for its answer, or a request that failed, may show it again.    *)
RemovedStaysGone ==
    [][\A a \in Accounts :
          listed[a] = 0 /\ listed'[a] # 0 =>
              held[a] # 0 \/ Removing(a) \/ lostReplies' # 0]_laVars

(* While no request fails, what the server holds is listed, or the answer or  *)
(* the reload that will list it is on its way; only the answer to an edit may *)
(* end that, as it overtakes the reload that a link has started.              *)
LinkedWillShow ==
    [][lostReplies' = 0 /\ leaving' # "gone" =>
          \A a \in Accounts : WillShow(a) => WillShow(a)' \/ EditAnswered]_laVars

(* The spinner of every row stops.                                            *)
SpinnersStop == \A a \in Linked : a \in syncing ~> a \notin syncing

(* "You can reconnect this account anytime from the top panel"                *)
(* (ConnectAccounts.tsx:1413): whoever has room is not sent to upgrade.       *)
RoomIsOffered ==
    [][Connect /\ requests = {} /\ leaving # leaving' => Full]_laVars
================================================================================
