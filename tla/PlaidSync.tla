----------------------------- MODULE PlaidSync -----------------------------
(***************************************************************************)
(* One Plaid Item and the workers that run sync_plaid_item on it           *)
(* (backend/services/plaid_sync.py): the webhook mark, the process and     *)
(* safety-net jobs' selection, the inline sync of exchange-token, paging   *)
(* with the mutation restart, the single commit of rows and cursor, the    *)
(* error handlers, retention, worker crashes.  The Item keeps at least one *)
(* active linked account that Plaid lists, and Txns are the transactions   *)
(* of its linked accounts.                                                 *)
(***************************************************************************)
EXTENDS PlaidFeed

CONSTANTS Workers,     \* request handlers and job runs
          Essential,   \* the owner's plan prunes old transactions
          FaultKinds,  \* faults that happen: subset of {"plaid", "db", "crash"}
          MaxFaults    \* bound: faults that ever happen

ASSUME FaultsAssumption ==
  /\ MaxFaults \in Nat
  /\ Essential \in BOOLEAN
  /\ FaultKinds \subseteq {"plaid", "db", "crash"}

VARIABLES item,     \* the plaid_items row
          rows,     \* the transactions table
          old,      \* transactions whose ts is before the retention cutoff
          login,    \* the institution wants the user to log in again
          worker,   \* local state of each sync_plaid_item call
          faults    \* faults left

syncVars == <<item, rows, old, login, worker, faults>>
vars == <<head, feed, item, rows, old, login, worker, faults>>

Statuses == {"active", "sync_needed", "syncing", "failed", "needs_reauth"}

Rows == [at : Positions, archived : BOOLEAN]
absent == [at |-> 0, archived |-> FALSE]

Items == [sync_status : Statuses, next_cursor : Positions,
          last_synced_at : {"never", "recent", "stale"},
          last_webhook_at : Positions]

\* One call of sync_plaid_item: where it is, the status its Item object loaded,
\* initial_cursor, the position of the current pass, the restarts so far, the
\* payloads collected, and whether its transaction holds the link rows.
Calls == [pc : {"idle", "picked", "syncing", "loaded", "open", "paging",
                "fetched", "denied", "errored"},
          seen : Statuses \union {"expired"},
          cursor : Positions, upto : Positions, attempt : 0..1,
          batch : SUBSET [txn : Txns, to : [at : Positions, gone : BOOLEAN]],
          locked : BOOLEAN]

Idle == [pc |-> "idle", seen |-> "expired", cursor |-> 0, upto |-> 0,
         attempt |-> 0, batch |-> {}, locked |-> FALSE]

TypeOK ==
  /\ FeedTypeOK
  /\ item \in Items
  /\ rows \in [Txns -> Rows]
  /\ old \subseteq Txns
  /\ login \in BOOLEAN
  /\ worker \in [Workers -> Calls]
  /\ faults \in 0..MaxFaults

\* A freshly exchanged Item: committed as sync_needed, nothing fetched.
Init ==
  /\ FeedInit
  /\ item = [sync_status |-> "sync_needed", next_cursor |-> 0,
             last_synced_at |-> "never", last_webhook_at |-> 0]
  /\ rows = [t \in Txns |-> absent]
  /\ old = {}
  /\ login = FALSE
  /\ worker = [w \in Workers |-> Idle]
  /\ faults = MaxFaults

Fault(kind) == kind \in FaultKinds /\ faults > 0 /\ faults' = faults - 1

\* The ORM writes an attribute only when it differs from the value it loaded:
\* the status column after assigning `new` to an object that loaded `seen`.
Written(seen, new) == IF seen = new THEN item.sync_status ELSE new

-----------------------------------------------------------------------------
(* Plaid, time and the user *)

PlaidUpdates ==
  /\ \E t \in Txns, gone \in BOOLEAN : Emit(t, gone)
  /\ UNCHANGED syncVars

LoginExpires ==
  /\ ~login
  /\ login' = TRUE
  /\ UNCHANGED <<head, feed, item, rows, old, worker, faults>>

\* plaid_safety_net_minutes pass since the last successful sync.
Stale ==
  /\ item.last_synced_at = "recent"
  /\ item' = [item EXCEPT !.last_synced_at = "stale"]
  /\ UNCHANGED <<head, feed, rows, old, login, worker, faults>>

\* The retention cutoff (a year ago) passes the date of a transaction.
Age(t) ==
  /\ Essential
  /\ t \notin old
  /\ feed[head][t].at # 0
  /\ old' = old \union {t}
  /\ UNCHANGED <<head, feed, item, rows, login, worker, faults>>

-----------------------------------------------------------------------------
(* Who starts a sync *)

\* mark_plaid_item_sync_needed, called when a webhook of the Item is accepted.
MarkSyncNeeded ==
  /\ item' = [item EXCEPT
       !.last_webhook_at = head,
       !.sync_status = IF @ = "needs_reauth" THEN @ ELSE "sync_needed"]
  /\ UNCHANGED <<head, feed, rows, old, login, worker, faults>>

ProcessDue == item.sync_status \in {"sync_needed", "failed"}

\* Mutant: the safety net looks at dirty and never-synced Items only.
SafetyNetDirtyOnly == ProcessDue \/ item.last_synced_at = "never"

SafetyNetDue ==
  \/ ProcessDue
  \/ item.last_synced_at = "never"
  \/ item.sync_status = "active" /\ item.last_synced_at = "stale"

\* A job's SELECT returns the Item; its turn in the batch comes later, by then
\* expired by another Item's commit unless it is the first of the batch.
Pick(w) ==
  /\ worker[w].pc = "idle"
  /\ \E seen \in {item.sync_status, "expired"} :
       worker' = [worker EXCEPT ![w] = [Idle EXCEPT !.pc = "picked", !.seen = seen]]
  /\ UNCHANGED <<head, feed, item, rows, old, login, faults>>

ProcessJob(w) == ProcessDue /\ Pick(w)
SafetyNetJob(w) == SafetyNetDue /\ Pick(w)

\* The user completes Plaid Link on the existing Item: exchange-token commits
\* sync_needed and runs the sync inline.
ExchangeToken(w) ==
  /\ worker[w].pc = "idle"
  /\ login' = FALSE
  /\ item' = [item EXCEPT !.sync_status = "sync_needed"]
  /\ worker' = [worker EXCEPT ![w] = [Idle EXCEPT !.pc = "picked"]]
  /\ UNCHANGED <<head, feed, rows, old, faults>>

-----------------------------------------------------------------------------
(* sync_plaid_item *)

\* The first commit: syncing.
Start(w) ==
  /\ worker[w].pc = "picked"
  /\ item' = [item EXCEPT !.sync_status = Written(worker[w].seen, "syncing")]
  /\ worker' = [worker EXCEPT ![w].pc = "syncing"]
  /\ UNCHANGED <<head, feed, rows, old, login, faults>>

\* The commit expired the Item; reading item.secret_ref loads all of it again.
Load(w) ==
  /\ worker[w].pc = "syncing"
  /\ worker' = [worker EXCEPT ![w].pc = "loaded",
                              ![w].seen = item.sync_status,
                              ![w].cursor = item.next_cursor]
  /\ UNCHANGED <<head, feed, item, rows, old, login, faults>>

\* Mutant: the flush of the links comes only with the final commit.
HydrateLinksUnlocked(w) ==
  /\ worker[w].pc = "loaded"
  /\ ~login
  /\ worker' = [worker EXCEPT ![w].pc = "open"]
  /\ UNCHANGED <<head, feed, item, rows, old, login, faults>>

\* hydrate_plaid_item_account_links: after fetch_accounts the flush updates
\* last_seen_at of every matched link row, which locks those rows until this
\* transaction ends; another sync of the Item waits here.
HydrateLinks(w) ==
  /\ worker[w].pc = "loaded"
  /\ ~login
  /\ \A v \in Workers : ~worker[v].locked
  /\ worker' = [worker EXCEPT ![w].pc = "open", ![w].locked = TRUE]
  /\ UNCHANGED <<head, feed, item, rows, old, login, faults>>

\* One fetch_transactions_sync_page call.  The first page of a pass fixes the
\* position the pass runs to; has_more is false only once all is delivered.
FetchPage(w) ==
  /\ worker[w].pc \in {"open", "paging"}
  /\ ~login
  /\ LET upto == IF worker[w].pc = "open" THEN head ELSE worker[w].upto
         rest == Delta(feed, worker[w].cursor, upto) \ worker[w].batch
     IN \E page \in SUBSET rest, has_more \in BOOLEAN :
          /\ page = {} => rest = {} /\ ~has_more
          /\ page # rest => has_more
          /\ worker' = [worker EXCEPT
               ![w].pc = IF has_more THEN "paging" ELSE "fetched",
               ![w].upto = upto,
               ![w].batch = @ \union page]
  /\ UNCHANGED <<head, feed, item, rows, old, login, faults>>

\* Mutant: the restart keeps the payloads of the abandoned pass.
RestartKeepsPayloads(w) ==
  /\ worker[w].pc = "paging"
  /\ worker[w].upto < head
  /\ worker' = [worker EXCEPT
       ![w] = IF @.attempt = 0 THEN [@ EXCEPT !.pc = "open", !.attempt = 1]
              ELSE [@ EXCEPT !.pc = "errored"]]
  /\ UNCHANGED <<head, feed, item, rows, old, login, faults>>

\* Mutant: every mutation restarts the pass.
RestartForever(w) ==
  /\ worker[w].pc = "paging"
  /\ worker[w].upto < head
  /\ worker' = [worker EXCEPT
       ![w] = [@ EXCEPT !.pc = "open", !.attempt = @ + 1, !.batch = {}]]
  /\ UNCHANGED <<head, feed, item, rows, old, login, faults>>

\* Plaid reports TRANSACTIONS_SYNC_MUTATION_DURING_PAGINATION: the first time
\* the pass restarts from the stable cursor, the second time it is an error.
MutationDuringPagination(w) ==
  /\ worker[w].pc = "paging"
  /\ worker[w].upto < head
  /\ worker' = [worker EXCEPT
       ![w] = IF @.attempt = 0
              THEN [@ EXCEPT !.pc = "open", !.attempt = 1, !.batch = {}]
              ELSE [@ EXCEPT !.pc = "errored"]]
  /\ UNCHANGED <<head, feed, item, rows, old, login, faults>>

\* get_secret, fetch_accounts or a page fails.
PlaidError(w) ==
  /\ worker[w].pc \in {"loaded", "open", "paging"}
  /\ Fault("plaid")
  /\ worker' = [worker EXCEPT ![w].pc = "errored"]
  /\ UNCHANGED <<head, feed, item, rows, old, login>>

LoginRequired(w) ==
  /\ worker[w].pc \in {"loaded", "open", "paging"}
  /\ login
  /\ worker' = [worker EXCEPT ![w].pc = "denied"]
  /\ UNCHANGED <<head, feed, item, rows, old, login, faults>>

InBatch(w, t) == \E d \in worker[w].batch : d.txn = t

\* Retention deletes a row that an upsert or a tombstone made dirty: the flush
\* of the dirty row matches no row and the commit raises.
Poisoned(w) == Essential /\ \E t \in old : InBatch(w, t) /\ rows[t].at # 0

\* Mutant: removals are ignored.
AppliedNoTombstone(row, to) ==
  IF ~to.gone THEN [at |-> to.at, archived |-> FALSE] ELSE row

\* Mutant: modified payloads of known rows are skipped.
AppliedInsertOnly(row, to) ==
  IF ~to.gone THEN (IF row.at = 0 THEN [at |-> to.at, archived |-> FALSE] ELSE row)
  ELSE IF row.at = 0 THEN row
  ELSE [row EXCEPT !.archived = TRUE]

\* _upsert_plaid_transaction, or _tombstone_removed_transactions, for one delta.
Applied(row, to) ==
  IF ~to.gone THEN [at |-> to.at, archived |-> FALSE]
  ELSE IF row.at = 0 THEN row
  ELSE [row EXCEPT !.archived = TRUE]

\* The transactions table after the batch and _apply_retention_policy, whose
\* DELETE does not see the rows this transaction has not flushed yet.
RowsAfter(w) ==
  [t \in Txns |->
     IF InBatch(w, t)
     THEN Applied(rows[t], (CHOOSE d \in worker[w].batch : d.txn = t).to)
     ELSE IF Essential /\ t \in old THEN absent ELSE rows[t]]

\* Rows, cursor, status and timestamps in one commit.
Commit(w) ==
  /\ worker[w].pc = "fetched"
  /\ ~Poisoned(w)
  /\ rows' = RowsAfter(w)
  /\ item' = [item EXCEPT !.next_cursor = worker[w].upto,
                          !.sync_status = Written(worker[w].seen, "active"),
                          !.last_synced_at = "recent"]
  /\ worker' = [worker EXCEPT ![w] = Idle]
  /\ UNCHANGED <<head, feed, old, login, faults>>

\* A flush or the commit raises.  The handler's own commit raises again
\* because the session was not rolled back: nothing is recorded.
DbError(w) ==
  /\ \/ worker[w].pc = "fetched" /\ Poisoned(w) /\ UNCHANGED faults
     \/ worker[w].pc \in {"picked", "loaded", "fetched"} /\ Fault("db")
  /\ worker' = [worker EXCEPT ![w] = Idle]
  /\ UNCHANGED <<head, feed, item, rows, old, login>>

\* except PlaidItemLoginRequired
RecordReauth(w) ==
  /\ worker[w].pc = "denied"
  /\ item' = [item EXCEPT !.sync_status = Written(worker[w].seen, "needs_reauth")]
  /\ worker' = [worker EXCEPT ![w] = Idle]
  /\ UNCHANGED <<head, feed, rows, old, login, faults>>

\* Mutant: the failure handler saves the cursor it had reached.
RecordFailureSavesCursor(w) ==
  /\ worker[w].pc = "errored"
  /\ item' = [item EXCEPT !.sync_status = Written(worker[w].seen, "failed"),
                          !.next_cursor = IF worker[w].upto > @ THEN worker[w].upto ELSE @]
  /\ worker' = [worker EXCEPT ![w] = Idle]
  /\ UNCHANGED <<head, feed, rows, old, login, faults>>

\* Mutant: the failure handler only logs.
RecordFailureLogsOnly(w) ==
  /\ worker[w].pc = "errored"
  /\ worker' = [worker EXCEPT ![w] = Idle]
  /\ UNCHANGED <<head, feed, item, rows, old, login, faults>>

\* except Exception
RecordFailure(w) ==
  /\ worker[w].pc = "errored"
  /\ item' = [item EXCEPT !.sync_status = Written(worker[w].seen, "failed")]
  /\ worker' = [worker EXCEPT ![w] = Idle]
  /\ UNCHANGED <<head, feed, rows, old, login, faults>>

\* The process dies; the database rolls its transaction back.
Crash(w) ==
  /\ worker[w].pc # "idle"
  /\ Fault("crash")
  /\ worker' = [worker EXCEPT ![w] = Idle]
  /\ UNCHANGED <<head, feed, item, rows, old, login>>

-----------------------------------------------------------------------------
Finish(w) == Commit(w) \/ DbError(w) \/ RecordReauth(w) \/ RecordFailure(w)

Step(w) ==
  \/ Start(w) \/ Load(w) \/ HydrateLinks(w) \/ FetchPage(w)
  \/ MutationDuringPagination(w) \/ LoginRequired(w) \/ Finish(w)

Next ==
  \/ PlaidUpdates \/ LoginExpires \/ Stale \/ MarkSyncNeeded
  \/ \E t \in Txns : Age(t)
  \/ \E w \in Workers :
       \/ ProcessJob(w) \/ SafetyNetJob(w) \/ ExchangeToken(w)
       \/ Step(w) \/ PlaidError(w) \/ Crash(w)

Spec == Init /\ [][Next]_vars

\* Handlers run, Cloud Scheduler keeps calling the safety-net job, time passes.
Fairness ==
  /\ WF_vars(Stale)
  /\ \A w \in Workers : WF_vars(Step(w)) /\ WF_vars(SafetyNetJob(w))

FairSpec == Spec /\ Fairness

-----------------------------------------------------------------------------
(* Properties *)

\* The update of t that a reader of the transactions table sees, 0 for none.
Shown(t) == IF rows[t].archived THEN 0 ELSE rows[t].at

\* However webhooks, jobs, inline syncs, restarts, errors and crashes
\* interleave, the table shows exactly Plaid's picture at next_cursor: no
\* update behind the cursor is missing, undone or applied early.  Only what
\* the Essential retention prunes may be absent.
RowsMatchCursor ==
  \A t \in Txns :
    Shown(t) = Live(feed, item.next_cursor, t) \/ (t \in old /\ Shown(t) = 0)

\* The payloads one sync applies hold at most one update per transaction.  Two
\* would add the same new row twice, since the existence query does not see
\* unflushed rows, and the unique index would then fail the commit.
OneDeltaPerTxn ==
  \A w \in Workers : \A d, e \in worker[w].batch : d.txn = e.txn => d = e

\* A sync that ends leaves the Item active, needs_reauth or failed: the Item is
\* never syncing with nobody working on it, a state neither job selects.
SyncingMeansInFlight ==
  item.sync_status = "syncing" => \E w \in Workers : worker[w].pc # "idle"

\* A running sync that will read the feed up to position n, or is about to
\* record that it failed.
WillCover(w, n) ==
  \/ worker[w].pc \notin {"idle", "paging", "fetched"}
  \/ worker[w].pc \in {"paging", "fetched"} /\ worker[w].upto >= n

\* After an accepted webhook the Item stays dirty for the process job until a
\* sync that reads past the webhook's update is on its way.
AcceptedWebhookKeepsItemDue ==
  item.last_webhook_at > item.next_cursor =>
    \/ ProcessDue
    \/ item.sync_status = "needs_reauth"
    \/ \E w \in Workers : WillCover(w, item.last_webhook_at)

\* Once the user has reconnected, the Item is not parked in needs_reauth,
\* where no webhook and no job would pick it up again.
ReconnectUnparks ==
  item.sync_status = "needs_reauth" /\ ~login =>
    \E w \in Workers : worker[w].pc # "idle"

\* The engine implements TransactionFeed: rows and cursor move together and
\* only forward.
Feed == INSTANCE TransactionFeed
          WITH cursor <- item.next_cursor, view <- [t \in Txns |-> Shown(t)]
ImplementsFeed == Feed!Spec

\* If the institution eventually stops asking for a login, every update Plaid
\* made is eventually ingested, even if no webhook of it ever arrives.
CatchesUp ==
  <>[]~login => \A n \in 1..MaxHead : (head >= n) ~> (item.next_cursor >= n)
=============================================================================
