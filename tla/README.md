# Formal models of JuaLuma

TLA+ modules, TLC configurations and TLAPS proofs about the parts of JuaLuma where
several requests, jobs, tabs and external services change the same state. In the
backend (`backend/`): ingesting bank transactions from Plaid, the plan that Stripe's
webhooks write, households, and the support tickets. In the two web clients
(`frontend-app/`, `support-portal/`): the session and the phone's push token, Plaid
Link, onboarding, the linked accounts, the AI assistant, the transactions, the budget
goals, the settings, and the support desk. Paths below are relative to the
repository's root.

    tlc -workers 2 -config MCPlaidSync_faults.cfg MCPlaidSync
    tlapm PlaidSync_proofs.tla

## 1. The system

**Backend.** One FastAPI process per server instance runs handlers on a thread pool;
Cloud Run starts up to ten instances (`infra/envs/dev/main.tf:48`) over one PostgreSQL
database (`docker-compose.yml:14`), at READ COMMITTED. So any two requests,
webhooks or jobs may interleave at every commit and every external call. Sessions
have no autoflush; a row object is loaded once and reloaded only after a commit of
its own session; an UPDATE names only the columns whose value differs from what was
loaded. A failed flush makes every later commit of the session raise until it is
rolled back. These facts are in the models: `Written` and `Assign` (a status is
written only if it differs from the one loaded), `Write` in `Billing`, `DbError`, the
columns a support handler commits in `SupportTickets`.

**Web clients.** Both are React applications. JavaScript runs to completion between
two awaits, so an action is the code from one awaited answer, timer or press to the
next one; a handler that awaits keeps the values its closure saw when the render
that made it ran. A request is sent, served by the backend (which is when the stored
state changes or is read) and answered, three separate moments; it may also fail, and
an answer may be lost after the backend has acted. SWR shows the answer of the
newest fetch of a key only, and drops a fetch that an edit of the cached list overtook.
localStorage and sessionStorage outlive a page load; React state and requests' handlers
do not.

### Inventory

| Component | State | Operations | Hard behaviour | What makes it correct |
|---|---|---|---|---|
| Plaid sync of one Item (`services/plaid_sync.py`) | `plaid_items` row, `transactions`, link rows | mark, select, sync (load, hydrate, page, commit), error handlers, retention | overlapping syncs, mutation while paging, stale cursor, failed commit, crash | rows always equal Plaid's picture at the stored cursor; updates are eventually ingested; a sync's end is recorded |
| Webhook intake and jobs (`api/plaid_webhooks.py`, `api/jobs.py`) | `plaid_webhook_events`, all Items | receive, mark, run process or safety-net job | duplicates, reordering, crash between two commits, LIMIT | an answered webhook has marked its Item; no healthy Item starves |
| Plaid Item lifecycle (`api/plaid.py`, `api/accounts.py`, cleanup) | Items, links, accounts, secrets, Plaid's Items | link token, exchange, delete account, dormant cleanup | tier limit read then write, removal at Plaid before the commit, secrets | no billed Item without a row, no limit exceeded, secrets live as long as their Item |
| Billing (`services/billing.py`) | `subscriptions`, `users.status`, Stripe's subscription | six webhooks, verify, select free plan, checkout | webhooks reordered and repeated, two commits, grace period | the row says what Stripe says; an answered checkout enters the app |
| Households (`services/household_service.py`) | `households`, `household_members`, `household_invites`, plan | create, invite, cancel, accept, leave, remove | check then write over three commits and a Stripe call | seats within the limit, owner stays a member, dependents not billed |
| Support tickets (`api/support.py`, `api/support_portal.py`) | `support_tickets` | message, close, reply, pick up, assign, escalate, resolve | read, decide and commit without a lock; only changed columns are written | a ticket nobody holds is in the agents' queue |
| Client session (`services/gcp_auth_driver.ts`, `auth.ts`, `useAuth.tsx`) | tokens, localStorage, user, profile, loading | sign in, sign up with cleanup, sign out, restore, refresh, load profile, second factor | late answers, five-second timeout, backoff, concurrent calls | signed out is final; the spinner ends |
| Push token (`pushTokenLifecycle.ts`) | queue, `syncedByUid`, registered devices | token, sign-in, release, reset | tokens renewed between queued operations; the app is killed | a signed-out phone gets no messages, a signed-in one does |
| Plaid Link (`PlaidLinkButton.tsx`) | link token, sessionStorage | fetch token, open, bank's site and back, exchange | redirect loses the page, tokens expire | Link resumes with the token it was opened with |
| Onboarding (`pages/Signup`, `Login`, `VerifyEmail`, `PlanSelection`, `Checkout*`, `JoinHousehold`, `ProtectedRoute`) | address with its `returnUrl`, profile | submits and redirects of ten pages | each page decides alone on a profile that may be stale | redirects end; an invitation is kept; nobody pays twice |
| Linked accounts (`ConnectAccounts.tsx`, `useAccounts.ts`) | SWR list, localStorage copy, dialogs | link, edit, remove, sync one or all | in-place edits race reloads | what is linked shows, what was removed does not return |
| AI assistant (`AIAssistant.tsx`, `QuickAIChat.tsx`) | threads in localStorage and in state, streams | ask, stop, new, select, delete, digest, quick chat | answers of minutes, saved into lists a closure saw | threads are stored; an answer follows its question |
| Transactions (`Transactions.tsx`, modals, `useTransactions.ts`) | SWR list per query, forms | filter, page, search, category, edit, add, delete | handlers write into whichever query is on screen | rows agree with the server |
| Budgets and reports (`FinancialAnalysis.tsx`, `useBudget*.ts`, `useAnalytics.ts`, `api/budgets.py`) | goals, status, history, charts | edit, clear, reset, bulk, scope, period | loads unordered, a household's access revoked | goals on screen are the stored ones |
| Settings (`Settings.tsx`) | switches, forms, second factors, session and household lists | toggle, save, set up, verify, disable, end session, remove | overlapping loads and changes, two devices | page and backend agree; nobody is locked out |
| Household page (`HouseholdPage.tsx`) | household or forms | create, accept, invite, leave | reload not awaited | shows what is stored |
| Support clients (`support-portal`, `pages/Support.tsx`, `TicketDetail.tsx`) | session, tab, list, panel, reply | sign in, refresh, open, reply, assign, close | answers to a ticket no longer open, refresh after sign-out | pages come back, the dashboard needs a session |
| Signup (`api/auth.py`, `_ensure_user_from_pending`) | `pending_signups`, `users`, agreements, payments | sign up, OTP, activate, expire | four commits, concurrent activation, crash | a user has the agreements the signup had |
| Sessions (`middleware/auth.py`) | `user_sessions`, key cache | authenticate, end sessions | insert race, killed session re-created | a killed session admits nobody |
| AI quota (`services/ai.py`), notifications, digests | usage per period, preferences, dedupe keys | check, call, increment; create, send | read then write, send after commit | usage bounded, one message per key |
| Accounts, wallets, manual assets, documents, analytics, widgets, payouts | their tables | CRUD, reports, batch jobs | little: one commit per request | - |
| Dashboard, marketing, mobile shell, migrations, infrastructure, mail/SMS | - | - | pure I/O or no state of their own | - |

Interactions: exchange-token and Plaid's webhooks make Items due, the scheduler's
jobs and exchange-token sync them; deleting the last account or the cleanup job
removes an Item; joining a household cancels a Stripe subscription, whose webhook
comes back to Billing; Billing's handlers turn a pending signup into a user; every
feature gate reads the row Billing writes. The clients talk to the backend through
requests only; customers and agents meet in the tickets' rows, the members of a
household in its goals. PROJECT.json lists each component with its status, and each
hazard with its line and what covers it.

## 2. Modules

| Module | Role |
|---|---|
| `PlaidFeed` | Plaid's side of one Item as the code uses it: numbered positions, the picture at each, net updates between two (`Delta`) |
| `TransactionFeed` | abstract specification: visible transactions always reflect one position, which only moves forward |
| `PlaidSync` | one Item, any number of overlapping calls of `sync_plaid_item`; implements `TransactionFeed` |
| `PlaidJobs` | all Items: intake in two commits, both jobs with ORDER BY and LIMIT, batches; a sync is shortened to load, read, commit |
| `Billing` | one user's plan under webhooks and requests on several instances |
| `Household` | creation, invites, acceptance in four steps, departures, Stripe |
| `WebSession`, `PushTokens`, `PlaidLink`, `BudgetGoals` | the session of a tab, a phone's push token, the bank's button, the goals page; composed in `MCSession` |
| `Onboarding`, `LinkedAccounts`, `AiChat`, `TransactionsPage` | four visits of the web application; composed in `MCWebPages` |
| `Preferences`, `MfaSettings`, `SettingsLists`, `HouseholdPage` | the tabs of the settings page, and the household page |
| `SupportTickets`, `SupportDesk`, `TicketPage`, `PortalSession` | the tickets' handlers, the agent's desk and the customer's pages over them (both extend `SupportTickets`), and the portal's session; with the row above composed in `MCAccountPages` |
| `*_proofs` | theorems about the module or composition they extend; the two visits with a list of rows in `ListPages_proofs`, the other two of `MCWebPages` in `WebPages_proofs` |
| `MC*` | constants, symmetry and compositions for TLC |

The three compositions choose one part at the start (`client`, `visit`) and let only
that part move: the pages of a browser share no state but what the models name, so
their interleaving would add states and no behaviour. Where two parts do share
state they are composed for real: `SupportDesk` and `TicketPage` run over the handlers
of `SupportTickets` with other agents and the customer's phone acting meanwhile,
and `AiChat` holds both chats over one localStorage. Each module has its own
`Init`, `Next`, fairness and properties and can be checked alone.

### PlaidSync against the code

`item` is the `plaid_items` row (status, `next_cursor`, `last_synced_at` as
never/recent/stale relative to the safety-net window, `last_webhook_at` as the
feed position the webhook announced). `rows` is the transactions table: per
transaction the position of the update it holds, and whether it is archived.
`worker[w]` holds the locals of one call. Each action is the code from one commit
or external call to the next:

| Action | Code in `services/plaid_sync.py` |
|---|---|
| `MarkSyncNeeded` | `mark_plaid_item_sync_needed` 322-347 |
| `ProcessJob`, `SafetyNetJob` | selection in `process_due_plaid_items` 502-547 |
| `ExchangeToken` | reconnection in `api/plaid.py` 302-429: commit, then the inline sync |
| `Start`, `Load` | commit of `syncing` 356-360; reload of the expired row 363-366 |
| `HydrateLinks` | 133-191: its flush updates every listed link row, so it waits for another sync's transaction |
| `FetchPage`, `MutationDuringPagination` | the paging loop 372-395 with one restart |
| `Commit` | upserts, tombstones, retention, cursor and status in one transaction 397-472 |
| `DbError` | a flush or commit raises and the handler's commit (497) raises again |
| `RecordReauth`, `RecordFailure`, `Crash` | the two handlers 473-499; the process dies |

The one non-obvious fact is that correctness under overlap rests on a side effect:
nothing locks the Item, but `hydrate_plaid_item_account_links` flushes
`last_seen_at` of the links before the first page, and that row lock is held to the
end of the transaction. `HydrateLinksUnlocked`, the mutant without it, loses
updates.

Abstractions: a transaction is a model value, an update its position in the
feed; pages are arbitrary non-empty subsets of what is left; Plaid delivers the net
updates of a pass, never reuses a removed id, and reports a mutation only between
pages of one pass. The Item keeps at least one active linked account that Plaid
lists (otherwise hydrate flushes no row and takes no lock).

### PlaidJobs against the code

The sequences `needed` and `others` are the order the jobs' query sees: Items with
`sync_needed_at` oldest first, then the rest by `updated_at`; `Those` is the part of a
queue with given members, by the number of its positions, and stands for the query's
`WHERE` as well as for taking a row out of the order. `events` holds the
dedupe keys (`DedupeKey`: the webhook id, or without one the hash of the body,
which is the same for each `SYNC_UPDATES_AVAILABLE` of an Item). `recorded` are
webhooks between the event's commit and the mark. `Broken` Items always fail (their
secret was purged by an account deletion, for example), `Denied` ones need a login.
A run holds its batch; each Item's sync is `StartSync`, `Fetch`, and `Commit` or an
error handler. `AbortBatch` is the exception that leaves `process_due_plaid_items`,
or a dead process.

### Billing against the code

`stripe`, `trialed`, `paid` and `sent` are Stripe: status, trial_end, and the webhooks
in the order they happened. A handler is `Load` (the row it decides on), then
`KeepGrace`, `Raise`, or `Write` (first commit of `update_user_tier`) and `Activate`
(second commit and the answer). `Change` is the decision table of the five
handlers, `TrialEnded` reads the subscription from Stripe at that moment, as
the code retrieves it. `Database` is there because the behaviour differs: renew_at
is read back with a time zone from PostgreSQL and without one from SQLite, which the
tests use. Each subscription has a plan of its own, so that `row.plan` tells which
subscription wrote it.

### Household against the code

Each request is its checks (`Check...`) and, in a later step, its write; leave and
remove are one commit each. Accepting goes `CheckAccept`, `CancelStripe` (only if the
row has a paid plan), `WriteTier` (a commit of its own), `Join`. A household is named by
its owner. An invite is accepted by its addressee. `Webhook` is what Billing does
once Stripe's status changed.

### The client's session

`WebSession`: `session` is the account of the driver's user, tokens and localStorage,
which are always set together; `user`, `profile`, `loading`, `waiting` (listeners whose
five-second race has not ended), `backoff`, `gate` (the second factor) belong to
`AuthProvider`; `flow` says at which await each of the six asynchronous calls stands
and for which account. `SignupSubmit` ... `DeleteAnswer` is the signup with its
cleanup, `Refreshed` and `RefreshFailed` are `getIdToken`, `Timer` and `BackoffOver`
the two timers, `FlowFails` what a rejected promise runs.

`PushTokens`: every operation goes through one promise queue (`queue`, its head at the
request in `running`), so an action is one step of the head; `LogoutPressed` awaits a
release and a reset, `Killed` loses the queue and keeps localStorage.

`PlaidLink`: the tokens are numbered; `ToBank`, `FromBank` leave the page and open a
new one, which keeps `storedToken` only.

`BudgetGoals`: `goals` are the rows of the visitor and of the household's admin,
`data[h]` what hook `h` holds and the key it was fetched for, `reads` and `writes`
the requests in flight. `MayRead`, `CanEdit` are the backend's checks; `HandleSave` is
the editor's blur, which always closes it, so the period, threshold and switch beside
the amount cannot be reached and are not modelled. `sure` records for which hooks
`GoalsCurrent` is claimed. `followed` restricts a behaviour to the requests of some
hooks, which do not influence each other.

### The web pages

`Onboarding`: an address is the sequence of its page and the `returnUrl` it carries,
again an address. `RouteGuard`, `VerifyEmailEffect`, `PlanSelectionEffect` and the
others are the redirects as written on each page; `Redirect` is the one that is due.

`LinkedAccounts`: an account is the version of its details, 0 when absent. `held`,
`listed`, `kept` are server, SWR list and localStorage copy. `Submit...` sends,
`Applied` is the server, `LinkAnswered`, `EditAnswered`, `RemoveAnswered`, `Finish` are the
rest of the handlers, with the reloads they await. `RemovedStaysGone` leaves out an
account whose removal was sent twice: the second answer takes it off a list that the
first one's reload may be restoring. `LinkedWillShow` is an action property: the reload a
link started is overtaken by the answer to an edit, which mutates the list in place.

`AiChat`: a message is known by the exchanges its text came from. `threads` is the
assistant's state, `stored` and `copies` are localStorage; a stream keeps the list of
the render that asked. `LeftBehind` is a stream whose page was left.

`TransactionsPage`: `lists`, `errors`, `backup` per query; `gets` are fetches with SWR's
currency flag, `asks` the handlers in flight; a handler that ends edits the list of the
query on screen by then (`AskDone`). `crossed` marks transactions about which
`RowsCurrent` promises nothing.

### Settings, household and support

`Preferences`: `flips` are the requests of the switches, `settingsLoad` the four
requests of one load, `saving` the request of each form. `MfaSettings`: `account` at the
backend, with the pending secret, next to the page's copy; `Elsewhere` is another
device. `SettingsLists`: a list is loaded when its tab opens and after each change.
`HouseholdPage`: `fetches` and `deeds` (handlers under way).

`SupportTickets`: a handler is `HandlerReads`, then `HandlerCommits` or `HandlerRefuses`;
`Rewritten` is what it makes of the row it read, and the commit writes the columns
that differ over the row as it is then. `SupportDesk` and `TicketPage` add what the two
clients do with the answers; an answer that arrives at a page opened later is
recognised by `mount`. `PortalSession`: memory and localStorage, `routeUser` is what the
listener of the route was told; a refresh under way saves what it brings back.

## 3. Runs

Every property is listed with a mutant of the code in PROJECT.json: a definition
replaced by a version with a plausible bug, under which TLC finds the property
violated in the same configuration.

| Run | Question | Bounds |
|---|---|---|
| `plaid_faults` | do overlapping syncs lose, undo or double-insert an update, with retention, Plaid errors, database errors and crashes? | 2 workers, 2 transactions, 2 updates, 1 fault |
| `plaid_catches_up` | does the safety net alone ingest everything, and is the end of a sync recorded? | 1 worker, 2 transactions, 3 updates, 2 Plaid errors |
| `jobs_intake` | is a webhook ever answered without a mark? | 2 Items, 2 updates each, LIMIT 1, one abort |
| `jobs_live` | does a failing Item starve another? | 2 Items, 1 broken, LIMIT 2, one intake crash, no webhook ids |
| `billing_race` | does an answered checkout always enter the app? | 2 handlers, 4 webhooks, any order, verify and free plan, 1 crash |
| `billing_ordered` | does the row end at what Stripe says? | 7 webhooks in order, 2 crashes, PostgreSQL |
| `household_seats` | are seats handed out twice, one request at a time, and does an owner stay? | 3 users, 3 invites, limit 2, 1 fault |
| `session` | does signing out last, does the spinner end, do pushes follow the person, does Link return with its token, are the goals on screen the stored ones? | 2 people; per part 1-3 sign-ins, tokens or changes and 1 fault |
| `web_pages` | do redirects end, do lists, threads and rows agree with what is stored, do answers follow their questions? | 5 entry links; 2 changes and 1-2 faults or moves per visit |
| `account_pages` | do settings, factors, lists, the household page and the tickets agree with the backend, and does every button come back? | 2-5 presses, 1 fault, 1 change elsewhere per visit |
| `billing_grace` | finding | 5 webhooks |
| `household_billed` | finding | 2 users, 1 invite, 2 threads |

Two larger configurations without a run of their own pass as well:
`MCPlaidSync_overlap` (2 workers, 3 updates, no faults: `RowsMatchCursor`,
`OneDeltaPerTxn`, `SyncingMeansInFlight`, `ImplementsFeed`) and `MCHousehold_owners`
(`OwnersStay` with 2 overlapping requests and a crash). `BudgetGoals` alone was also
checked with three events (354,500 states).

Why these bounds are enough to be interesting. Two syncs and two updates let one
call load a cursor, the other move it, and the first replay an update or a
removal over newer rows; a third update makes the second mutation of a pass, which
fails it. Two transactions let a page split a pass. One fault is enough to cut any one
sync at any step next to another. Two Items with LIMIT 1 make an Item wait for
another run; LIMIT 2 makes a batch whose second object was expired by the first one's
commit. Seven ordered webhooks reach trial, conversion, failed payment,
recovery and deletion in one behaviour. A limit of 2 with three invites lets a seat
be promised, freed by cancellation, expiry or departure, and promised again; the
code compares counts with the constant and nothing else depends on its size. On the
pages two changes and one failure are what it takes for an answer to arrive out
of order and for a handler to act on what its closure saw: two loads, a load and an edit,
an answer and a change of page; a third only repeats one of these pairs. `MaxPresses = 5`
lets a second factor be set up, verified, changed, disabled and set up again while
another device does the same once.

Symmetry is declared only in configurations without liveness. Deadlock checking is
off where a bounded environment runs out (`CHECK_DEADLOCK FALSE` in `jobs_intake`,
Billing, Household and the clients: all invites used, all webhooks answered, no press
left). In `PlaidSync` and `jobs_live` it is on.

Fairness of the backend (`plaid_catches_up`, `jobs_live`): a handler or job that is
running goes on (`WF` of its steps: every external call returns or raises), time passes
(`Stale`), and Cloud Scheduler keeps calling the safety-net job. Nothing is assumed of
Plaid's webhooks, of the process job's schedule or of users. `CatchesUp` assumes that the
institution eventually stops asking for a login, since only the user can
answer that. Bounded updates and faults stand for an environment that is eventually
quiet.

Fairness of the clients: a request ends in an answer or an error (the browser settles
every fetch), a timer that was started fires, and React runs the effect that redirects.
`WebSession` assumes still less, only its timers: `LoadEnds` holds although no request
need ever be answered, which is what the timeout is for. Nothing is assumed of the
visitor, who may stop at any point.

What is not claimed. Several page properties are limited to what the pages can know:
history variables (`sure`, `crossed`, `unsure`, `doubtful`, `stale`, `unsureHousehold`,
`unseen`, `unsettled`) record that loads of one list overlapped, a request failed or
another device changed the row; the code has no order on such answers, and the
property speaks of the rest. The comment of each property says which. `LinkedWillShow`, `RemovedStaysGone` and the bounds:
both were once stated too strongly and held only because two submits were too few to break
them; the attempt to prove them showed it, and they say now what any number of submits
allows.

### Findings

Two runs end in a violation of what the repository's text says.

- `billing_grace`: on PostgreSQL `grace_end <= now` compares an aware with a naive
  datetime; the payment webhooks of a `past_due` row answer 500 and the promised
  downgrade (backend/services/email.py:183) does not happen.
- `household_billed`: `cancel_user_subscription` lists `active` subscriptions only, so one
  in its trial survives joining a household (household_service.py:297).

Further counterexamples document the limits of the properties above. Where the
first column names a `.cfg` of a run or of the list above, put the property in place of
those of that file, with the constants given.

| Configuration | Property | What happens |
|---|---|---|
| `MCPlaidSync_overlap` | `AcceptedWebhookKeepsItemDue` | a webhook accepted after a sync's last page is overwritten by its final commit (428); only the safety net ingests that update |
| `MCPlaidSync_overlap` | `ReconnectUnparks` | a login error met before a reconnection is recorded after it (474) and parks a healthy Item |
| `MCPlaidSync_overlap`, `Essential = TRUE` | `SyncingMeansInFlight` | retention deletes a row that the upsert made dirty, the flush matches no row and the handler's own commit raises: the status stays `syncing`, not `failed` (docs/Plaid-Webhook-Cursor-Architecture.md:42) |
| `MCPlaidJobs_starve` | `EveryUpdateIngested` | as many broken Items as a batch holds sort before every stale one for ever (530) |
| `MCPlaidJobs_intake`, `HasWebhookId = FALSE` | `AnsweredMeansMarked` | without webhook ids the second webhook of an Item is a duplicate of the first |
| `MCPlaidJobs_intake`, `FaultKinds <- WebhookFault` | `AnsweredMeansMarked` | a crash between event and mark turns the retry into a duplicate |
| `MCBilling_converted` | `NoDowngradeInGrace` | trial_end of a converted trial skips the grace period (1136) |
| `MCBilling_access` | `GraceKeepsAccess` | feature gates ignore a `past_due` row (core/dependencies.py:19) |
| `MCBilling_reorder` | `DeletedMeansFree` | an older webhook after the deletion gives the plan back |
| `MCBilling_mixed` | `NoMixedRow` | two handlers with the same loaded row write half a decision each |
| `MCBilling_upgrade` | `UpgradeKeepsPlan` | deleting the old subscription takes the new plan |
| `MCHousehold_limit` | `WithinLimit` | an invite cancelled while it is being accepted frees a seat |
| `MCHousehold_limit` | `CancelledAdmitsNobody` | ... and admits its addressee after the cancellation was confirmed |
| `MCSession_clients` | `CleanupDeletesItsOwn` | a refused signup deletes whoever is signed in by then (auth.ts:137) |
| `MCSession_clients` | `AlwaysReturnsWithItsToken` | Link closed and opened again leaves no stored token for the way back |
| `MCSession_clients` | `EditsAreSaved` | a viewer's edit of the household's goals is refused and only logged (FinancialAnalysis.tsx:595) |
| `MCSession_clients`, `Follows = {{"budgets", "status"}}` | `StatusFollowsGoals` | what is spent is not fetched again after an edit (FinancialAnalysis.tsx:784) |
| `MCWebPages_visits` | `HistoryKept` | an answer of the quick chat replaces its thread by what is on screen by then: another thread's messages, or only the last eight that opening it restored (QuickAIChat.tsx:246) |
| `MCWebPages_visits` | `AskedOnceAgreed` | the quick chat asks without the agreement the assistant demands (AIAssistant.tsx:681) |
| `MCWebPages_visits` | `RoomIsOffered` | the limits known from before a removal send a user with room to the upgrade page (ConnectAccounts.tsx:1413) |
| `MCWebPages_visits` | `EmptyIsEmpty` | the last row of a page is deleted and the page shows none (Transactions.tsx:464) |
| `MCWebPages_visits` | `TypingFetchesNothing` | the query follows the field, so typing fetches at once; the timer only turns to the first page or fetches once more (Transactions.tsx:152) |
| `MCWebPages_visits`, `SameOrigin = TRUE` | `JoinedSkipsPlans` | who leaves the join page before it has reloaded the profile is asked for a plan |
| the same with `Entries <- NestedLinks` | `RedirectsSettle` | plan selection and the invitation send a visitor to each other |
| `MCAccountPages_visits` | `UpdatedMeansStored` | an emptied threshold is reported as saved and stays in force |
| `MCAccountPages_visits` | `AutoVerifiesSetupCode` | a code typed before the secret was drawn is sent by the effect (Settings.tsx:853) |
| `MCAccountPages_visits`, `Tickets = {"t", "u"}`, `MaxDeskReads = 2` | `SentWhereWritten` | a late refresh changes the panel under the reply |
| `MCAccountPages_visits` | `ClosedStaysClosed` | the same refresh opens a panel that was closed |
| `MCAccountPages_visits`, `MaxDeskReads = 2` | `RowsAreOfTab` | the list of the tab left last arrives last |
| `MCAccountPages_visits` | `SignOutIsFinal`, `OneIdentity` | a refresh that was under way signs the agent in again, with an e-mail that is not the account's |
| `MCAccountPages_visits`, `SPECIFICATION DeletionSpec` | `NobodyForgotten` | deleting an agent's account leaves assigned tickets without a holder |

## 4. Proofs

TLAPS checks every theorem for all values of the constants that satisfy the named
assumptions of the modules (`...Assumption`). They give the parameters their types
(bounds are natural numbers, Items and accounts are finite sets, agents are distinct from
customers and from nobody, a page of transactions is not empty and the query's pages hold
all of them); TLC evaluates each on every run. Every safety property that a run checks,
invariant or action property, is stated by a theorem.

| Theorem | Property | Further assumption |
|---|---|---|
| `PlaidSync_proofs!TypeCorrect` | `TypeOK` | |
| `PlaidSync_proofs!NoUpdateLost` | `RowsMatchCursor` | |
| `PlaidSync_proofs!NoDoubleInsert` | `OneDeltaPerTxn` | |
| `PlaidSync_proofs!Refinement` | `ImplementsFeed` | |
| `PlaidSync_proofs!EndsRecorded` | `SyncingMeansInFlight` | no retention, crash or database error |
| `PlaidJobs_proofs!AnswersAreKept` | `AnsweredMeansMarked` | webhook ids; intake handlers do not die |
| `PlaidJobs_proofs!QueuesAreWhole` | `TypeOK` | |
| `Billing_proofs!TypeCorrect`, `CheckoutEnters` | `TypeOK`, `HandledMeansEntered` | |
| `Billing_proofs!LastWordStands` | `LastWordWins` | one subscription, one handler, webhooks in order, no other requests |
| `Household_proofs!TypeCorrect`, `OwnersNeverLeave` | `TypeOK`, `OwnersStay` | |
| `Household_proofs!SeatsAreKept` | `SeatsReserved` | one thread, finitely many users and invites |
| `Session_proofs!ClientsAreTyped`, `SignedOutIsForGood`, `SpinnerNeverAlone` | `ClientsTypeOK`, `SignedOutForGood`, `SpinnerHasCause` | |
| `Session_proofs!BankGetsItsToken`, `GoalsOnScreenAreStored` | `ReturnsWithItsToken`, `GoalsCurrent` | |
| `ListPages_proofs!RemovedRowsStayGone`, `LinksShow`, `RowsOnScreenAreStored` | `RemovedStaysGone`, `LinkedWillShow`, `RowsCurrent` | |
| `WebPages_proofs!PagesAreTyped`, `PlanIsKnown` | `PagesTypeOK`, `ReturnsActive` | |
| `WebPages_proofs!InvitationsAreKept` | `InviteKept` | no link carries an invitation behind the developers' signup or the pricing page |
| `WebPages_proofs!ThreadsStayAgreed`, `AnswersStandBehind` | `ThreadsAgree`, `AnswersFollowQuestions` | |
| `AccountPages_proofs!AccountIsTyped`, `SettingsShown`, `FactorsWork` | `AccountTypeOK`, `SettingsAgree`, `FactorsAgree` | |
| `AccountPages_proofs!ListsShowWhatIsStored`, `HouseholdShown` | `ListedIsStored`, `HouseholdIsStored` | |
| `AccountPages_proofs!NobodyIsForgotten` | `NobodyForgotten` | no agent's account is deleted |
| `AccountPages_proofs!DashboardIsGuarded` | `DashboardNeedsSession` | |

The further assumptions are those under which the property holds and the run checks it; the
table of counterexamples shows what happens without webhook ids, when the intake dies, with
two threads, with webhooks out of order, and when an agent's account is deleted. The
links of `MCWebPages` (`Links`, `NestedLinks`) all satisfy the assumption on invitations.

**PlaidSync.** `RowsMatchCursor` is not inductive: a call commits a batch it collected
long ago from a cursor it read even earlier. `IInv` adds `FeedInv` (pictures of the
feed are monotone, and an unchanged last update means an unchanged transaction),
`LockInv` (one call at a time past hydrate) and `CallInv`: a call's cursor is not ahead
of the stored one, under the lock its pass ends at or after the stored one, and its
batch is a part of `Delta` from its cursor to its pass's end, all of it once fetched.
The heart of the proof is the commit: a transaction not in `Delta(feed, cursor, upto)`
did not change between the call's cursor and `upto`, hence (by `FeedInv`) not between
the stored cursor and `upto`, so its row is right already; one in it gets its
picture at `upto`. The same lemma gives the refinement: `Commit` is `Ingests`,
updates and ageing map to themselves, all else stutters. `EndsRecorded` uses
another invariant, `Anchored`: an Item that says `syncing` has a call whose object
loaded `syncing` or that will still load, so its final status will be written.

**PlaidJobs.** `EventsServed`: the event of every committed webhook has led to a
mark as new as its update, or its handler is between the two commits. That is what
makes answering a duplicate at once safe, and what a crash or a
shared dedupe key breaks. `QueuesAreWhole` is more than a type: every Item is in the order
exactly once, so a job can neither lose one nor sync it twice in a batch. `Numbered`
shows that counting the positions up to each member numbers a finite set of positions, on
which `ThoseKept` (members and order of a part of a queue) and `SelectedIsQueue` rest;
the invariant adds that a run that has begun has an Item.

**Billing.** `Serves`: a handler that will answer position n of `sent` works on the
webhook at that position. Only then does the answer's step know that the event it
acknowledges was the one whose activation it just committed. Payment webhooks may be
answered by `KeepGrace` without activation; a checkout never is.
For `LastWordStands`, `OrderInv` adds that the last webhook sent tells the state Stripe is
in (`Tells`: this needs no more than how `StripeMoves` emits), that the handler works on a
webhook after all those answered and over the row there is, and that once it has written the
last one, before or after its second commit, the row says it.

**Household.** `SentForGood`: a request between its two steps refers to an invite that
was sent, so a write never creates half a row. `OwnersStay` then follows since `Join`
and `Create` both refuse a user who has a home at their commit (the unique uid), and
departures exclude owners. `SeatsReserved` counts: `SeatInv` adds that a request about to
write an invite still has a seat free for it (`KeptSeat`) and that the invite a request is
accepting is still open until its `Join` (`StillOpen`), so that its seat is counted all
along; the theorems on cardinalities turn one open invite less and one member more into
the same number of seats. Both parts are lost as soon as two requests overlap.

**Support desk.** `NobodyForgotten` says nothing of the rows that handlers have read, on
which their commits depend. `TicketsInv` adds that every row read is itself good (a
row nobody holds is not escalated and its queue follows from its status), and that a
ticket once held stays held, so that a handler whose row had a holder commits over one
that has. The lemma `MergeKeepsRows` is the heart: whatever mixture of an older decision
and newer columns a commit makes, the row is good. It needs that every write which
takes a ticket out of the plain states also names a holder. The two pages only read
(`DeskSteps`, `TicketPageSteps`), and the theorem is about the whole composition.
`DashboardIsGuarded` uses `PortalInv`: the route shows the dashboard only after it was
told of a user, and each step that ends the session tells it.

**Session, phone, Link and goals.** The four parts of `MCSession` have an invariant each,
and a step of one leaves the others alone. Of a session, `TabInv` needs `SpinnerHasCause`
itself and that nobody is shown after a sign-out; a profile that arrives late is harmless
because of where each call may stand (`CallsPlaced`). `SignedOutIsSilent` is about what the
backend holds at the end of a queue of operations, so `PhoneInv` relates all of it: the
order of the operations still queued (`QueueInOrder`: once a logout waits, its release is
there and only tokens follow), whom the running request is for (`RunningForSession`), and
the registered devices (`DevicesKnown`: those of the session, with the token remembered for
it or the one being registered). `TokenKept` follows Link's token over the two page loads.
`GoalsCurrent` holds because a hook that is claimed (`sure`) is `Settled`: nothing of it is
in flight and it shows the answer, or exactly one load is, for the key on screen, whose
answer if it has one is still right; for the goals this is suspended between a write's
commit and its answer, when the reload is still to come (`ToReload`).

**Lists of the web pages.** A list is right or the one fetch that counts will make it right
(`OneCurrent`, `OneCounts`): that of SWR is what both proofs turn on. `Timely`: the answer of
the current fetch names what the server holds, except for an account whose link or
removal still waits for its answer; this gives both action properties. For transactions,
`ScreenKnown` says that each row on screen is right, or a change of its transaction waits
for its answer, or changes of it crossed, or a fetch of that query counts; `ChangesKnown`
says that two changes of one transaction at once have crossed.

**Way in and chats.** `InviteKept` and `ReturnsActive` are action properties of `WayInv`: an
address is a sequence of pages of the application in which at most the first is another
site's (`Address`), a handler remembers an address within the application and is on a page
it belongs to (`CallsKnown`), and every redirect takes a part of the address or puts a page
before it, which is how an invitation survives links of any length. `ChatInv`: a message
waits in sight only if its stream is there and belongs to the chat on screen
(`ScreenStands`), a stream nothing disturbed is the only one and its question is the last
but one message on screen (`CalmKnown`), and a stream whose page was left saves a list in
which at most its own message waits (`LeftKnown`).

**Settings and household.** A list of the settings, a switch, a form and the household are
each shown right, or exactly one request is under way that will make them right and what it
has read already is still stored (`ListFresh`, `SwitchKnown`, `FormKnown`, `HomeSure`); a
second request of the kind moves them to the history variable under which the property
claims nothing. `Usable`, the backend's half of `FactorsAgree`, is inductive by itself;
`SecretKnown` is weaker than its other half between the answer to a change and the reload.

Proofs as reviews. What an invariant must say before it is inductive showed where the models
had been wrong or vague, and they were changed: overlapping alternatives of `CASE`, where
TLC takes the first and TLA+ any (`PushTokens`, `Billing`, `Onboarding`); the set of hooks
sure after a write that is served (`BudgetGoals`); the two properties of
`LinkedAccounts` above; rows of a list of transactions, which are a set in the page's order;
in `PlaidJobs`, `Remove` and `SelectSeq`, which no prover can expand, replaced by `Those`
(the same reachable states).

Only model-checked: liveness (`CatchesUp`, `EveryUpdateIngested`, `ClientsSettle`,
`PagesSettle`, `AccountPagesSettle`, `RedirectsSettle`, `TokenReachesBackend`), which needs
fairness and ENABLED, out of the reach of the proof system.

## 5. Not modelled, and the plan

What comes next, in order of importance:

1. `PlaidLifecycle`: one user's Items, links, accounts, secrets and Plaid's
   Items; exchange-token with the tier limit, deletion of accounts, cleanup
   of dormant Items with its single final commit, crashes between Plaid's answer and
   the commit.
2. `Signup` at the backend: pending signup, OTP, activation from several handlers at once.
3. `BillingHousehold`: both modules on the shared row, replacing `Household!Webhook` by
   Billing's handlers.
4. `AIQuota`, `Alerts`, `Sessions` of the backend, as listed in PROJECT.json.

Left out for good: the marketing site, the mobile shell, the dashboard and the other
read-only pages (their loads are those of `BudgetGoals`), e-mail, SMS and push delivery
(pure I/O), CRUD with one commit per request, read-only analytics, migrations and
infrastructure. In the modelled parts, left out: signature checks, formatting, audit
logs, products and prices, e-mail throttling, account balances, field validation, how
charts are drawn, documents and projects of the assistant, deletion of one's own account.
