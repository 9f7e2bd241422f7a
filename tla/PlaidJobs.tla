----------------------------- MODULE PlaidJobs -----------------------------
(***************************************************************************)
(* All Plaid Items together: webhook intake in two commits with            *)
(* deduplication (backend/api/plaid_webhooks.py), the process and          *)
(* safety-net jobs that select due Items oldest request first with a LIMIT *)
(* and sync them one after the other (process_due_plaid_items), and an     *)
(* unhandled error that aborts a batch.  The inside of one sync is         *)
(* PlaidSync; here it reads Plaid's position once, under the row locks,    *)
(* and ends with one commit.                                               *)
(***************************************************************************)
EXTENDS Naturals, FiniteSets, Sequences, SequencesExt

CONSTANTS Items,        \* linked Items
          Broken,       \* Items whose sync always fails (a purged secret, say)
          Denied,       \* Items whose institution wants a new login
          BatchSize,    \* LIMIT of one job run
          HasWebhookId, \* webhook payloads carry a webhook_id
          MaxHead,      \* bound: updates of one Item
          FaultKinds,   \* faults that happen: subset of {"webhook", "batch"}
          MaxFaults     \* bound: faults that ever happen

ASSUME JobsAssumption ==
  /\ IsFiniteSet(Items)
  /\ Broken \subseteq Items /\ Denied \subseteq Items /\ Broken \intersect Denied = {}
  /\ BatchSize \in Nat \ {0}
  /\ HasWebhookId \in BOOLEAN
  /\ FaultKinds \subseteq {"webhook", "batch"}
  /\ MaxHead \in Nat /\ MaxFaults \in Nat

VARIABLES head,      \* Plaid: position of the last update of each Item
          status,    \* plaid_items.sync_status
          cursor,    \* plaid_items.next_cursor
          synced,    \* plaid_items.last_synced_at against the safety-net cutoff
          needed,    \* Items with a sync_needed_at, oldest first
          others,    \* the remaining Items, by updated_at
          webhookAt, \* plaid_items.last_webhook_at: newest update marked
          events,    \* dedupe keys in plaid_webhook_events
          recorded,  \* webhooks whose event is committed, mark still to come
          answered,  \* webhooks Plaid got a 200 for
          job,       \* the run of each job
          faults     \* faults left

itemVars == <<status, cursor, synced, needed, others>>
hookVars == <<webhookAt, events, recorded, answered>>
vars == <<head, itemVars, hookVars, job, faults>>

Jobs == {"process", "safety_net"}
Healthy == Items \ (Broken \union Denied)
Updates == [item : Items, at : 1..MaxHead]

Statuses == {"active", "sync_needed", "syncing", "failed", "needs_reauth"}

\* One run of a job: the Items still to do, and for the current one the status
\* its object loaded, whether it loaded a sync_needed_at, and Plaid's position.
NoRun == [pc |-> "idle", batch |-> <<>>, seen |-> "expired", clears |-> FALSE, upto |-> 0]

Runs == [pc : {"idle", "next", "syncing", "fetched"}, batch : Seq(Items),
         seen : Statuses \union {"expired"}, clears : BOOLEAN, upto : 0..MaxHead]

TypeOK ==
  /\ head \in [Items -> 0..MaxHead]
  /\ status \in [Items -> Statuses]
  /\ cursor \in [Items -> 0..MaxHead]
  /\ synced \in [Items -> {"never", "recent", "stale"}]
  /\ needed \in Seq(Items) /\ others \in Seq(Items)
  /\ IsInjective(needed) /\ IsInjective(others)
  /\ ToSet(needed) \union ToSet(others) = Items
  /\ ToSet(needed) \intersect ToSet(others) = {}
  /\ webhookAt \in [Items -> 0..MaxHead]
  /\ events \subseteq Items \union Updates
  /\ recorded \subseteq Updates /\ answered \subseteq Updates
  /\ job \in [Jobs -> Runs] /\ \A k \in Jobs : IsInjective(job[k].batch)
  /\ faults \in 0..MaxFaults

\* Some Items are freshly exchanged, the others were synced before.
Init ==
  /\ head = [i \in Items |-> 0]
  /\ cursor = [i \in Items |-> 0]
  /\ \E fresh \in SUBSET Items :
       /\ status = [i \in Items |-> IF i \in fresh THEN "sync_needed" ELSE "active"]
       /\ synced = [i \in Items |-> IF i \in fresh THEN "never" ELSE "recent"]
       /\ needed = SetToSeq(fresh) /\ others = SetToSeq(Items \ fresh)
  /\ webhookAt = [i \in Items |-> 0]
  /\ events = {} /\ recorded = {} /\ answered = {}
  /\ job = [k \in Jobs |-> NoRun]
  /\ faults = MaxFaults

\* The members of S in a queue q, in its order.
Those(q, S) ==
  LET at == {n \in DOMAIN q : q[n] \in S}
  IN [j \in 1..Cardinality(at) |->
        q[CHOOSE n \in at : Cardinality({m \in at : m <= n}) = j]]
Without(q, i) == Those(q, Items \ {i})

\* sync_needed_at = now, sync_needed_at = NULL, and any other UPDATE of a row.
Request(i) == needed' = Append(Without(needed, i), i) /\ others' = Without(others, i)
\* Mutant: a cleared request queued twice.
ClearTwice(i) == needed' = Without(needed, i) /\ others' = Append(others, i)

Clear(i) == needed' = Without(needed, i) /\ others' = Append(Without(others, i), i)
Touch(i) ==
  /\ needed' = needed
  /\ others' = IF Contains(others, i) THEN Append(Without(others, i), i) ELSE others

-----------------------------------------------------------------------------
(* Plaid and time *)

PlaidUpdates(i) ==
  /\ head[i] < MaxHead
  /\ head' = [head EXCEPT ![i] = @ + 1]
  /\ UNCHANGED <<itemVars, hookVars, job, faults>>

Stale(i) ==
  /\ synced[i] = "recent"
  /\ synced' = [synced EXCEPT ![i] = "stale"]
  /\ UNCHANGED <<head, status, cursor, needed, others, hookVars, job, faults>>

-----------------------------------------------------------------------------
(* plaid_webhook *)

\* build_plaid_webhook_dedupe_key: without a webhook_id the hash of the raw
\* payload, which is the same for every SYNC_UPDATES_AVAILABLE of an Item.
DedupeKey(u) == IF HasWebhookId THEN u ELSE u.item

\* The first commit inserts the event; the unique key makes a repeated one a
\* "duplicate" that is answered at once.  Plaid delivers any number of times.
ReceiveWebhook(u) ==
  /\ u.at <= head[u.item]
  /\ IF DedupeKey(u) \in events
     THEN answered' = answered \union {u} /\ UNCHANGED <<events, recorded>>
     ELSE /\ events' = events \union {DedupeKey(u)}
          /\ recorded' = recorded \union {u}
          /\ UNCHANGED answered
  /\ UNCHANGED <<head, itemVars, webhookAt, job, faults>>

\* Mutant: a webhook of an Item that is being synced is taken as served.
MarkUnlessSyncing(u) ==
  /\ u \in recorded
  /\ LET i == u.item IN
       IF status[i] = "syncing" THEN UNCHANGED <<webhookAt, status, needed, others>>
       ELSE /\ webhookAt' = [webhookAt EXCEPT ![i] = IF u.at > @ THEN u.at ELSE @]
            /\ status' = [status EXCEPT ![i] = IF @ = "needs_reauth" THEN @ ELSE "sync_needed"]
            /\ Request(i)
  /\ recorded' = recorded \ {u}
  /\ answered' = answered \union {u}
  /\ UNCHANGED <<head, cursor, synced, events, job, faults>>

\* mark_plaid_item_sync_needed, the second commit, and the answer.
MarkSyncNeeded(u) ==
  /\ u \in recorded
  /\ LET i == u.item IN
       /\ webhookAt' = [webhookAt EXCEPT ![i] = IF u.at > @ THEN u.at ELSE @]
       /\ status' = [status EXCEPT ![i] = IF @ = "needs_reauth" THEN @ ELSE "sync_needed"]
       /\ Request(i)
  /\ recorded' = recorded \ {u}
  /\ answered' = answered \union {u}
  /\ UNCHANGED <<head, cursor, synced, events, job, faults>>

\* The handler dies between its two commits: no answer, Plaid will retry.
WebhookCrash(u) ==
  /\ u \in recorded
  /\ "webhook" \in FaultKinds /\ faults > 0
  /\ recorded' = recorded \ {u}
  /\ faults' = faults - 1
  /\ UNCHANGED <<head, itemVars, webhookAt, events, answered, job>>

-----------------------------------------------------------------------------
(* process_due_plaid_items *)

\* Mutant: the safety net looks at dirty and new Items only.
DueWithoutStale(k, i) ==
  \/ status[i] \in {"sync_needed", "failed"}
  \/ k = "safety_net" /\ synced[i] = "never"

Due(k, i) ==
  \/ status[i] \in {"sync_needed", "failed"}
  \/ k = "safety_net" /\ synced[i] = "never"
  \/ k = "safety_net" /\ status[i] = "active" /\ synced[i] = "stale"

\* ORDER BY sync_needed_at (NULLs last), updated_at LIMIT batch_size.
Selected(k) ==
  LET due == Those(needed \o others, {i \in Items : Due(k, i)})
  IN SubSeq(due, 1, IF Len(due) < BatchSize THEN Len(due) ELSE BatchSize)

RunJob(k) ==
  /\ job[k].pc = "idle"
  /\ Selected(k) # <<>>
  /\ job' = [job EXCEPT ![k] = [NoRun EXCEPT
              !.pc = "next", !.batch = Selected(k), !.seen = status[Head(Selected(k))]]]
  /\ UNCHANGED <<head, itemVars, hookVars, faults>>

Current(k) == Head(job[k].batch)

\* The ORM writes the status only when it differs from the one it loaded.
Assign(k, new) ==
  status' = [status EXCEPT ![Current(k)] = IF job[k].seen = new THEN @ ELSE new]

\* The first commit of the next Item's sync.
StartSync(k) ==
  /\ job[k].pc = "next"
  /\ Assign(k, "syncing")
  /\ Touch(Current(k))
  /\ job' = [job EXCEPT ![k].pc = "syncing"]
  /\ UNCHANGED <<head, cursor, synced, hookVars, faults>>

\* The Item is loaded and Plaid is read; the row locks keep a second sync of
\* the same Item out until this one ends.
Fetch(k) ==
  /\ job[k].pc = "syncing" /\ Current(k) \in Healthy
  /\ \A j \in Jobs : job[j].pc = "fetched" => Current(j) # Current(k)
  /\ job' = [job EXCEPT ![k].pc = "fetched", ![k].seen = status[Current(k)],
                        ![k].clears = Contains(needed, Current(k)),
                        ![k].upto = head[Current(k)]]
  /\ UNCHANGED <<head, itemVars, hookVars, faults>>

\* The batch goes on with the next Item whatever the sync returned.
NextItem(k) ==
  job' = [job EXCEPT ![k] =
            IF Len(@.batch) = 1 THEN NoRun
            ELSE [NoRun EXCEPT !.pc = "next", !.batch = Tail(job[k].batch)]]

\* The ORM clears sync_needed_at only if it was set when the Item was loaded.
Commit(k) ==
  /\ job[k].pc = "fetched"
  /\ LET i == Current(k) IN
       /\ cursor' = [cursor EXCEPT ![i] = job[k].upto]
       /\ Assign(k, "active")
       /\ synced' = [synced EXCEPT ![i] = "recent"]
       /\ IF job[k].clears THEN Clear(i) ELSE Touch(i)
  /\ NextItem(k)
  /\ UNCHANGED <<head, hookVars, faults>>

RecordFailure(k) ==
  /\ job[k].pc = "syncing" /\ Current(k) \in Broken
  /\ status' = [status EXCEPT ![Current(k)] = "failed"]
  /\ Request(Current(k))
  /\ NextItem(k)
  /\ UNCHANGED <<head, cursor, synced, hookVars, faults>>

RecordReauth(k) ==
  /\ job[k].pc = "syncing" /\ Current(k) \in Denied
  /\ status' = [status EXCEPT ![Current(k)] = "needs_reauth"]
  /\ Clear(Current(k))
  /\ NextItem(k)
  /\ UNCHANGED <<head, cursor, synced, hookVars, faults>>

\* A database error in a sync is raised again by the handler's own commit and
\* leaves process_due_plaid_items, or the process dies: the rest of the batch
\* is dropped and the current Item stays as it is.
AbortBatch(k) ==
  /\ job[k].pc # "idle"
  /\ "batch" \in FaultKinds /\ faults > 0
  /\ job' = [job EXCEPT ![k] = NoRun]
  /\ faults' = faults - 1
  /\ UNCHANGED <<head, itemVars, hookVars>>

SyncStep(k) ==
  StartSync(k) \/ Fetch(k) \/ Commit(k) \/ RecordFailure(k) \/ RecordReauth(k)

Next ==
  \/ \E i \in Items : PlaidUpdates(i) \/ Stale(i)
  \/ \E u \in Updates : ReceiveWebhook(u) \/ MarkSyncNeeded(u) \/ WebhookCrash(u)
  \/ \E k \in Jobs : RunJob(k) \/ SyncStep(k) \/ AbortBatch(k)

Spec == Init /\ [][Next]_vars

\* Time passes, the scheduler runs the safety-net job, jobs and handlers run on.
\* Nothing is assumed of the webhooks or of the process job's schedule.
Fairness ==
  /\ \A i \in Items : WF_vars(Stale(i))
  /\ WF_vars(RunJob("safety_net"))
  /\ \A k \in Jobs : WF_vars(SyncStep(k))
  /\ \A u \in Updates : WF_vars(MarkSyncNeeded(u))

FairSpec == Spec /\ Fairness

-----------------------------------------------------------------------------
(* Properties *)

\* Once Plaid got a 200 for a webhook it will not send it again: by then the
\* Item was marked for that update or a later one, or the handler of such a
\* webhook is about to mark it, although a repeated delivery may be answered
\* while the first one is still between its two commits.
AnsweredMeansMarked ==
  \A u \in answered :
    \/ webhookAt[u.item] >= u.at
    \/ \E v \in recorded : v.item = u.item /\ v.at >= u.at

\* Every update of an Item that can be synced is eventually ingested, whatever
\* happens to its webhooks and however often other Items of the batch fail.
EveryUpdateIngested ==
  \A i \in Healthy, n \in 1..MaxHead : (head[i] >= n) ~> (cursor[i] >= n)
=============================================================================
