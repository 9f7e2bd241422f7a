-------------------------- MODULE PlaidSync_proofs --------------------------
(***************************************************************************)
(* Theorems about PlaidSync for every set of workers and transactions,     *)
(* every feed length and every number of faults.                           *)
(***************************************************************************)
EXTENDS PlaidSync, TLAPS

-----------------------------------------------------------------------------
(* The inductive invariant *)

\* Plaid's picture at n knows only updates up to n, and the same last update
\* at two positions means nothing happened to the transaction in between.
FeedInv ==
  /\ \A n \in 0..head, t \in Txns : feed[n][t].at <= n
  /\ \A m, n \in 0..head, t \in Txns :
       m <= n => /\ feed[m][t].at <= feed[n][t].at
                 /\ feed[m][t].at = feed[n][t].at => feed[m][t] = feed[n][t]

\* The row locks taken by hydrate admit one sync at a time past that point.
LockInv ==
  \A v, w \in Workers : worker[v].locked /\ worker[w].locked => v = w

\* One call: it starts from a cursor that is not ahead of the stored one; under
\* the lock its pass runs to a position that is not behind the stored one; what
\* it has collected are net updates of that pass, all of them at its end.
CallInv(r) ==
  /\ r.upto <= head
  /\ r.cursor <= item.next_cursor
  /\ r.pc \in {"open", "paging", "fetched"} => r.locked
  /\ r.pc \in {"paging", "fetched"} => item.next_cursor <= r.upto
  /\ r.pc \in {"idle", "picked", "syncing", "loaded", "open"} => r.batch = {}
  /\ r.batch \subseteq Delta(feed, r.cursor, r.upto)
  /\ r.pc = "fetched" => r.batch = Delta(feed, r.cursor, r.upto)

IInv ==
  /\ TypeOK
  /\ FeedInv
  /\ LockInv
  /\ item.next_cursor <= head
  /\ \A w \in Workers : CallInv(worker[w])
  /\ RowsMatchCursor

-----------------------------------------------------------------------------
(* Lemmas *)

\* The deltas between two known positions are well-formed payloads.
LEMMA DeltaType ==
  ASSUME FeedTypeOK, NEW m \in 0..head, NEW n \in 0..head
  PROVE  Delta(feed, m, n) \in SUBSET [txn : Txns, to : [at : Positions, gone : BOOLEAN]]
  BY DEF FeedTypeOK, Delta, Snapshots

\* Emit keeps Plaid's pictures of the past and the order of updates.
LEMMA EmitFeedInv ==
  ASSUME MaxHead \in Nat, FeedTypeOK, FeedInv,
         NEW t \in Txns, NEW gone \in BOOLEAN, Emit(t, gone)
  PROVE  /\ FeedTypeOK' /\ FeedInv' /\ head' = head + 1
         /\ \A n \in 0..head : feed'[n] = feed[n]
<1>1. head \in 0..MaxHead /\ head < MaxHead /\ head' = head + 1 /\ head' \in 0..MaxHead
  BY DEF Emit, FeedTypeOK, Positions
<1>2. \A n \in 0..head : feed'[n] = feed[n]
  BY <1>1 DEF Emit
<1>3. feed'[head + 1] = [feed[head] EXCEPT ![t] = [at |-> head + 1, gone |-> gone]]
  BY <1>1 DEF Emit
<1>4. feed[head] \in Snapshots
  BY <1>1 DEF FeedTypeOK
<1>5. feed'[head + 1] \in Snapshots
  BY <1>1, <1>3, <1>4 DEF Snapshots, Positions
<1>6. FeedTypeOK'
  <2>1. feed' = [n \in 0..head' |-> feed'[n]]
    BY <1>1 DEF Emit
  <2>2. \A n \in 0..head' : feed'[n] \in Snapshots
    BY <1>1, <1>2, <1>5 DEF FeedTypeOK
  <2> QED BY <1>1, <2>1, <2>2 DEF FeedTypeOK, Positions
<1>7. \A u \in Txns : u # t => feed'[head + 1][u] = feed[head][u]
  BY <1>3, <1>4 DEF Snapshots
<1>8. feed'[head + 1][t].at = head + 1
  BY <1>3, <1>4 DEF Snapshots
<1>9. \A n \in 0..head, u \in Txns : feed[n][u].at \in Nat
  BY <1>1 DEF FeedTypeOK, Snapshots, Positions
<1>10. \A n \in 0..head', u \in Txns : feed'[n][u].at <= n
  <2> SUFFICES ASSUME NEW n \in 0..head', NEW u \in Txns PROVE feed'[n][u].at <= n
    OBVIOUS
  <2>1. CASE n \in 0..head
    BY <1>2, <2>1 DEF FeedInv
  <2>2. CASE n = head + 1 /\ u = t
    BY <1>1, <1>8, <2>2
  <2>3. CASE n = head + 1 /\ u # t
    <3>1. head \in 0..head
      BY <1>1
    <3>2. feed[head][u].at <= head /\ feed[head][u].at \in Nat
      BY <1>9, <3>1 DEF FeedInv
    <3> QED BY <1>1, <1>7, <2>3, <3>2
  <2> QED BY <1>1, <2>1, <2>2, <2>3
<1>11. ASSUME NEW m \in 0..head', NEW n \in 0..head', NEW u \in Txns, m <= n
       PROVE  /\ feed'[m][u].at <= feed'[n][u].at
              /\ feed'[m][u].at = feed'[n][u].at => feed'[m][u] = feed'[n][u]
  <2>1. CASE n \in 0..head
    BY <1>1, <1>2, <1>11, <2>1 DEF FeedInv
  <2>2. CASE n = head + 1 /\ m = n
    BY <1>1, <1>8, <1>7, <1>9, <2>2
  <2>3. CASE n = head + 1 /\ m # n
    <3>1. m \in 0..head /\ feed'[m][u] = feed[m][u] /\ feed[m][u].at <= m
      BY <1>1, <1>2, <1>11, <2>3 DEF FeedInv
    <3>2. CASE u = t
      BY <1>1, <1>8, <1>9, <2>3, <3>1, <3>2
    <3>3. CASE u # t
      BY <1>1, <1>7, <2>3, <3>1, <3>3 DEF FeedInv
    <3> QED BY <3>2, <3>3
  <2> QED BY <1>1, <2>1, <2>2, <2>3
<1> QED BY <1>1, <1>2, <1>6, <1>10, <1>11 DEF FeedInv

\* Most actions replace one call record and leave feed, cursor and rows alone:
\* the invariant then follows from that call alone.
LEMMA OneCall ==
  ASSUME IInv, NEW w \in Workers, NEW r \in Calls,
         worker' = [worker EXCEPT ![w] = r], CallInv(r),
         r.locked => worker[w].locked \/ \A v \in Workers : ~worker[v].locked,
         UNCHANGED <<head, feed, rows, old>>,
         item' \in Items, item'.next_cursor = item.next_cursor,
         login' \in BOOLEAN, faults' \in 0..MaxFaults
  PROVE  IInv'
<1> USE DEF IInv
<1>1. TypeOK'
  BY DEF TypeOK, FeedTypeOK
<1>2. FeedInv'
  BY DEF FeedInv
<1>3. LockInv'
  BY DEF LockInv, TypeOK
<1>4. \A v \in Workers : CallInv(worker[v])'
  BY DEF CallInv, TypeOK
<1>5. RowsMatchCursor' /\ (item.next_cursor <= head)'
  BY DEF RowsMatchCursor, Shown
<1> QED BY <1>1, <1>2, <1>3, <1>4, <1>5

\* Init satisfies the invariant.
LEMMA InitInv ==
  ASSUME Init  PROVE  IInv
<1> USE MaxHeadAssumption, FaultsAssumption
<1>1. TypeOK
  <2>1. FeedTypeOK
    BY DEF Init, FeedInit, FeedTypeOK, Snapshots, Positions
  <2>2. Idle \in Calls
    BY DEF Idle, Calls, Positions
  <2>3. item \in Items /\ rows \in [Txns -> Rows]
    BY DEF Init, Items, Positions, Statuses, Rows, absent
  <2>4. worker \in [Workers -> Calls]
    BY <2>2 DEF Init
  <2>5. old \subseteq Txns /\ login \in BOOLEAN
    BY DEF Init
  <2>6. faults \in 0..MaxFaults
    BY DEF Init
  <2> QED BY <2>1, <2>3, <2>4, <2>5, <2>6 DEF TypeOK
<1>2. FeedInv /\ LockInv /\ item.next_cursor <= head
  BY DEF Init, FeedInit, FeedInv, LockInv, Idle
<1>3. \A w \in Workers : CallInv(worker[w])
  BY DEF Init, FeedInit, CallInv, Idle, Delta
<1>4. RowsMatchCursor
  BY DEF Init, FeedInit, RowsMatchCursor, Shown, Live, absent
<1> QED BY <1>1, <1>2, <1>3, <1>4 DEF IInv

\* An idle call satisfies its part of the invariant whatever the cursor is.
LEMMA IdleCall ==
  ASSUME IInv  PROVE  Idle \in Calls /\ CallInv(Idle) /\ ~Idle.locked
  BY MaxHeadAssumption
     DEF IInv, TypeOK, FeedTypeOK, Items, CallInv, Idle, Calls, Delta, Positions, Statuses

\* Plaid, time and the webhook.
LEMMA OutsideStep ==
  ASSUME IInv,
         \/ PlaidUpdates \/ LoginExpires \/ Stale \/ MarkSyncNeeded
         \/ \E t \in Txns : Age(t)
  PROVE  IInv'
<1> USE DEF IInv
<1>1. CASE PlaidUpdates
  <2>1. PICK t \in Txns, gone \in BOOLEAN : Emit(t, gone)
    BY <1>1 DEF PlaidUpdates
  <2>2. UNCHANGED syncVars
    BY <1>1 DEF PlaidUpdates
  <2>3. /\ FeedTypeOK' /\ FeedInv' /\ head' = head + 1
        /\ \A n \in 0..head : feed'[n] = feed[n]
    BY <2>1, EmitFeedInv, MaxHeadAssumption DEF TypeOK
  <2>4. head \in Nat /\ item.next_cursor \in 0..head
    BY MaxHeadAssumption DEF TypeOK, FeedTypeOK, Items, Positions
  <2>5. TypeOK' /\ LockInv' /\ (item.next_cursor <= head)'
    BY <2>2, <2>3, <2>4 DEF TypeOK, LockInv, syncVars
  <2>6. ASSUME NEW w \in Workers  PROVE  CallInv(worker[w])'
    <3>1. worker[w] \in Calls /\ CallInv(worker[w])
      BY DEF TypeOK
    <3>2. worker[w].cursor \in 0..head /\ worker[w].upto \in 0..head
      BY <2>4, <3>1 DEF CallInv, Calls, Positions
    <3>3. Delta(feed', worker[w].cursor, worker[w].upto) = Delta(feed, worker[w].cursor, worker[w].upto)
      BY <2>3, <3>2 DEF Delta
    <3> QED BY <2>2, <2>3, <2>4, <3>1, <3>2, <3>3 DEF CallInv, syncVars
  <2>7. RowsMatchCursor'
    BY <2>2, <2>3, <2>4 DEF RowsMatchCursor, Shown, Live, syncVars
  <2> QED BY <2>3, <2>5, <2>6, <2>7
<1>2. CASE LoginExpires \/ Stale \/ MarkSyncNeeded
  <2>1. /\ UNCHANGED <<head, feed, rows, old, worker, faults>>
        /\ item' \in Items /\ item'.next_cursor = item.next_cursor /\ login' \in BOOLEAN
    BY <1>2 DEF LoginExpires, Stale, MarkSyncNeeded, TypeOK, FeedTypeOK, Items, Statuses
  <2>2. TypeOK' /\ FeedInv' /\ LockInv' /\ (item.next_cursor <= head)' /\ RowsMatchCursor'
    BY <2>1 DEF TypeOK, FeedTypeOK, FeedInv, LockInv, RowsMatchCursor, Shown
  <2>3. \A w \in Workers : CallInv(worker[w])'
    BY <2>1 DEF CallInv
  <2> QED BY <2>2, <2>3
<1>3. CASE \E t \in Txns : Age(t)
  <2>1. /\ UNCHANGED <<head, feed, item, rows, login, worker, faults>>
        /\ old \subseteq old' /\ old' \subseteq Txns
    BY <1>3 DEF Age, TypeOK
  <2>2. TypeOK' /\ FeedInv' /\ LockInv' /\ (item.next_cursor <= head)' /\ RowsMatchCursor'
    BY <2>1 DEF TypeOK, FeedTypeOK, FeedInv, LockInv, RowsMatchCursor, Shown
  <2>3. \A w \in Workers : CallInv(worker[w])'
    BY <2>1 DEF CallInv
  <2> QED BY <2>2, <2>3
<1> QED BY <1>1, <1>2, <1>3

\* Every step of a call but its commit.
LEMMA CallStep ==
  ASSUME IInv, NEW w \in Workers,
         \/ ProcessJob(w) \/ SafetyNetJob(w) \/ ExchangeToken(w) \/ Start(w) \/ Load(w)
         \/ HydrateLinks(w) \/ FetchPage(w) \/ MutationDuringPagination(w)
         \/ LoginRequired(w) \/ PlaidError(w) \/ DbError(w) \/ RecordReauth(w)
         \/ RecordFailure(w) \/ Crash(w)
  PROVE  IInv'
<1> DEFINE c == worker[w]
           Becomes(r) == worker' = [worker EXCEPT ![w] = r]
           Kept == UNCHANGED <<head, feed, rows, old>>
           ItemKept == item' \in Items /\ item'.next_cursor = item.next_cursor
<1>1. c \in Calls /\ CallInv(c) /\ item \in Items /\ login \in BOOLEAN /\ faults \in 0..MaxFaults
  BY DEF IInv, TypeOK
<1>2. Idle \in Calls /\ CallInv(Idle) /\ ~Idle.locked
  BY IdleCall
<1>3. head \in 0..MaxHead /\ MaxHead \in Nat /\ item.next_cursor \in 0..head
  BY MaxHeadAssumption DEF IInv, TypeOK, FeedTypeOK, Items, Positions
<1>4. worker \in [Workers -> Calls]
  BY DEF IInv, TypeOK
<1>5. \A kind : Fault(kind) => faults' \in 0..MaxFaults
  BY <1>1, FaultsAssumption DEF Fault
<1>6. CASE ProcessJob(w) \/ SafetyNetJob(w)
  <2>1. PICK seen \in {item.sync_status, "expired"} :
          Becomes([Idle EXCEPT !.pc = "picked", !.seen = seen])
    BY <1>6 DEF ProcessJob, SafetyNetJob, Pick
  <2>2. [Idle EXCEPT !.pc = "picked", !.seen = seen] \in Calls
    BY <1>1, <1>2 DEF Calls, Items, Idle
  <2>3. CallInv([Idle EXCEPT !.pc = "picked", !.seen = seen])
    BY <1>2 DEF CallInv, Idle
  <2>4. ~[Idle EXCEPT !.pc = "picked", !.seen = seen].locked
    BY DEF Idle
  <2>5. Kept /\ ItemKept /\ login' \in BOOLEAN /\ faults' \in 0..MaxFaults
    BY <1>1, <1>6 DEF ProcessJob, SafetyNetJob, Pick
  <2> QED BY <2>1, <2>2, <2>3, <2>4, <2>5, OneCall
<1>7. CASE ExchangeToken(w)
  <2>1. [Idle EXCEPT !.pc = "picked"] \in Calls /\ CallInv([Idle EXCEPT !.pc = "picked"])
        /\ ~[Idle EXCEPT !.pc = "picked"].locked
    BY <1>2 DEF Calls, CallInv, Idle
  <2>2. Kept /\ ItemKept /\ login' \in BOOLEAN /\ faults' \in 0..MaxFaults
    BY <1>1, <1>7 DEF ExchangeToken, Items, Statuses
  <2> QED BY <1>7, <2>1, <2>2, OneCall DEF ExchangeToken
<1>8. CASE Start(w)
  <2> DEFINE r == [c EXCEPT !.pc = "syncing"]
  <2>1. r \in Calls /\ CallInv(r) /\ (r.locked => c.locked)
    BY <1>1, <1>8 DEF Calls, CallInv, Start
  <2>2. Kept /\ ItemKept /\ login' \in BOOLEAN /\ faults' \in 0..MaxFaults
    BY <1>1, <1>8 DEF Start, Written, Items, Statuses
  <2> QED BY <1>4, <1>8, <2>1, <2>2, OneCall DEF Start
<1>9. CASE Load(w)
  <2> DEFINE r == [c EXCEPT !.pc = "loaded", !.seen = item.sync_status, !.cursor = item.next_cursor]
  <2>1. r \in Calls /\ (r.locked => c.locked)
    BY <1>1 DEF Calls, Items
  <2>2. CallInv(r)
    BY <1>1, <1>3, <1>9 DEF Calls, CallInv, Load
  <2>3. Kept /\ ItemKept /\ login' \in BOOLEAN /\ faults' \in 0..MaxFaults /\ Becomes(r)
    BY <1>1, <1>4, <1>9 DEF Load
  <2> QED BY <2>1, <2>2, <2>3, OneCall
<1>10. CASE HydrateLinks(w)
  <2> DEFINE r == [c EXCEPT !.pc = "open", !.locked = TRUE]
  <2>1. r \in Calls /\ CallInv(r)
    BY <1>1, <1>10 DEF Calls, CallInv, HydrateLinks
  <2>2. Kept /\ ItemKept /\ login' \in BOOLEAN /\ faults' \in 0..MaxFaults /\ Becomes(r)
        /\ \A v \in Workers : ~worker[v].locked
    BY <1>1, <1>4, <1>10 DEF HydrateLinks
  <2> QED BY <2>1, <2>2, OneCall
<1>11. CASE FetchPage(w)
  <2> DEFINE upto == IF c.pc = "open" THEN head ELSE c.upto
             rest == Delta(feed, c.cursor, upto) \ c.batch
  <2>1. PICK page \in SUBSET rest, has_more \in BOOLEAN :
          /\ page # rest => has_more
          /\ worker' = [worker EXCEPT
               ![w].pc = IF has_more THEN "paging" ELSE "fetched",
               ![w].upto = upto,
               ![w].batch = @ \union page]
    BY <1>11 DEF FetchPage
  <2> DEFINE r == [c EXCEPT !.pc = IF has_more THEN "paging" ELSE "fetched",
                            !.upto = upto, !.batch = @ \union page]
  <2>2. upto \in 0..head /\ c.cursor \in 0..head /\ upto \in Positions /\ item.next_cursor <= upto
    <3>0. c.pc \in {"open", "paging"}
      BY <1>11 DEF FetchPage
    <3>1. c.upto \in Nat /\ c.cursor \in Nat /\ c.pc \in {"open", "paging"}
          /\ c.upto <= head /\ c.cursor <= item.next_cursor
          /\ (c.pc = "paging" => item.next_cursor <= c.upto)
      BY <1>1, <1>3, <3>0 DEF Calls, CallInv, Positions
    <3>2. CASE c.pc = "open"
      BY <1>3, <3>1, <3>2 DEF Positions
    <3>3. CASE c.pc = "paging"
      BY <1>3, <3>1, <3>3 DEF Positions
    <3> QED BY <3>1, <3>2, <3>3
  <2>3. Delta(feed, c.cursor, upto) \in SUBSET [txn : Txns, to : [at : Positions, gone : BOOLEAN]]
    BY <2>2, DeltaType DEF IInv, TypeOK
  <2>4. c.batch \subseteq Delta(feed, c.cursor, upto)
    BY <1>1, <1>11 DEF CallInv, FetchPage
  <2>5. r \in Calls
    <3>1. c.batch \union page \in SUBSET [txn : Txns, to : [at : Positions, gone : BOOLEAN]]
      BY <2>3, <2>4
    <3> QED BY <1>1, <2>2, <3>1 DEF Calls
  <2>6. r.batch = c.batch \union page /\ r.upto = upto /\ r.cursor = c.cursor /\ r.locked = c.locked
        /\ r.pc = IF has_more THEN "paging" ELSE "fetched"
    BY <1>1 DEF Calls
  <2>7. c.batch \union page \subseteq Delta(feed, c.cursor, upto)
        /\ (~has_more => c.batch \union page = Delta(feed, c.cursor, upto))
    BY <2>1, <2>4
  <2>8. CallInv(r)
    <3>1. c.locked
      BY <1>1, <1>11 DEF CallInv, FetchPage
    <3>2. upto <= head
      BY <2>2, <1>3
    <3> HIDE DEF r, rest, upto
    <3> QED BY <1>1, <2>2, <2>6, <2>7, <3>1, <3>2 DEF CallInv
  <2>9. Kept /\ ItemKept /\ login' \in BOOLEAN /\ faults' \in 0..MaxFaults
    BY <1>1, <1>11 DEF FetchPage
  <2>10. Becomes(r)
    BY <1>4, <2>1
  <2> QED BY <2>5, <2>6, <2>8, <2>9, <2>10, OneCall
<1>12. CASE MutationDuringPagination(w)
  <2> DEFINE r == IF c.attempt = 0
                  THEN [c EXCEPT !.pc = "open", !.attempt = 1, !.batch = {}]
                  ELSE [c EXCEPT !.pc = "errored"]
  <2>1. r \in Calls /\ CallInv(r) /\ (r.locked => c.locked)
    <3>1. c.pc = "paging"
      BY <1>12 DEF MutationDuringPagination
    <3>2. CASE c.attempt = 0
      <4>1. r = [c EXCEPT !.pc = "open", !.attempt = 1, !.batch = {}]
        BY <3>2
      <4>2. r \in Calls
        <5>1. {} \in SUBSET [txn : Txns, to : [at : Positions, gone : BOOLEAN]]
          OBVIOUS
        <5>2. 1 \in 0..1
          OBVIOUS
        <5> QED BY <1>1, <4>1, <5>1, <5>2 DEF Calls
      <4>3. r.batch = {} /\ r.pc = "open" /\ r.upto = c.upto /\ r.cursor = c.cursor
            /\ r.locked = c.locked
        BY <1>1, <4>1 DEF Calls
      <4>4. c.locked /\ c.upto <= head /\ c.cursor <= item.next_cursor
        BY <1>1, <3>1 DEF CallInv
      <4> HIDE DEF r
      <4> QED BY <4>2, <4>3, <4>4 DEF CallInv
    <3>3. CASE c.attempt # 0
      BY <1>1, <3>1, <3>3 DEF Calls, CallInv
    <3> QED BY <3>2, <3>3
  <2>2. Kept /\ ItemKept /\ login' \in BOOLEAN /\ faults' \in 0..MaxFaults /\ Becomes(r)
    BY <1>1, <1>4, <1>12 DEF MutationDuringPagination
  <2> QED BY <2>1, <2>2, OneCall
<1>13. CASE LoginRequired(w) \/ PlaidError(w)
  <2>1. PICK pc \in {"denied", "errored"} : Becomes([c EXCEPT !.pc = pc])
    BY <1>4, <1>13 DEF LoginRequired, PlaidError
  <2> DEFINE r == [c EXCEPT !.pc = pc]
  <2>2. r \in Calls /\ CallInv(r) /\ (r.locked => c.locked)
    BY <1>1 DEF Calls, CallInv
  <2>3. Kept /\ ItemKept /\ login' \in BOOLEAN /\ faults' \in 0..MaxFaults
    BY <1>1, <1>5, <1>13 DEF LoginRequired, PlaidError
  <2> QED BY <2>1, <2>2, <2>3, OneCall
<1>14. CASE DbError(w) \/ RecordReauth(w) \/ RecordFailure(w) \/ Crash(w)
  <2>1. Becomes(Idle) /\ Kept /\ login' \in BOOLEAN /\ faults' \in 0..MaxFaults
    BY <1>1, <1>5, <1>14 DEF DbError, RecordReauth, RecordFailure, Crash
  <2>2. ItemKept
    BY <1>1, <1>14 DEF DbError, RecordReauth, RecordFailure, Crash, Written, Items, Statuses
  <2> QED BY <1>2, <2>1, <2>2, OneCall
<1> QED BY <1>6, <1>7, <1>8, <1>9, <1>10, <1>11, <1>12, <1>13, <1>14

\* The commit moves rows and cursor together to the end of the pass.
LEMMA CommitStep ==
  ASSUME IInv, NEW w \in Workers, Commit(w)
  PROVE  /\ IInv'
         /\ item'.next_cursor \in item.next_cursor..head
<1> DEFINE c == worker[w]
<1>1. c \in Calls /\ CallInv(c) /\ c.pc = "fetched" /\ item \in Items /\ rows \in [Txns -> Rows]
  BY DEF IInv, TypeOK, Commit
<1>2. head \in Nat /\ item.next_cursor \in 0..head /\ c.upto \in 0..head /\ c.cursor \in 0..head
      /\ c.cursor <= item.next_cursor /\ item.next_cursor <= c.upto
  BY <1>1, MaxHeadAssumption DEF IInv, TypeOK, FeedTypeOK, Items, Positions, Calls, CallInv
<1>3. c.batch = Delta(feed, c.cursor, c.upto) /\ c.locked
  BY <1>1 DEF CallInv
<1>4. /\ item'.next_cursor = c.upto /\ item' \in Items
      /\ worker' = [worker EXCEPT ![w] = Idle]
      /\ UNCHANGED <<head, feed, old, login, faults>>
      /\ rows' = RowsAfter(w)
  BY <1>1 DEF Commit, Written, Items, Statuses, Calls
<1>5. Idle \in Calls /\ ~Idle.locked
  BY IdleCall
<1>6. \A t \in Txns : feed[c.upto][t] \in [at : Positions, gone : BOOLEAN]
  BY <1>2 DEF IInv, TypeOK, FeedTypeOK, Snapshots
<1>7. \A t \in Txns : InBatch(w, t) <=> feed[c.cursor][t] # feed[c.upto][t]
  <2> SUFFICES ASSUME NEW t \in Txns
               PROVE  InBatch(w, t) <=> feed[c.cursor][t] # feed[c.upto][t]
    OBVIOUS
  <2>1. ASSUME InBatch(w, t)  PROVE feed[c.cursor][t] # feed[c.upto][t]
    <3>1. PICK d \in Delta(feed, c.cursor, c.upto) : d.txn = t
      BY <1>3, <2>1 DEF InBatch
    <3> QED BY <3>1 DEF Delta
  <2>2. ASSUME feed[c.cursor][t] # feed[c.upto][t]  PROVE InBatch(w, t)
    <3>1. [txn |-> t, to |-> feed[c.upto][t]] \in Delta(feed, c.cursor, c.upto)
      BY <2>2 DEF Delta
    <3> QED BY <1>3, <3>1 DEF InBatch
  <2> QED BY <2>1, <2>2
<1>8. ASSUME NEW t \in Txns, InBatch(w, t)
      PROVE  rows'[t] = Applied(rows[t], feed[c.upto][t])
  <2>1. (CHOOSE d \in c.batch : d.txn = t).to = feed[c.upto][t]
    BY <1>3, <1>8 DEF InBatch, Delta
  <2> QED BY <1>4, <1>8, <2>1 DEF RowsAfter
<1>9. ASSUME NEW t \in Txns, ~InBatch(w, t)
      PROVE  rows'[t] = IF Essential /\ t \in old THEN absent ELSE rows[t]
  BY <1>4, <1>9 DEF RowsAfter
<1>10. rows' \in [Txns -> Rows]
  <2>1. \A t \in Txns : rows'[t] \in Rows
    <3> SUFFICES ASSUME NEW t \in Txns PROVE rows'[t] \in Rows
      OBVIOUS
    <3>1. CASE InBatch(w, t)
      <4>1. rows'[t] = Applied(rows[t], feed[c.upto][t])
        BY <1>8, <3>1
      <4>2. rows[t] \in Rows /\ feed[c.upto][t] \in [at : Positions, gone : BOOLEAN]
        BY <1>1, <1>6
      <4>3. CASE feed[c.upto][t].gone
        BY <4>1, <4>2, <4>3 DEF Applied, Rows
      <4>4. CASE ~feed[c.upto][t].gone
        BY <4>1, <4>2, <4>4 DEF Applied, Rows
      <4> QED BY <4>3, <4>4
    <3>2. CASE ~InBatch(w, t)
      <4>1. rows'[t] = IF Essential /\ t \in old THEN absent ELSE rows[t]
        BY <1>9, <3>2
      <4>2. absent \in Rows
        BY MaxHeadAssumption DEF absent, Rows, Positions
      <4> QED BY <1>1, <4>1, <4>2
    <3> QED BY <3>1, <3>2
  <2> QED BY <1>4, <2>1 DEF RowsAfter
<1>11. TypeOK'
  BY <1>4, <1>5, <1>10 DEF IInv, TypeOK, FeedTypeOK
<1>12. LockInv' /\ FeedInv' /\ (item.next_cursor <= head)'
  BY <1>2, <1>4, <1>5 DEF IInv, TypeOK, LockInv, FeedInv
<1>13. ASSUME NEW v \in Workers  PROVE  CallInv(worker[v])'
  <2>1. CASE v = w
    <3>1. worker'[v] = Idle
      BY <1>4, <2>1 DEF IInv, TypeOK
    <3> QED BY <1>2, <1>4, <3>1 DEF CallInv, Idle, Delta
  <2>2. CASE v # w
    <3>1. worker'[v] = worker[v] /\ worker[v] \in Calls /\ CallInv(worker[v])
      BY <1>4, <2>2 DEF IInv, TypeOK
    <3>2. ~worker[v].locked
      BY <1>3, <2>2 DEF IInv, LockInv
    <3>3. worker[v].pc \notin {"paging", "fetched"}
      BY <3>1, <3>2 DEF CallInv
    <3> QED BY <1>2, <1>4, <3>1, <3>3 DEF CallInv, Calls, Positions
  <2> QED BY <2>1, <2>2
<1>14. RowsMatchCursor'
  <2> SUFFICES ASSUME NEW t \in Txns
               PROVE  Shown(t)' = Live(feed, c.upto, t) \/ (t \in old /\ Shown(t)' = 0)
    BY <1>4 DEF RowsMatchCursor
  <2>1. CASE InBatch(w, t)
    <3>1. rows'[t] = Applied(rows[t], feed[c.upto][t])
      BY <1>8, <2>1
    <3>2. rows[t] \in Rows /\ feed[c.upto][t] \in [at : Positions, gone : BOOLEAN]
      BY <1>1, <1>6
    <3>3. CASE feed[c.upto][t].gone
      BY <3>1, <3>2, <3>3 DEF Shown, Applied, Live, Rows
    <3>4. CASE ~feed[c.upto][t].gone
      BY <3>1, <3>2, <3>4 DEF Shown, Applied, Live, Rows
    <3> QED BY <3>3, <3>4
  <2>2. CASE ~InBatch(w, t) /\ Essential /\ t \in old
    BY <1>9, <2>2 DEF Shown, absent
  <2>3. CASE ~InBatch(w, t) /\ ~(Essential /\ t \in old)
    <3>1. feed[item.next_cursor][t] = feed[c.upto][t]
      <4>1. feed[c.cursor][t] = feed[c.upto][t]
        BY <1>7, <2>3
      <4>2. /\ feed[c.cursor][t].at <= feed[item.next_cursor][t].at
            /\ feed[item.next_cursor][t].at <= feed[c.upto][t].at
            /\ feed[item.next_cursor][t].at = feed[c.upto][t].at
                 => feed[item.next_cursor][t] = feed[c.upto][t]
        BY <1>2 DEF IInv, FeedInv
      <4>3. feed[item.next_cursor][t].at \in Nat /\ feed[c.upto][t].at \in Nat
        BY <1>2 DEF IInv, TypeOK, FeedTypeOK, Snapshots, Positions
      <4> QED BY <4>1, <4>2, <4>3
    <3>2. Shown(t)' = Shown(t)
      BY <1>9, <2>3 DEF Shown
    <3> QED BY <3>1, <3>2 DEF IInv, RowsMatchCursor, Live
  <2> QED BY <2>1, <2>2, <2>3
<1> QED BY <1>2, <1>4, <1>11, <1>12, <1>13, <1>14 DEF IInv

\* Every step keeps the invariant.
LEMMA StepInv ==
  ASSUME IInv, [Next]_vars  PROVE  IInv'
<1>1. CASE PlaidUpdates \/ LoginExpires \/ Stale \/ MarkSyncNeeded \/ \E t \in Txns : Age(t)
  BY <1>1, OutsideStep
<1>2. CASE \E w \in Workers : ProcessJob(w) \/ SafetyNetJob(w) \/ ExchangeToken(w)
                              \/ Step(w) \/ PlaidError(w) \/ Crash(w)
  BY <1>2, CallStep, CommitStep DEF Step, Finish
<1>3. CASE UNCHANGED vars
  BY <1>3 DEF vars, IInv, TypeOK, FeedTypeOK, FeedInv, LockInv, CallInv, RowsMatchCursor, Shown
<1> QED BY <1>1, <1>2, <1>3 DEF Next

THEOREM Invariance == Spec => []IInv
<1>1. Init => IInv
  BY InitInv
<1>2. IInv /\ [Next]_vars => IInv'
  BY StepInv
<1> QED BY <1>1, <1>2, PTL DEF Spec

-----------------------------------------------------------------------------
(* The theorems *)

\* Type correctness.
THEOREM TypeCorrect == Spec => []TypeOK
<1>1. IInv => TypeOK
  BY DEF IInv
<1> QED BY <1>1, Invariance, PTL

\* Whatever number of syncs, jobs, webhooks, errors and crashes interleave, the
\* transactions table shows Plaid's picture at the stored cursor: the single
\* commit and the row locks of hydrate are enough, no update is ever lost.
THEOREM NoUpdateLost == Spec => []RowsMatchCursor
<1>1. IInv => RowsMatchCursor
  BY DEF IInv
<1> QED BY <1>1, Invariance, PTL

\* No sync ever applies two payloads of one transaction, so it never inserts
\* the same new row twice.
THEOREM NoDoubleInsert == Spec => []OneDeltaPerTxn
<1>1. IInv => OneDeltaPerTxn
  <2> SUFFICES ASSUME IInv, NEW w \in Workers, NEW d \in worker[w].batch,
                      NEW e \in worker[w].batch, d.txn = e.txn
               PROVE  d = e
    BY DEF OneDeltaPerTxn
  <2>1. d \in Delta(feed, worker[w].cursor, worker[w].upto)
        /\ e \in Delta(feed, worker[w].cursor, worker[w].upto)
    BY DEF IInv, CallInv
  <2> QED BY <2>1 DEF Delta
<1> QED BY <1>1, Invariance, PTL

\* The sync engine implements TransactionFeed: seen through the table and the
\* cursor, every step is an update by Plaid, a step of time, one atomic move to
\* a later position, or nothing.
THEOREM Refinement == Spec => ImplementsFeed
<1>1. Init => Feed!Init
  BY DEF Init, Feed!Init, FeedInit, Feed!FeedInit, Shown, absent
<1>2. IInv /\ IInv' /\ [Next]_vars => [Feed!Next]_(Feed!vars)
  <2> SUFFICES ASSUME IInv, IInv', [Next]_vars  PROVE [Feed!Next]_(Feed!vars)
    OBVIOUS
  <2>1. CASE PlaidUpdates
    BY <2>1 DEF PlaidUpdates, syncVars, Emit, Feed!Next, Feed!PlaidUpdates, Feed!Emit, Shown
  <2>2. CASE \E t \in Txns : Age(t)
    BY <2>2 DEF Age, Feed!Next, Feed!Ages, Shown
  <2>3. CASE \E w \in Workers : Commit(w)
    <3>1. PICK w \in Workers : Commit(w)
      BY <2>3
    <3>2. item'.next_cursor \in item.next_cursor..head
      BY <3>1, CommitStep
    <3>3. UNCHANGED <<head, feed, old>>
      BY <3>1 DEF Commit
    <3>4. \A t \in Txns : Shown(t)' \in Positions
      BY MaxHeadAssumption DEF IInv, TypeOK, Rows, Shown, Positions
    <3>5. RowsMatchCursor'
      BY DEF IInv
    <3> QED BY <3>2, <3>3, <3>4, <3>5
            DEF Feed!Next, Feed!Ingests, Feed!Reflects, Feed!Positions, Positions,
                RowsMatchCursor, Live, Feed!Live
  <2>4. CASE UNCHANGED <<head, feed, rows, old, item.next_cursor>>
    BY <2>4 DEF Feed!vars, Shown
  <2>5. item.next_cursor \in Positions /\ item \in Items
    BY DEF IInv, TypeOK, Items
  <2>6. CASE LoginExpires \/ Stale \/ MarkSyncNeeded
    BY <2>4, <2>5, <2>6 DEF LoginExpires, Stale, MarkSyncNeeded, Items
  <2>7. ASSUME NEW w \in Workers,
               \/ ProcessJob(w) \/ SafetyNetJob(w) \/ ExchangeToken(w) \/ Start(w) \/ Load(w)
               \/ HydrateLinks(w) \/ FetchPage(w) \/ MutationDuringPagination(w)
               \/ LoginRequired(w) \/ PlaidError(w) \/ DbError(w) \/ RecordReauth(w)
               \/ RecordFailure(w) \/ Crash(w)
        PROVE  [Feed!Next]_(Feed!vars)
    BY <2>4, <2>5, <2>7
       DEF ProcessJob, SafetyNetJob, Pick, ExchangeToken, Start, Load, HydrateLinks, FetchPage,
           MutationDuringPagination, LoginRequired, PlaidError, DbError, RecordReauth,
           RecordFailure, Crash, Items
  <2>8. CASE UNCHANGED vars
    BY <2>4, <2>8 DEF vars
  <2> QED BY <2>1, <2>2, <2>3, <2>6, <2>7, <2>8 DEF Next, Step, Finish
<1> QED BY <1>1, <1>2, Invariance, PTL DEF Spec, ImplementsFeed, Feed!Spec

-----------------------------------------------------------------------------
(* The end of every sync is recorded                                       *)

\* A call that loaded the status syncing, or is about to load it.  Such a call
\* cannot end without writing another status: the one it writes differs from
\* the one it loaded.
Anchor(r) ==
  \/ r.pc = "syncing"
  \/ r.pc \notin {"idle", "picked", "syncing"} /\ r.seen = "syncing"

Anchored == item.sync_status = "syncing" => \E w \in Workers : Anchor(worker[w])

\* An anchor that moves on stays one; other calls do not matter.
LEMMA AnchorMoves ==
  ASSUME Anchored, item'.sync_status = item.sync_status,
         NEW w \in Workers, TypeOK, NEW r, worker' = [worker EXCEPT ![w] = r],
         Anchor(worker[w]) /\ item.sync_status = "syncing" => Anchor(r)
  PROVE  Anchored'
<1> SUFFICES ASSUME item.sync_status = "syncing"
             PROVE  \E v \in Workers : Anchor(worker'[v])
  BY DEF Anchored, Anchor
<1>1. PICK v \in Workers : Anchor(worker[v])
  BY DEF Anchored
<1>2. CASE v = w
  BY <1>1, <1>2 DEF TypeOK
<1>3. CASE v # w
  BY <1>1, <1>3 DEF TypeOK
<1> QED BY <1>2, <1>3

\* Without database faults, retention and crashes a call ends by recording.
LEMMA EndsAnchored ==
  ASSUME TypeOK, Anchored, NEW w \in Workers, NEW st \in {"active", "needs_reauth", "failed"},
         worker[w].pc \in {"fetched", "denied", "errored"},
         item'.sync_status = Written(worker[w].seen, st),
         worker' = [worker EXCEPT ![w] = Idle]
  PROVE  Anchored'
<1>1. CASE worker[w].seen = "syncing"
  BY <1>1 DEF Anchored, Written
<1>2. CASE worker[w].seen # "syncing" /\ worker[w].seen # st
  BY <1>2 DEF Anchored, Written
<1>3. CASE worker[w].seen = st
  <2>1. item'.sync_status = item.sync_status
    BY <1>3 DEF Written
  <2>2. ~Anchor(worker[w])
    BY <1>3 DEF Anchor
  <2> QED BY <2>1, <2>2, AnchorMoves
<1> QED BY <1>1, <1>2, <1>3

LEMMA AnchoredStep ==
  ASSUME FaultKinds \subseteq {"plaid"}, ~Essential, TypeOK, Anchored, [Next]_vars
  PROVE  Anchored'
<1> USE DEF Anchor
<1>1. item \in Items /\ Items = [sync_status : Statuses, next_cursor : Positions,
                                 last_synced_at : {"never", "recent", "stale"},
                                 last_webhook_at : Positions]
  BY DEF TypeOK, Items
<1>2. CASE PlaidUpdates \/ LoginExpires \/ (\E t \in Txns : Age(t)) \/ UNCHANGED vars
  BY <1>2 DEF PlaidUpdates, syncVars, LoginExpires, Age, vars, Anchored
<1>3. CASE Stale
  BY <1>1, <1>3 DEF Stale, Anchored
<1>4. CASE MarkSyncNeeded
  BY <1>1, <1>4 DEF MarkSyncNeeded, Anchored
<1>5. ASSUME NEW w \in Workers, ExchangeToken(w)  PROVE Anchored'
  BY <1>1, <1>5 DEF ExchangeToken, Anchored
<1>6. ASSUME NEW w \in Workers, ProcessJob(w) \/ SafetyNetJob(w)  PROVE Anchored'
  <2>1. PICK r : worker' = [worker EXCEPT ![w] = r]
    BY <1>6 DEF ProcessJob, SafetyNetJob, Pick
  <2>2. item' = item /\ ~Anchor(worker[w])
    BY <1>6 DEF ProcessJob, SafetyNetJob, Pick
  <2> QED BY <2>1, <2>2, AnchorMoves
<1>7. ASSUME NEW w \in Workers, Start(w)  PROVE Anchored'
  <2>1. worker'[w].pc = "syncing"
    BY <1>7 DEF Start, TypeOK, Calls
  <2> QED BY <2>1 DEF Anchored
<1>8. ASSUME NEW w \in Workers, Load(w)  PROVE Anchored'
  <2>1. item' = item
    BY <1>8 DEF Load
  <2>2. worker'[w].pc = "loaded" /\ worker'[w].seen = item.sync_status
    BY <1>8 DEF Load, TypeOK, Calls
  <2> QED BY <2>1, <2>2 DEF Anchored
<1>9. ASSUME NEW w \in Workers,
             \/ HydrateLinks(w) \/ FetchPage(w) \/ MutationDuringPagination(w)
             \/ PlaidError(w) \/ LoginRequired(w)
      PROVE  Anchored'
  <2>1. item' = item
    BY <1>9 DEF HydrateLinks, FetchPage, MutationDuringPagination, PlaidError, LoginRequired
  <2>2. /\ worker' = [worker EXCEPT ![w] = worker'[w]]
        /\ worker'[w].seen = worker[w].seen
        /\ worker'[w].pc \notin {"idle", "picked", "syncing"}
    <3>0. worker \in [Workers -> Calls] /\ worker[w] \in Calls
      BY DEF TypeOK
    <3>1. CASE HydrateLinks(w)
      BY <3>0, <3>1 DEF HydrateLinks, Calls
    <3>2. CASE FetchPage(w)
      <4> DEFINE upto == IF worker[w].pc = "open" THEN head ELSE worker[w].upto
                 rest == Delta(feed, worker[w].cursor, upto) \ worker[w].batch
      <4>1. PICK page \in SUBSET rest, has_more \in BOOLEAN :
              worker' = [worker EXCEPT
                ![w].pc = IF has_more THEN "paging" ELSE "fetched",
                ![w].upto = upto,
                ![w].batch = @ \union page]
        BY <3>2 DEF FetchPage
      <4> DEFINE r == [worker[w] EXCEPT !.pc = IF has_more THEN "paging" ELSE "fetched",
                                        !.upto = upto, !.batch = @ \union page]
      <4>2. r.seen = worker[w].seen /\ r.pc \notin {"idle", "picked", "syncing"}
        <5> HIDE DEF upto
        <5> QED BY <3>0 DEF Calls
      <4>3. worker' = [worker EXCEPT ![w] = r]
        <5> HIDE DEF upto
        <5> QED BY <3>0, <4>1
      <4> HIDE DEF r
      <4> QED BY <3>0, <4>2, <4>3
    <3>3. CASE MutationDuringPagination(w)
      <4> DEFINE again == [worker[w] EXCEPT !.pc = "open", !.attempt = 1, !.batch = {}]
                 failed == [worker[w] EXCEPT !.pc = "errored"]
      <4>1. PICK r \in {again, failed} : worker' = [worker EXCEPT ![w] = r]
        BY <3>0, <3>3 DEF MutationDuringPagination
      <4>2. \A c \in {again, failed} :
              c.seen = worker[w].seen /\ c.pc \notin {"idle", "picked", "syncing"}
        BY <3>0 DEF Calls
      <4> HIDE DEF again, failed
      <4> QED BY <3>0, <4>1, <4>2
    <3>4. CASE PlaidError(w)
      BY <3>0, <3>4 DEF PlaidError, Calls
    <3>5. CASE LoginRequired(w)
      BY <3>0, <3>5 DEF LoginRequired, Calls
    <3> QED BY <1>9, <3>1, <3>2, <3>3, <3>4, <3>5
  <2>3. worker[w].pc \notin {"idle", "picked", "syncing"}
    BY <1>9 DEF HydrateLinks, FetchPage, MutationDuringPagination, PlaidError, LoginRequired
  <2> QED BY <2>1, <2>2, <2>3, AnchorMoves
<1>10. ASSUME NEW w \in Workers, Commit(w) \/ RecordReauth(w) \/ RecordFailure(w)
       PROVE  Anchored'
  <2>1. CASE Commit(w)
    BY <1>1, <2>1, EndsAnchored DEF Commit
  <2>2. CASE RecordReauth(w)
    BY <1>1, <2>2, EndsAnchored DEF RecordReauth
  <2>3. CASE RecordFailure(w)
    BY <1>1, <2>3, EndsAnchored DEF RecordFailure
  <2> QED BY <1>10, <2>1, <2>2, <2>3
<1>11. ASSUME NEW w \in Workers  PROVE ~DbError(w) /\ ~Crash(w)
  BY DEF DbError, Crash, Poisoned, Fault
<1> QED BY <1>2, <1>3, <1>4, <1>5, <1>6, <1>7, <1>8, <1>9, <1>10, <1>11 DEF Next, Step, Finish

\* While the database works, no retention prunes and no worker dies, an Item is
\* syncing only as long as some sync of it runs, although a sync leaves the
\* status alone when it already loaded the one it ends with.
THEOREM EndsRecorded ==
  ASSUME FaultKinds \subseteq {"plaid"}, ~Essential
  PROVE  Spec => []SyncingMeansInFlight
<1>1. Init => Anchored
  BY DEF Init, Anchored
<1>2. TypeOK /\ Anchored /\ [Next]_vars => Anchored'
  BY AnchoredStep
<1>3. Anchored => SyncingMeansInFlight
  BY DEF Anchored, Anchor, SyncingMeansInFlight
<1> QED BY <1>1, <1>2, <1>3, TypeCorrect, PTL DEF Spec
=============================================================================
