-------------------------- MODULE TransactionFeed --------------------------
(***************************************************************************)
(* What the Plaid sync engine promises, without workers, locks, pages or   *)
(* retries: the transactions a user sees are always Plaid's picture at one *)
(* position of the feed, that position never moves back, and the visible   *)
(* transactions and the position move together.  Under the Essential plan  *)
(* a transaction older than the retention cutoff may be missing.           *)
(***************************************************************************)
EXTENDS PlaidFeed

VARIABLES cursor,   \* position the visible transactions reflect
          view,     \* transaction -> position of the update shown, 0: none
          old       \* transactions beyond the retention cutoff

vars == <<head, feed, cursor, view, old>>

Reflects(v, n) ==
  \A t \in Txns : v[t] = Live(feed, n, t) \/ (t \in old /\ v[t] = 0)

Init ==
  /\ FeedInit
  /\ cursor = 0
  /\ view = [t \in Txns |-> 0]
  /\ old = {}

PlaidUpdates ==
  /\ \E t \in Txns, gone \in BOOLEAN : Emit(t, gone)
  /\ UNCHANGED <<cursor, view, old>>

Ages ==
  /\ \E t \in Txns : old' = old \union {t}
  /\ UNCHANGED <<head, feed, cursor, view>>

Ingests ==
  /\ cursor' \in cursor..head
  /\ view' \in [Txns -> Positions]
  /\ Reflects(view', cursor')
  /\ UNCHANGED <<head, feed, old>>

Next == PlaidUpdates \/ Ages \/ Ingests

Spec == Init /\ [][Next]_vars
=============================================================================
