----------------------------- MODULE PlaidFeed -----------------------------
(***************************************************************************)
(* Plaid's side of one Item, as the code under src/ uses it: a feed of     *)
(* transaction updates with numbered positions.  A cursor is a position    *)
(* (0 is the empty cursor).  feed[n] is Plaid's picture of every           *)
(* transaction at position n: the position of its last update, and whether *)
(* that update removed it.                                                 *)
(***************************************************************************)
EXTENDS Naturals

CONSTANTS Txns,     \* transactions of the Item's linked accounts
          MaxHead   \* bound: updates Plaid ever makes

ASSUME MaxHeadAssumption == MaxHead \in Nat

VARIABLES head,     \* position of Plaid's last update
          feed      \* position -> transaction -> [at, gone]

feedVars == <<head, feed>>

Positions == 0..MaxHead
Snapshots == [Txns -> [at : Positions, gone : BOOLEAN]]

FeedTypeOK == head \in Positions /\ feed \in [0..head -> Snapshots]

FeedInit ==
  /\ head = 0
  /\ feed = [n \in {0} |-> [t \in Txns |-> [at |-> 0, gone |-> FALSE]]]

\* What a faithful copy of transaction t shows at position n of feed f: the
\* position of its last update, or 0 when it does not exist there.
Live(f, n, t) == IF f[n][t].gone THEN 0 ELSE f[n][t].at

\* The net updates to be delivered between two positions of feed f.
Delta(f, from, upto) ==
  {[txn |-> t, to |-> f[upto][t]] : t \in {u \in Txns : f[from][u] # f[upto][u]}}

\* Plaid adds or modifies t (gone = FALSE) or removes it; a removed
\* transaction id never comes back.
Emit(t, gone) ==
  /\ head < MaxHead
  /\ ~feed[head][t].gone
  /\ gone => feed[head][t].at # 0
  /\ head' = head + 1
  /\ feed' = [n \in 0..head + 1 |->
                IF n <= head THEN feed[n]
                ELSE [feed[head] EXCEPT ![t] = [at |-> head + 1, gone |-> gone]]]
=============================================================================
