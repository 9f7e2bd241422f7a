---------------------------- MODULE MCPlaidSync ----------------------------
(* PlaidSync on small instances. *)
EXTENDS PlaidSync, TLC

CONSTANTS t1, t2, w1, w2

TwoTxns == {t1, t2}
OneTxn == {t1}
TwoWorkers == {w1, w2}
OneWorker == {w1}
AnyFault == {"plaid", "db", "crash"}
PlaidFault == {"plaid"}
NoFault == {}

Symmetry == Permutations(TwoTxns) \union Permutations(TwoWorkers)
=============================================================================
