----------------------------- MODULE MCBilling -----------------------------
(* Billing on small instances. *)
EXTENDS Billing, TLC

CONSTANTS s1, s2, w1, w2

OneSub == {s1}
TwoSubs == {s1, s2}
OneWorker == {w1}
TwoWorkers == {w1, w2}
Symmetric == Permutations(TwoWorkers)

Failing == {<<"active", "past_due">>, <<"past_due", "past_due">>}
Lifecycle ==
  Failing \union
  {<<"trialing", "active">>, <<"trialing", "past_due">>, <<"past_due", "active">>,
   <<"active", "paused">>, <<"paused", "active">>, <<"past_due", "canceled">>,
   <<"trialing", "canceled">>, <<"active", "canceled">>}
Converting == {<<"trialing", "active">>} \union Failing
Cancelling == {<<"active", "canceled">>}
NoRequest == {}
VerifyOnly == {"verify"}
AllRequests == {"verify", "select_free"}
=============================================================================
