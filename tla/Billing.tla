------------------------------ MODULE Billing ------------------------------
(***************************************************************************)
(* One user's plan (backend/services/billing.py): the row in subscriptions *)
(* that gates every feature is written by Stripe's webhooks, which arrive  *)
(* in any order and more than once, and by the user's own requests, on     *)
(* several server instances at a time.  Every handler loads the row,       *)
(* decides, and writes the columns it changed (update_user_tier); the      *)
(* user's status is a second commit.                                       *)
(***************************************************************************)
EXTENDS Naturals, Sequences

CONSTANTS Subs,      \* Stripe subscriptions of the user, each for its own plan
          Workers,   \* concurrent handlers
          Moves,     \* status changes Stripe makes: set of <<from, to>>
          Trials,    \* BOOLEAN: a first checkout may start with a trial
          Requests,  \* requests the user makes: subset of {"verify", "select_free"}
          InOrder,   \* BOOLEAN: webhooks arrive in order, at most once each
          Database,  \* "postgres" (deployed) or "sqlite" (tests)
          MaxEvents, \* bound: webhooks Stripe sends
          MaxFaults  \* bound: handlers that die

Statuses == {"none", "trialing", "active", "past_due", "paused", "canceled"}

ASSUME BillingAssumption ==
  /\ "free" \notin Subs
  /\ Moves \subseteq Statuses \X (Statuses \ {"none"})
  /\ Requests \subseteq {"verify", "select_free"}
  /\ Trials \in BOOLEAN /\ InOrder \in BOOLEAN
  /\ Database \in {"postgres", "sqlite"}
  /\ MaxEvents \in Nat /\ MaxFaults \in Nat

VARIABLES stripe,  \* Stripe: status of each subscription
          trialed, \* Stripe: subscriptions with a trial_end
          paid,    \* Stripe: subscriptions that were active at some time
          sent,    \* Stripe: webhooks in the order they happened
          done,    \* Stripe: positions in sent answered with 200
          row,     \* subscriptions: plan, status and renew_at
          expired, \* row.renew_at has passed
          user,    \* users.status
          task,    \* the handler each worker runs
          faults   \* faults left

stripeVars == <<stripe, trialed, paid, sent>>
vars == <<stripeVars, done, row, expired, user, task, faults>>

Rows == [plan : Subs \union {"free"}, status : Statuses \ {"none"},
         renew : {"none", "period", "grace"}]

Events == [kind : {"checkout", "updated", "failed", "deleted", "verify", "select_free"},
           sub : Subs, status : Statuses \ {"none"}]

\* What a worker does: nothing, or handle the webhook at position n of sent (0
\* for a request of the user) with the row it loaded.
Idle == [pc |-> "idle"]
Tasks == {Idle} \union [pc : {"loaded", "written"}, n : 0..MaxEvents, ev : Events, old : Rows]

TypeOK ==
  /\ stripe \in [Subs -> Statuses] /\ trialed \subseteq Subs /\ paid \subseteq Subs
  /\ sent \in Seq(Events) /\ done \subseteq DOMAIN sent
  /\ row \in Rows /\ expired \in BOOLEAN
  /\ user \in {"pending_plan_selection", "active"}
  /\ task \in [Workers -> Tasks]
  /\ faults \in 0..MaxFaults

\* A user right after signup.
Init ==
  /\ stripe = [s \in Subs |-> "none"] /\ trialed = {} /\ paid = {}
  /\ sent = <<>> /\ done = {}
  /\ row = [plan |-> "free", status |-> "active", renew |-> "none"] /\ expired = FALSE
  /\ user = "pending_plan_selection"
  /\ task = [w \in Workers |-> Idle]
  /\ faults = MaxFaults

-----------------------------------------------------------------------------
(* Stripe and time.  invoice.payment_succeeded is left out: its handler     *)
(* changes nothing for an existing user.                                    *)

Event(k, s, st) == [kind |-> k, sub |-> s, status |-> st]

Emit(evs) == Len(sent) + Len(evs) <= MaxEvents /\ sent' = sent \o evs

Become(s, st) ==
  /\ stripe' = [stripe EXCEPT ![s] = st]
  /\ paid' = IF st = "active" THEN paid \union {s} ELSE paid

\* create_checkout_session gives a trial to users who never redeemed one, and
\* does not look for a subscription the user has.
Checkout(s, st) ==
  /\ stripe[s] = "none"
  /\ st = "trialing" => Trials /\ trialed = {}
  /\ Become(s, st)
  /\ trialed' = IF st = "trialing" THEN trialed \union {s} ELSE trialed
  /\ Emit(<<Event("checkout", s, st), Event("updated", s, st)>>)
  /\ UNCHANGED <<done, row, expired, user, task, faults>>

StripeMoves(s, st) ==
  /\ <<stripe[s], st>> \in Moves
  /\ Become(s, st)
  /\ Emit(CASE st = "past_due" /\ stripe[s] = "past_due" -> <<Event("failed", s, st)>>
            [] st = "past_due" /\ stripe[s] # "past_due" ->
                 <<Event("failed", s, st), Event("updated", s, st)>>
            [] st = "canceled" -> <<Event("deleted", s, st)>>
            [] OTHER -> <<Event("updated", s, st)>>)
  /\ UNCHANGED <<trialed, done, row, expired, user, task, faults>>

RenewAtPasses ==
  /\ row.renew # "none" /\ ~expired
  /\ expired' = TRUE
  /\ UNCHANGED <<stripeVars, done, row, user, task, faults>>

-----------------------------------------------------------------------------
(* The start of a handler: the session loads the row *)

Load(w, n, ev) ==
  /\ task[w] = Idle
  /\ task' = [task EXCEPT ![w] = [pc |-> "loaded", n |-> n, ev |-> ev, old |-> row]]
  /\ UNCHANGED <<stripeVars, done, row, expired, user, faults>>

Webhook(w, n) ==
  /\ n \in DOMAIN sent
  /\ InOrder => \A m \in done : m < n
  /\ Load(w, n, sent[n])

\* verify_stripe_session, called by the page Stripe returns the user to.  A
\* session with a payment stays "paid"; one with a trial has none to show.
Verify(w, s) ==
  /\ "verify" \in Requests
  /\ stripe[s] # "none"
  /\ s \in trialed => stripe[s] \in {"trialing", "active"}
  /\ Load(w, 0, Event("verify", s, "active"))

SelectFree(w) ==
  /\ "select_free" \in Requests
  /\ \E s \in Subs : Load(w, 0, Event("select_free", s, "active"))

-----------------------------------------------------------------------------
(* What the handlers decide *)

\* trial_end stays set when a trial is converted; the status is Stripe's now.
TrialEnded(s) == s \in trialed /\ stripe[s] \in {"past_due", "canceled"}

PaymentTrouble(ev) ==
  \/ ev.kind = "failed" /\ ~TrialEnded(ev.sub)
  \/ ev.kind = "updated" /\ ev.status = "past_due"

InGrace(old) == old.status = "past_due" /\ old.renew # "none"

\* renew_at read back from PostgreSQL has a time zone, utcnow() has none, and
\* comparing the two is a TypeError.
Raises(ev, old) == Database = "postgres" /\ PaymentTrouble(ev) /\ InGrace(old)

\* Mutant: a recovered payment leaves the past_due row alone.
ChangeIgnoresRecovery(ev, old) ==
  LET to(p, st, r) == [plan |-> p, status |-> st, renew |-> r]
  IN IF ev.kind \in {"checkout", "verify"} THEN to(ev.sub, "active", "keep")
     ELSE IF ev.kind = "select_free" THEN to("free", "active", "keep")
     ELSE IF PaymentTrouble(ev) /\ InGrace(old) THEN to("free", "canceled", "keep")
     ELSE IF PaymentTrouble(ev) THEN to(ev.sub, "past_due", "grace")
     ELSE IF ev.kind \in {"failed", "deleted"} THEN to("free", "canceled", "keep")
     ELSE IF old.status = "past_due" THEN to(old.plan, old.status, "keep")
     ELSE IF ev.status \in {"trialing", "active"} THEN to(ev.sub, ev.status, "period")
     ELSE to("free", ev.status, "keep")

\* The plan and status passed to update_user_tier; "keep" is end_date = None.
Change(ev, old) ==
  LET to(p, st, r) == [plan |-> p, status |-> st, renew |-> r]
  IN IF ev.kind \in {"checkout", "verify"} THEN to(ev.sub, "active", "keep")
     ELSE IF ev.kind = "select_free" THEN to("free", "active", "keep")
     ELSE IF PaymentTrouble(ev) /\ InGrace(old) THEN to("free", "canceled", "keep")
     ELSE IF PaymentTrouble(ev) THEN to(ev.sub, "past_due", "grace")
     ELSE IF ev.kind \in {"failed", "deleted"} THEN to("free", "canceled", "keep")
     ELSE IF ev.status \in {"trialing", "active"} THEN to(ev.sub, ev.status, "period")
     ELSE to("free", ev.status, "keep")

Ack(w) == done' = IF task[w].n = 0 THEN done ELSE done \union {task[w].n}

-----------------------------------------------------------------------------
(* The end of a handler *)

\* A payment webhook within the grace period: nothing to do.
KeepGrace(w) ==
  /\ task[w].pc = "loaded"
  /\ PaymentTrouble(task[w].ev) /\ InGrace(task[w].old)
  /\ Database = "sqlite" /\ ~expired
  /\ Ack(w)
  /\ task' = [task EXCEPT ![w] = Idle]
  /\ UNCHANGED <<stripeVars, row, expired, user, faults>>

\* The error answers 500: the webhook stays due.
Raise(w) ==
  /\ task[w].pc = "loaded"
  /\ Raises(task[w].ev, task[w].old)
  /\ task' = [task EXCEPT ![w] = Idle]
  /\ UNCHANGED <<stripeVars, done, row, expired, user, faults>>

\* Mutant: end_date is stored even when the handler has none.
WriteEndDateAlways(w) ==
  /\ task[w].pc = "loaded"
  /\ LET ev == task[w].ev
         old == task[w].old
         new == Change(ev, old)
     IN /\ ~Raises(ev, old)
        /\ PaymentTrouble(ev) /\ InGrace(old) => expired
        /\ row' = new
        /\ expired' = (expired /\ new.renew = "keep")
  /\ task' = [task EXCEPT ![w].pc = "written"]
  /\ UNCHANGED <<stripeVars, done, user, faults>>

\* Mutant: the idempotency check returns before the user's status.
WriteSkipsActivation(w) ==
  /\ task[w].pc = "loaded"
  /\ LET ev == task[w].ev
         old == task[w].old
         new == Change(ev, old)
         same == new.plan = old.plan /\ new.status = old.status /\ new.renew = "keep"
     IN /\ ~Raises(ev, old)
        /\ PaymentTrouble(ev) /\ InGrace(old) => expired
        /\ row' = [plan |-> IF new.plan = old.plan THEN row.plan ELSE new.plan,
                   status |-> IF new.status = old.status THEN row.status ELSE new.status,
                   renew |-> IF new.renew = "keep" THEN row.renew ELSE new.renew]
        /\ expired' = (expired /\ new.renew = "keep")
        /\ IF same THEN Ack(w) ELSE UNCHANGED done
        /\ task' = IF same THEN [task EXCEPT ![w] = Idle] ELSE [task EXCEPT ![w].pc = "written"]
  /\ UNCHANGED <<stripeVars, user, faults>>

\* update_user_tier, first commit: only columns that differ from the loaded
\* row are written.
Write(w) ==
  /\ task[w].pc = "loaded"
  /\ LET ev == task[w].ev
         old == task[w].old
         new == Change(ev, old)
     IN /\ ~Raises(ev, old)
        /\ PaymentTrouble(ev) /\ InGrace(old) => expired
        /\ row' = [plan |-> IF new.plan = old.plan THEN row.plan ELSE new.plan,
                   status |-> IF new.status = old.status THEN row.status ELSE new.status,
                   renew |-> IF new.renew = "keep" THEN row.renew ELSE new.renew]
        /\ expired' = (expired /\ new.renew = "keep")
  /\ task' = [task EXCEPT ![w].pc = "written"]
  /\ UNCHANGED <<stripeVars, done, user, faults>>

\* update_user_tier, second commit, and the answer.
Activate(w) ==
  /\ task[w].pc = "written"
  /\ user' = "active"
  /\ Ack(w)
  /\ task' = [task EXCEPT ![w] = Idle]
  /\ UNCHANGED <<stripeVars, row, expired, faults>>

\* The instance goes away, or an e-mail or notification fails after a commit.
Crash(w) ==
  /\ task[w] # Idle /\ faults > 0
  /\ task' = [task EXCEPT ![w] = Idle]
  /\ faults' = faults - 1
  /\ UNCHANGED <<stripeVars, done, row, expired, user>>

Next ==
  \/ RenewAtPasses
  \/ \E s \in Subs, st \in {"trialing", "active"} : Checkout(s, st)
  \/ \E s \in Subs, st \in Statuses : StripeMoves(s, st)
  \/ \E w \in Workers :
       \/ \E n \in 1..MaxEvents : Webhook(w, n)
       \/ \E s \in Subs : Verify(w, s)
       \/ SelectFree(w)
       \/ KeepGrace(w) \/ Raise(w) \/ Write(w) \/ Activate(w) \/ Crash(w)

Spec == Init /\ [][Next]_vars
-----------------------------------------------------------------------------
(* Properties *)

\* get_current_active_subscription: the plan every feature gate sees.
Access == IF row.status = "active" THEN row.plan ELSE "free"

\* Once the webhook of a completed checkout is answered, the user is past plan
\* selection, although an earlier attempt may have died after writing the plan
\* and before writing the user (the idempotent path must finish the job).
HandledMeansEntered ==
  \A n \in done : sent[n].kind = "checkout" => user = "active"

\* When webhooks come in order and the last one is answered, the row says what
\* Stripe says, whatever was retried, skipped or failed before.
LastWordWins ==
  (sent # <<>> /\ Len(sent) \in done /\ \A w \in Workers : task[w] = Idle) =>
    \A s \in Subs :
      /\ stripe[s] \in {"trialing", "active"} => row.plan = s /\ row.status = stripe[s]
      /\ stripe[s] = "past_due" =>
           \/ row.plan = s /\ row.status = "past_due"
           \/ row.plan = "free" /\ row.status = "canceled"
      /\ stripe[s] \in {"paused", "canceled"} =>
           row.plan = "free" /\ row.status = stripe[s]

\* A failed payment handled after the grace period moves the user to Free.
GraceEnds ==
  [][\A w \in Workers :
       /\ task[w].pc = "loaded" /\ task'[w].pc # "loaded" /\ faults' = faults
       /\ PaymentTrouble(task[w].ev) /\ InGrace(row) /\ task[w].old = row /\ expired
       => row'.plan = "free"]_vars

\* A customer who has paid keeps the plan when a payment fails, until the grace
\* period is over.
NoDowngradeInGrace ==
  [][\A s \in paid :
       stripe[s] = "past_due" /\ row.plan = s /\ row'.plan = "free" => expired]_vars

\* Within the grace period the feature gates still see the plan.
GraceKeepsAccess ==
  \A s \in Subs : row.plan = s /\ InGrace(row) /\ ~expired => Access = s

\* After Stripe deleted the user's only subscription and that webhook was
\* answered, the user has no paid plan.
DeletedMeansFree ==
  \A s \in Subs :
    /\ stripe[s] = "canceled" /\ DOMAIN sent = done
    /\ \A w \in Workers : task[w] = Idle
    => row.plan # s

\* The race of the webhooks with the page that verifies the checkout never
\* leaves a row that no handler asked for: a paid plan with a dead status.
NoMixedRow == row.plan # "free" => row.status \in {"trialing", "active", "past_due"}

\* A user who changes from one subscription to another has a plan as long as
\* Stripe bills for one.
UpgradeKeepsPlan ==
  (DOMAIN sent = done /\ \A w \in Workers : task[w] = Idle) =>
    ((\E s \in Subs : stripe[s] = "active") => row.plan # "free")
=============================================================================
