--------------------------- MODULE Billing_proofs ---------------------------
(***************************************************************************)
(* Theorems about Billing for every set of subscriptions and workers, every *)
(* set of status changes Stripe makes, both databases, webhooks in any     *)
(* order and any number of crashes; and, for the webhooks of one           *)
(* subscription in order, that the last one is what the row says.          *)
(***************************************************************************)
EXTENDS Billing, SequenceTheorems, TLAPS

\* A handler of a webhook works on the webhook it will answer.
Serves ==
  \A w \in Workers :
    task[w] # Idle /\ task[w].n # 0 =>
      task[w].n \in DOMAIN sent /\ task[w].ev = sent[task[w].n]

IInv == TypeOK /\ Serves /\ HandledMeansEntered

-----------------------------------------------------------------------------
(* Lemmas *)

\* A busy worker's task and what its steps make of it.
LEMMA TaskShape ==
  ASSUME NEW r \in Tasks, r # Idle
  PROVE  /\ r \in [pc : {"loaded", "written"}, n : 0..MaxEvents, ev : Events, old : Rows]
         /\ [r EXCEPT !.pc = "written"] \in Tasks
         /\ [r EXCEPT !.pc = "written"] # Idle
         /\ [r EXCEPT !.pc = "written"].n = r.n
         /\ [r EXCEPT !.pc = "written"].ev = r.ev
<1>1. r \in [pc : {"loaded", "written"}, n : 0..MaxEvents, ev : Events, old : Rows]
  BY DEF Tasks
<1>2. [r EXCEPT !.pc = "written"] \in
        [pc : {"loaded", "written"}, n : 0..MaxEvents, ev : Events, old : Rows]
  BY <1>1
<1>3. [r EXCEPT !.pc = "written"].pc = "written" /\ Idle.pc = "idle"
  BY <1>1 DEF Idle
<1>4. [r EXCEPT !.pc = "written"].n = r.n /\ [r EXCEPT !.pc = "written"].ev = r.ev
  BY <1>1
<1> QED BY <1>1, <1>2, <1>3, <1>4 DEF Tasks

\* Webhooks are only ever added at the end of sent.
LEMMA EmitGrows ==
  ASSUME TypeOK, NEW evs \in Seq(Events), Emit(evs)
  PROVE  /\ sent' \in Seq(Events)
         /\ \A n \in DOMAIN sent : n \in DOMAIN sent' /\ sent'[n] = sent[n]
<1>1. sent \in Seq(Events) /\ sent' = sent \o evs
  BY DEF Emit, TypeOK
<1>2. /\ sent' \in Seq(Events) /\ Len(sent') = Len(sent) + Len(evs)
      /\ \A i \in 1 .. Len(sent) + Len(evs) :
           sent'[i] = IF i <= Len(sent) THEN sent[i] ELSE evs[i - Len(sent)]
  BY <1>1, ConcatProperties
<1>3. Len(sent) \in Nat /\ Len(evs) \in Nat /\ DOMAIN sent = 1..Len(sent) /\ DOMAIN sent' = 1..Len(sent')
  BY <1>1, <1>2
<1> QED BY <1>2, <1>3

LEMMA EventType ==
  ASSUME NEW k \in {"checkout", "updated", "failed", "deleted", "verify", "select_free"},
         NEW s \in Subs, NEW st \in Statuses \ {"none"}
  PROVE  Event(k, s, st) \in Events
BY DEF Event, Events

\* The outside world moves, the handlers and the row do not.
LEMMA StripeStep ==
  ASSUME IInv, NEW evs \in Seq(Events), Emit(evs),
         stripe' \in [Subs -> Statuses], trialed' \subseteq Subs, paid' \subseteq Subs,
         UNCHANGED <<done, row, expired, user, task, faults>>
  PROVE  IInv'
<1>1. /\ sent' \in Seq(Events)
      /\ \A n \in DOMAIN sent : n \in DOMAIN sent' /\ sent'[n] = sent[n]
  BY EmitGrows DEF IInv
<1>2. TypeOK'
  BY <1>1 DEF IInv, TypeOK
<1>3. Serves'
  BY <1>1 DEF IInv, Serves
<1>4. HandledMeansEntered'
  BY <1>1 DEF IInv, TypeOK, HandledMeansEntered
<1> QED BY <1>2, <1>3, <1>4 DEF IInv

LEMMA CheckoutKeeps ==
  ASSUME IInv, NEW s \in Subs, NEW st \in {"trialing", "active"}, Checkout(s, st)
  PROVE  IInv'
<1> DEFINE evs == <<Event("checkout", s, st), Event("updated", s, st)>>
<1>1. st \in Statuses \ {"none"} /\ st \in Statuses
  BY DEF Statuses
<1>2. evs \in Seq(Events) /\ Emit(evs)
  BY <1>1, EventType DEF Checkout
<1>3. stripe' \in [Subs -> Statuses] /\ paid' \subseteq Subs /\ trialed' \subseteq Subs
  BY <1>1 DEF Checkout, Become, IInv, TypeOK
<1> HIDE DEF evs
<1> QED BY <1>2, <1>3, StripeStep DEF Checkout

LEMMA StripeMovesKeeps ==
  ASSUME IInv, NEW s \in Subs, NEW st \in Statuses, StripeMoves(s, st)
  PROVE  IInv'
<1>1. st \in Statuses \ {"none"}
  BY BillingAssumption DEF StripeMoves
<1>2. PICK evs \in Seq(Events) : Emit(evs)
  <2>1. /\ Event("failed", s, st) \in Events /\ Event("updated", s, st) \in Events
        /\ Event("deleted", s, st) \in Events
    BY <1>1, EventType
  <2>2. /\ <<Event("failed", s, st)>> \in Seq(Events)
        /\ <<Event("failed", s, st), Event("updated", s, st)>> \in Seq(Events)
        /\ <<Event("deleted", s, st)>> \in Seq(Events)
        /\ <<Event("updated", s, st)>> \in Seq(Events)
    BY <2>1
  <2>3. CASE st = "past_due" /\ stripe[s] = "past_due"
    BY <2>2, <2>3 DEF StripeMoves
  <2>4. CASE st = "past_due" /\ stripe[s] # "past_due"
    BY <2>2, <2>4 DEF StripeMoves
  <2>5. CASE st = "canceled"
    BY <2>2, <2>5 DEF StripeMoves
  <2>6. CASE st \notin {"past_due", "canceled"}
    BY <2>2, <2>6 DEF StripeMoves
  <2> QED BY <2>3, <2>4, <2>5, <2>6
<1>3. stripe' \in [Subs -> Statuses] /\ paid' \subseteq Subs /\ trialed' \subseteq Subs
  BY <1>1 DEF StripeMoves, Become, IInv, TypeOK
<1> QED BY <1>2, <1>3, StripeStep DEF StripeMoves

\* A worker whose task changes still serves the webhook it will answer.
LEMMA ServesSteps ==
  ASSUME IInv, NEW w \in Workers, NEW r, task' = [task EXCEPT ![w] = r], sent' = sent,
         r # Idle /\ r.n # 0 => r.n \in DOMAIN sent /\ r.ev = sent[r.n]
  PROVE  Serves'
<1> SUFFICES ASSUME NEW v \in Workers, task'[v] # Idle, task'[v].n # 0
             PROVE  task'[v].n \in DOMAIN sent /\ task'[v].ev = sent[task'[v].n]
  BY DEF Serves
<1>1. task \in [Workers -> Tasks]
  BY DEF IInv, TypeOK
<1>2. CASE v = w
  BY <1>1, <1>2
<1>3. CASE v # w
  BY <1>1, <1>3 DEF IInv, Serves
<1> QED BY <1>2, <1>3

LEMMA LoadKeeps ==
  ASSUME IInv, NEW w \in Workers, NEW n \in 0..MaxEvents, NEW ev \in Events, Load(w, n, ev),
         n # 0 => n \in DOMAIN sent /\ ev = sent[n]
  PROVE  IInv'
<1> DEFINE r == [pc |-> "loaded", n |-> n, ev |-> ev, old |-> row]
<1>1. r \in Tasks /\ r.n = n /\ r.ev = ev
  BY DEF Tasks, IInv, TypeOK
<1>2. task' = [task EXCEPT ![w] = r]
  BY DEF Load
<1> HIDE DEF r
<1>3. Serves'
  BY <1>1, <1>2, ServesSteps DEF Load, stripeVars
<1>4. TypeOK'
  BY <1>1, <1>2 DEF Load, stripeVars, IInv, TypeOK
<1>5. HandledMeansEntered'
  BY DEF Load, stripeVars, IInv, HandledMeansEntered
<1> QED BY <1>3, <1>4, <1>5 DEF IInv

\* A worker that stops, without an answer or with one.
LEMMA StopKeeps ==
  ASSUME IInv, NEW w \in Workers, task' = [task EXCEPT ![w] = Idle],
         UNCHANGED <<stripeVars, row, expired>>, faults' \in 0..MaxFaults,
         user' \in {user, "active"},
         \/ done' = done
         \/ Ack(w) /\ task[w] # Idle /\ (task[w].ev.kind = "checkout" => user' = "active")
  PROVE  IInv'
<1>1. Serves'
  BY ServesSteps DEF stripeVars
<1>2. Idle \in Tasks /\ sent' = sent
  BY DEF Tasks, stripeVars
<1>3. done' \subseteq DOMAIN sent /\ HandledMeansEntered'
  <2>1. CASE done' = done
    BY <1>2, <2>1 DEF IInv, TypeOK, HandledMeansEntered
  <2>2. CASE Ack(w) /\ task[w] # Idle /\ (task[w].ev.kind = "checkout" => user' = "active")
    <3>1. CASE task[w].n = 0
      BY <1>2, <2>2, <3>1 DEF Ack, IInv, TypeOK, HandledMeansEntered
    <3>2. CASE task[w].n # 0
      <4>1. task[w].n \in DOMAIN sent /\ task[w].ev = sent[task[w].n]
        BY <2>2, <3>2 DEF IInv, Serves
      <4>2. done' = done \union {task[w].n}
        BY <2>2, <3>2 DEF Ack
      <4> QED BY <1>2, <2>2, <4>1, <4>2 DEF IInv, TypeOK, HandledMeansEntered
    <3> QED BY <3>1, <3>2
  <2> QED BY <2>1, <2>2
<1>4. TypeOK'
  BY <1>2, <1>3 DEF stripeVars, IInv, TypeOK
<1> QED BY <1>1, <1>3, <1>4 DEF IInv

\* What a handler decides can be stored.
LEMMA ChangeType ==
  ASSUME NEW ev \in Events, NEW old \in Rows
  PROVE  /\ Change(ev, old).plan \in Subs \union {"free"}
         /\ Change(ev, old).status \in Statuses \ {"none"}
         /\ Change(ev, old).renew \in {"keep", "period", "grace"}
<1>1. ev.sub \in Subs /\ ev.status \in Statuses \ {"none"}
  BY DEF Events
<1>2. {"active", "canceled", "past_due", "trialing"} \subseteq Statuses \ {"none"}
  BY DEF Statuses
<1> HIDE DEF Statuses
<1>3. CASE ev.kind \in {"checkout", "verify"}
  BY <1>1, <1>2, <1>3 DEF Change
<1>4. CASE ev.kind = "select_free"
  BY <1>1, <1>2, <1>4 DEF Change
<1>5. CASE ev.kind \in {"failed", "deleted", "updated"}
  <2>1. CASE PaymentTrouble(ev)
    BY <1>1, <1>2, <1>5, <2>1 DEF Change
  <2>2. CASE ~PaymentTrouble(ev)
    BY <1>1, <1>2, <1>5, <2>2 DEF Change
  <2> QED BY <2>1, <2>2
<1> QED BY <1>3, <1>4, <1>5 DEF Events

LEMMA WriteKeeps ==
  ASSUME IInv, NEW w \in Workers, Write(w)
  PROVE  IInv'
<1> DEFINE r == [task[w] EXCEPT !.pc = "written"]
           new == Change(task[w].ev, task[w].old)
<1>1. task[w] \in Tasks /\ task[w] # Idle
  BY DEF Write, IInv, TypeOK, Idle
<1>2. task[w].ev \in Events /\ task[w].old \in Rows
  BY <1>1, TaskShape
<1>3. r \in Tasks /\ r.n = task[w].n /\ r.ev = task[w].ev
  BY <1>1, TaskShape
<1>4. task' = [task EXCEPT ![w] = r] /\ sent' = sent
  BY DEF Write, stripeVars
<1>5. row' \in Rows /\ expired' \in BOOLEAN
  <2>1. /\ new.plan \in Subs \union {"free"} /\ new.status \in Statuses \ {"none"}
        /\ new.renew \in {"keep", "period", "grace"}
    BY <1>2, ChangeType
  <2>2. /\ row' = [plan |-> IF new.plan = task[w].old.plan THEN row.plan ELSE new.plan,
                   status |-> IF new.status = task[w].old.status THEN row.status ELSE new.status,
                   renew |-> IF new.renew = "keep" THEN row.renew ELSE new.renew]
        /\ expired' = (expired /\ new.renew = "keep")
    BY DEF Write
  <2>3. row \in Rows /\ expired \in BOOLEAN
    BY DEF IInv, TypeOK
  <2> HIDE DEF new
  <2>4. row' \in Rows
    BY <2>1, <2>2, <2>3 DEF Rows
  <2>5. expired' \in BOOLEAN
    BY <2>2
  <2> QED BY <2>4, <2>5
<1> HIDE DEF r
<1>6. Serves'
  <2>1. r.n # 0 => r.n \in DOMAIN sent /\ r.ev = sent[r.n]
    BY <1>1, <1>3 DEF IInv, Serves
  <2> QED BY <1>4, <2>1, ServesSteps
<1>7. TypeOK'
  BY <1>3, <1>4, <1>5 DEF Write, stripeVars, IInv, TypeOK
<1>8. HandledMeansEntered'
  BY DEF Write, stripeVars, IInv, HandledMeansEntered
<1> QED BY <1>6, <1>7, <1>8 DEF IInv

LEMMA InitInv == Init => IInv
<1> SUFFICES ASSUME Init PROVE IInv
  OBVIOUS
<1>1. task \in [Workers -> Tasks] /\ Serves
  BY DEF Init, Tasks, Serves
<1>2. row \in Rows
  BY DEF Init, Rows, Statuses
<1>3. stripe \in [Subs -> Statuses]
  BY DEF Init, Statuses
<1>4. sent \in Seq(Events) /\ done \subseteq DOMAIN sent
  BY DEF Init
<1>5. faults \in 0..MaxFaults
  BY BillingAssumption DEF Init
<1> QED BY <1>1, <1>2, <1>3, <1>4, <1>5 DEF Init, IInv, TypeOK, HandledMeansEntered

LEMMA StepInv == IInv /\ [Next]_vars => IInv'
<1> SUFFICES ASSUME IInv, [Next]_vars PROVE IInv'
  OBVIOUS
<1>1. CASE RenewAtPasses \/ UNCHANGED vars
  BY <1>1 DEF RenewAtPasses, vars, stripeVars, IInv, TypeOK, Serves, HandledMeansEntered
<1>2. ASSUME NEW s \in Subs, NEW st \in {"trialing", "active"}, Checkout(s, st)  PROVE IInv'
  BY <1>2, CheckoutKeeps
<1>3. ASSUME NEW s \in Subs, NEW st \in Statuses, StripeMoves(s, st)  PROVE IInv'
  BY <1>3, StripeMovesKeeps
<1>4. ASSUME NEW w \in Workers, NEW n \in 1..MaxEvents, Webhook(w, n)  PROVE IInv'
  <2>1. n \in 0..MaxEvents /\ n \in DOMAIN sent /\ Load(w, n, sent[n])
    BY <1>4, BillingAssumption DEF Webhook
  <2>2. sent[n] \in Events
    BY <2>1 DEF IInv, TypeOK
  <2> QED BY <2>1, <2>2, LoadKeeps
<1>5. ASSUME NEW w \in Workers, (\E s \in Subs : Verify(w, s)) \/ SelectFree(w)  PROVE IInv'
  <2>1. PICK s \in Subs, k \in {"verify", "select_free"} : Load(w, 0, Event(k, s, "active"))
    BY <1>5 DEF Verify, SelectFree
  <2>2. Event(k, s, "active") \in Events
    BY EventType DEF Statuses
  <2> QED BY <2>1, <2>2, LoadKeeps, BillingAssumption
<1>6. ASSUME NEW w \in Workers, KeepGrace(w) \/ Raise(w) \/ Activate(w) \/ Crash(w)  PROVE IInv'
  <2>1. faults \in 0..MaxFaults /\ MaxFaults \in Nat
    BY BillingAssumption DEF IInv, TypeOK
  <2>2. CASE KeepGrace(w)
    <3>1. task[w] # Idle /\ task[w].ev.kind # "checkout"
      BY <2>2 DEF KeepGrace, PaymentTrouble, Idle
    <3> QED BY <2>1, <2>2, <3>1, StopKeeps DEF KeepGrace
  <2>3. CASE Raise(w)
    BY <2>1, <2>3, StopKeeps DEF Raise
  <2>4. CASE Activate(w)
    <3>1. task[w] # Idle
      BY <2>4 DEF Activate, Idle
    <3> QED BY <2>1, <2>4, <3>1, StopKeeps DEF Activate
  <2>5. CASE Crash(w)
    <3>1. faults' \in 0..MaxFaults
      BY <2>1, <2>5 DEF Crash
    <3>2. /\ task' = [task EXCEPT ![w] = Idle] /\ done' = done /\ user' \in {user, "active"}
          /\ UNCHANGED <<stripeVars, row, expired>>
      BY <2>5 DEF Crash
    <3> QED BY <3>1, <3>2, StopKeeps
  <2> QED BY <1>6, <2>2, <2>3, <2>4, <2>5
<1>7. ASSUME NEW w \in Workers, Write(w)  PROVE IInv'
  BY <1>7, WriteKeeps
<1> QED BY <1>1, <1>2, <1>3, <1>4, <1>5, <1>6, <1>7 DEF Next

-----------------------------------------------------------------------------
(* The theorems *)

LEMMA Invariance == Spec => []IInv
<1> QED BY InitInv, StepInv, PTL DEF Spec

\* What update_user_tier and the handlers store always has its type.
THEOREM TypeCorrect == Spec => []TypeOK
<1>1. IInv => TypeOK
  BY DEF IInv
<1> QED BY <1>1, Invariance, PTL

\* An answered checkout leaves the user past plan selection, in whatever order
\* and however often the webhooks come, whichever handlers run at the same time
\* and wherever earlier attempts died: the idempotency check of update_user_tier
\* does not skip the user's status.
THEOREM CheckoutEnters == Spec => []HandledMeansEntered
<1>1. IInv => HandledMeansEntered
  BY DEF IInv
<1> QED BY <1>1, Invariance, PTL

-----------------------------------------------------------------------------
(* Webhooks in order, to one handler at a time, for one subscription.       *)

\* The last webhook tells the state Stripe is in.
Tells(ev, st) ==
  \/ ev.kind = "updated" /\ ev.status = st /\ st # "canceled"
  \/ ev.kind = "failed" /\ st = "past_due"
  \/ ev.kind = "deleted" /\ st = "canceled"

\* The row says what Stripe says of s.
Says(s) ==
  /\ stripe[s] \in {"trialing", "active"} => row.plan = s /\ row.status = stripe[s]
  /\ stripe[s] = "past_due" =>
       \/ row.plan = s /\ row.status = "past_due"
       \/ row.plan = "free" /\ row.status = "canceled"
  /\ stripe[s] \in {"paused", "canceled"} =>
       row.plan = "free" /\ row.status = stripe[s]

\* The handler works on a webhook after all those answered, over the row there
\* is; and once the last webhook is written, answered or not, the row says it.
OrderInv(s, w) ==
  /\ task[w] # Idle => task[w].n # 0 /\ \A m \in done : m < task[w].n
  /\ task[w].pc = "loaded" => task[w].old = row
  /\ row.status = "past_due" => row.plan = s
  /\ sent # <<>> => Tells(sent[Len(sent)], stripe[s])
  /\ sent # <<>> /\ (Len(sent) \in done \/ (task[w].pc = "written" /\ task[w].n = Len(sent)))
       => Says(s)

LEMMA OrderInit == ASSUME NEW s, NEW w, Workers = {w}, Init PROVE OrderInv(s, w)
BY DEF Init, OrderInv, Idle

\* A webhook more: the row has to be told again.
LEMMA OrderEmit ==
  ASSUME NEW s, NEW w, Subs = {s}, Workers = {w}, IInv, OrderInv(s, w),
         NEW evs \in Seq(Events), evs # <<>>, Emit(evs), Tells(evs[Len(evs)], stripe'[s]),
         UNCHANGED <<done, row, expired, user, task, faults>>
  PROVE  OrderInv(s, w)'
<1>1. sent \in Seq(Events) /\ sent' = sent \o evs /\ Len(evs) \in Nat /\ Len(evs) # 0
  BY DEF Emit, IInv, TypeOK
<1>2. /\ Len(sent') = Len(sent) + Len(evs) /\ sent'[Len(sent')] = evs[Len(evs)]
      /\ Len(sent) \in Nat /\ DOMAIN sent = 1..Len(sent)
  <2>1. /\ sent' \in Seq(Events) /\ Len(sent') = Len(sent) + Len(evs)
        /\ \A i \in 1 .. Len(sent) + Len(evs) :
             sent'[i] = IF i <= Len(sent) THEN sent[i] ELSE evs[i - Len(sent)]
    BY <1>1, ConcatProperties
  <2> QED BY <1>1, <2>1
<1>3. Len(sent') \notin done
  BY <1>1, <1>2 DEF IInv, TypeOK
<1>4. task[w] # Idle => task[w].n # Len(sent')
  BY <1>1, <1>2 DEF IInv, Serves, OrderInv
<1>5. task[w].pc = "written" => task[w] # Idle
  BY DEF Idle
<1> QED BY <1>2, <1>3, <1>4, <1>5 DEF OrderInv

LEMMA OrderStripe ==
  ASSUME NEW s, NEW w, Subs = {s}, Workers = {w}, IInv, OrderInv(s, w),
         \/ \E st \in {"trialing", "active"} : Checkout(s, st)
         \/ \E st \in Statuses : StripeMoves(s, st)
  PROVE  OrderInv(s, w)'
<1>1. stripe \in [Subs -> Statuses]
  BY DEF IInv, TypeOK
<1>2. CASE \E st \in {"trialing", "active"} : Checkout(s, st)
  <2>1. PICK st \in {"trialing", "active"} : Checkout(s, st)
    BY <1>2
  <2>2. PICK first, last : first = Event("checkout", s, st) /\ last = Event("updated", s, st)
    OBVIOUS
  <2>3. first \in Events /\ last \in Events
    BY <2>2, EventType DEF Statuses
  <2>4. stripe'[s] = st
    BY <1>1, <2>1 DEF Checkout, Become
  <2>5. Tells(last, st)
    BY <2>2 DEF Tells, Event
  <2>6. Emit(<<first, last>>) /\ UNCHANGED <<done, row, expired, user, task, faults>>
    BY <2>1, <2>2 DEF Checkout
  <2>7. PICK evs : evs = <<first, last>>
    OBVIOUS
  <2>8. evs \in Seq(Events) /\ evs # <<>> /\ evs[Len(evs)] = last
    BY <2>3, <2>7
  <2> QED BY <2>4, <2>5, <2>6, <2>7, <2>8, OrderEmit
<1>3. CASE \E st \in Statuses : StripeMoves(s, st)
  <2>1. PICK st \in Statuses : StripeMoves(s, st)
    BY <1>3
  <2>2. st \in Statuses \ {"none"}
    BY <2>1, BillingAssumption DEF StripeMoves
  <2>3. stripe'[s] = st
    BY <1>1, <2>1 DEF StripeMoves, Become
  <2>4. PICK failed, updated, deleted :
          /\ failed = Event("failed", s, st) /\ updated = Event("updated", s, st)
          /\ deleted = Event("deleted", s, st)
    OBVIOUS
  <2>5. failed \in Events /\ updated \in Events /\ deleted \in Events
    BY <2>2, <2>4, EventType
  <2>6. /\ failed.kind = "failed" /\ updated.kind = "updated" /\ deleted.kind = "deleted"
        /\ updated.status = st
    BY <2>4 DEF Event
  <2>7. UNCHANGED <<done, row, expired, user, task, faults>>
    BY <2>1 DEF StripeMoves
  <2>a. ASSUME NEW evs \in Seq(Events), evs # <<>>, Emit(evs), Tells(evs[Len(evs)], st)
        PROVE  OrderInv(s, w)'
    BY <2>3, <2>7, <2>a, OrderEmit
  <2>b. \A e \in Events : <<e>> \in Seq(Events) /\ <<e>> # <<>> /\ <<e>>[Len(<<e>>)] = e
    OBVIOUS
  <2>c. /\ <<failed, updated>> \in Seq(Events) /\ <<failed, updated>> # <<>>
        /\ <<failed, updated>>[Len(<<failed, updated>>)] = updated
    BY <2>5
  <2>8. CASE st = "past_due" /\ stripe[s] = "past_due"
    <3>1. Emit(<<failed>>) /\ Tells(failed, st)
      BY <2>1, <2>4, <2>6, <2>8 DEF StripeMoves, Tells
    <3> QED BY <2>5, <2>a, <2>b, <2>c, <3>1
  <2>9. CASE st = "past_due" /\ stripe[s] # "past_due"
    <3>1. Emit(<<failed, updated>>) /\ Tells(updated, st)
      BY <2>1, <2>4, <2>6, <2>9 DEF StripeMoves, Tells
    <3> QED BY <2>5, <2>a, <2>b, <2>c, <3>1
  <2>10. CASE st = "canceled"
    <3>1. Emit(<<deleted>>) /\ Tells(deleted, st)
      BY <2>1, <2>4, <2>6, <2>10 DEF StripeMoves, Tells
    <3> QED BY <2>5, <2>a, <2>b, <2>c, <3>1
  <2>11. CASE st \notin {"past_due", "canceled"}
    <3>1. Emit(<<updated>>) /\ Tells(updated, st)
      BY <2>1, <2>4, <2>6, <2>11 DEF StripeMoves, Tells
    <3> QED BY <2>5, <2>a, <2>b, <2>c, <3>1
  <2> QED BY <2>8, <2>9, <2>10, <2>11
<1> QED BY <1>2, <1>3

LEMMA OrderLoad ==
  ASSUME NEW s, NEW w, Subs = {s}, Workers = {w}, InOrder, IInv, OrderInv(s, w),
         NEW n \in 1..MaxEvents, Webhook(w, n)
  PROVE  OrderInv(s, w)'
<1>1. PICK r : r = [pc |-> "loaded", n |-> n, ev |-> sent[n], old |-> row]
  OBVIOUS
<1>2. task' = [task EXCEPT ![w] = r] /\ UNCHANGED <<stripeVars, done, row, expired, user, faults>>
  BY <1>1 DEF Webhook, Load
<1>3. task'[w] = r
  BY <1>2 DEF IInv, TypeOK
<1>4. r.pc = "loaded" /\ r.n = n /\ r.old = row
  BY <1>1
<1>5. n \in 1..MaxEvents /\ \A m \in done : m < n
  BY DEF Webhook
<1>6. n # 0
  BY <1>5, BillingAssumption DEF BillingAssumption
<1> QED BY <1>2, <1>3, <1>4, <1>5, <1>6 DEF OrderInv, stripeVars, Says

\* A handler that stops: with no answer, or having answered what was written.
LEMMA OrderStops ==
  ASSUME NEW s, NEW w, Subs = {s}, Workers = {w}, IInv, OrderInv(s, w), task[w] # Idle,
         task' = [task EXCEPT ![w] = Idle], UNCHANGED <<stripeVars, row>>,
         \/ done' = done
         \/ Ack(w) /\ (task[w].n = Len(sent) => Says(s))
  PROVE  OrderInv(s, w)'
<1>1. task'[w] = Idle /\ Idle.pc = "idle"
  BY DEF IInv, TypeOK, Idle
<1>2. stripe' = stripe /\ sent' = sent
  BY DEF stripeVars
<1>3. Len(sent) \in done' => Len(sent) \in done \/ task[w].n = Len(sent)
  BY DEF Ack
<1>4. sent # <<>> /\ Len(sent) \in done' => Says(s)
  BY <1>3 DEF OrderInv, Ack
<1> QED BY <1>1, <1>2, <1>4 DEF OrderInv, Says

\* What a handler of the last webhook decides is what Stripe says.
LEMMA DecidesTheWord ==
  ASSUME NEW s, Subs = {s}, stripe[s] \in Statuses, NEW ev \in Events, NEW old \in Rows,
         Tells(ev, stripe[s])
  PROVE  LET new == Change(ev, old)
         IN /\ stripe[s] \in {"trialing", "active"} => new.plan = s /\ new.status = stripe[s]
            /\ stripe[s] = "past_due" =>
                 \/ new.plan = s /\ new.status = "past_due"
                 \/ new.plan = "free" /\ new.status = "canceled"
            /\ stripe[s] \in {"paused", "canceled"} =>
                 new.plan = "free" /\ new.status = stripe[s]
<1>1. ev.sub = s
  BY DEF Events
<1>2. CASE ev.kind = "updated" /\ ev.status = stripe[s] /\ stripe[s] # "canceled"
  <2>1. CASE stripe[s] = "past_due"
    BY <1>1, <1>2, <2>1 DEF Change, PaymentTrouble
  <2>2. CASE stripe[s] # "past_due"
    BY <1>1, <1>2, <2>2 DEF Change, PaymentTrouble
  <2> QED BY <2>1, <2>2
<1>3. CASE ev.kind = "failed" /\ stripe[s] = "past_due"
  BY <1>1, <1>3 DEF Change, PaymentTrouble
<1>4. CASE ev.kind = "deleted" /\ stripe[s] = "canceled"
  BY <1>1, <1>4 DEF Change, PaymentTrouble
<1> QED BY <1>2, <1>3, <1>4 DEF Tells

\* A past_due row has the plan whose payment failed.
LEMMA PastDueHasPlan ==
  ASSUME NEW s, Subs = {s}, NEW ev \in Events, NEW old \in Rows
  PROVE  Change(ev, old).status = "past_due" => Change(ev, old).plan = s
<1>1. ev.sub = s
  BY DEF Events
<1>2. CASE PaymentTrouble(ev)
  BY <1>1, <1>2 DEF Change, PaymentTrouble
<1>3. CASE ~PaymentTrouble(ev)
  <2>1. CASE ev.kind = "updated"
    BY <1>1, <1>3, <2>1 DEF Change, PaymentTrouble
  <2>2. CASE ev.kind # "updated"
    BY <1>1, <1>3, <2>2 DEF Change, Events
  <2> QED BY <2>1, <2>2
<1> QED BY <1>2, <1>3

LEMMA OrderWrite ==
  ASSUME NEW s, NEW w, Subs = {s}, Workers = {w}, IInv, OrderInv(s, w), Write(w)
  PROVE  OrderInv(s, w)'
<1>1. task[w] \in Tasks /\ task[w] # Idle /\ row \in Rows
  BY DEF Write, IInv, TypeOK, Idle
<1>2. task[w].ev \in Events /\ task[w].old = row /\ stripe[s] \in Statuses
  BY <1>1, TaskShape DEF Write, OrderInv, IInv, TypeOK
<1>3. PICK new : new = Change(task[w].ev, task[w].old)
  OBVIOUS
<1>4. PICK r : r = [task[w] EXCEPT !.pc = "written"]
  OBVIOUS
<1>5. r.n = task[w].n /\ r.pc = "written" /\ r # Idle
  BY <1>1, <1>4, TaskShape
<1>6. task' = [task EXCEPT ![w] = r] /\ UNCHANGED <<stripeVars, done>>
  BY <1>4 DEF Write
<1>7. task'[w] = r /\ stripe' = stripe /\ sent' = sent
  BY <1>6 DEF IInv, TypeOK, stripeVars
<1>8. row'.plan = new.plan /\ row'.status = new.status
  BY <1>2, <1>3 DEF Write
<1>9. row'.status = "past_due" => row'.plan = s
  BY <1>1, <1>2, <1>3, <1>8, PastDueHasPlan
<1>10. ASSUME sent # <<>>, task[w].n = Len(sent) PROVE Says(s)'
  <2>1. task[w].ev = sent[Len(sent)] /\ Tells(sent[Len(sent)], stripe[s])
    BY <1>1, <1>10 DEF IInv, Serves, OrderInv
  <2>2. LET d == Change(task[w].ev, task[w].old)
        IN /\ stripe[s] \in {"trialing", "active"} => d.plan = s /\ d.status = stripe[s]
           /\ stripe[s] = "past_due" =>
                \/ d.plan = s /\ d.status = "past_due"
                \/ d.plan = "free" /\ d.status = "canceled"
           /\ stripe[s] \in {"paused", "canceled"} =>
                d.plan = "free" /\ d.status = stripe[s]
    BY <1>1, <1>2, <2>1, DecidesTheWord
  <2> QED BY <1>3, <1>7, <1>8, <2>2 DEF Says
<1>11. sent # <<>> /\ Len(sent) \in done => task[w].n # 0 /\ Len(sent) < task[w].n
                                           /\ task[w].n \in DOMAIN sent
  BY <1>1 DEF OrderInv, IInv, Serves
<1>12. ~(sent # <<>> /\ Len(sent) \in done)
  BY <1>11 DEF IInv, TypeOK
<1> QED BY <1>1, <1>5, <1>6, <1>7, <1>9, <1>10, <1>12 DEF OrderInv

LEMMA OrderStep ==
  ASSUME NEW s, NEW w, Subs = {s}, Workers = {w}, InOrder, Requests = {},
         IInv, OrderInv(s, w), [Next]_vars
  PROVE  OrderInv(s, w)'
<1>1. CASE RenewAtPasses \/ UNCHANGED vars
  <2>1. UNCHANGED <<stripe, sent, done, task>> /\ row' = row
    BY <1>1 DEF RenewAtPasses, vars, stripeVars
  <2> QED BY <2>1 DEF OrderInv, Says
<1>2. CASE KeepGrace(w)
  <2>1. task[w] # Idle /\ task[w].old = row /\ PaymentTrouble(task[w].ev) /\ InGrace(row)
    BY <1>2 DEF KeepGrace, OrderInv, Idle
  <2>2. row.plan = s /\ row.status = "past_due"
    BY <2>1 DEF InGrace, OrderInv
  <2>3. ASSUME task[w].n = Len(sent) PROVE Says(s)
    <3>1. task[w].n # 0 /\ task[w].ev = sent[Len(sent)] /\ sent # <<>>
      BY <2>1, <2>3 DEF IInv, Serves, OrderInv
    <3>2. Tells(sent[Len(sent)], stripe[s])
      BY <3>1 DEF OrderInv
    <3>3. stripe[s] = "past_due"
      BY <2>1, <3>1, <3>2 DEF Tells, PaymentTrouble
    <3> QED BY <2>2, <3>3 DEF Says
  <2> QED BY <1>2, <2>1, <2>3, OrderStops DEF KeepGrace
<1>3. CASE Raise(w) \/ Crash(w)
  <2>1. task[w] # Idle /\ task' = [task EXCEPT ![w] = Idle] /\ UNCHANGED <<stripeVars, row>> /\ done' = done
    BY <1>3 DEF Raise, Crash, Idle
  <2> QED BY <2>1, OrderStops
<1>4. CASE Activate(w)
  <2>1. task[w] # Idle /\ task' = [task EXCEPT ![w] = Idle] /\ UNCHANGED <<stripeVars, row>> /\ Ack(w)
        /\ task[w].pc = "written"
    BY <1>4 DEF Activate, Idle
  <2>2. ASSUME task[w].n = Len(sent) PROVE Says(s)
    <3>1. task[w].n # 0 /\ sent # <<>>
      BY <2>1, <2>2 DEF OrderInv
    <3> QED BY <2>1, <2>2, <3>1 DEF OrderInv
  <2> QED BY <2>1, <2>2, OrderStops
<1>5. \A x \in Subs : ~Verify(w, x)
  BY DEF Verify
<1>6. ~SelectFree(w)
  BY DEF SelectFree
<1> QED BY <1>1, <1>2, <1>3, <1>4, <1>5, <1>6, OrderStripe, OrderLoad, OrderWrite DEF Next

\* When the webhooks of a subscription come in order, to one handler at a time,
\* and the last one is answered, the row of subscriptions says what Stripe says:
\* on both databases, whatever Stripe did, however many handlers died between
\* their two commits, and although webhooks before the last were never handled.
THEOREM LastWordStands ==
  ASSUME NEW s, NEW w, Subs = {s}, Workers = {w}, InOrder, Requests = {}
  PROVE  Spec => []LastWordWins
<1>1. Init => OrderInv(s, w)
  BY OrderInit
<1>2. IInv /\ OrderInv(s, w) /\ [Next]_vars => OrderInv(s, w)'
  BY OrderStep
<1>3. OrderInv(s, w) => LastWordWins
  BY DEF OrderInv, Says, LastWordWins
<1> QED BY <1>1, <1>2, <1>3, Invariance, PTL DEF Spec
=============================================================================
