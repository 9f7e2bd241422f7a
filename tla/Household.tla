----------------------------- MODULE Household -----------------------------
(***************************************************************************)
(* Households (backend/services/household_service.py): creation, invites,  *)
(* acceptance and leaving, each a check of what is stored followed by a    *)
(* write, on several server threads.  Accepting cancels the user's Stripe  *)
(* subscription and writes the plan in commits of their own before the     *)
(* member row.  A household is named by its owner; Stripe's webhooks are   *)
(* what Billing!LastWordWins says of them.                                 *)
(***************************************************************************)
EXTENDS Naturals, FiniteSets

CONSTANTS Users,
          Owners,     \* users who may create a household
          Invites,    \* bound: invites that are ever sent
          Threads,    \* concurrent requests
          Limit,      \* MAX_HOUSEHOLD_MEMBERS
          StripeInit, \* BOOLEAN: some users have a subscription of their own
          MaxFaults   \* bound: requests that die, Stripe calls that fail

ASSUME HouseholdAssumption ==
  /\ Owners \subseteq Users /\ "none" \notin Users
  /\ Limit \in Nat \ {0}
  /\ StripeInit \in BOOLEAN /\ MaxFaults \in Nat

VARIABLES home,      \* household_members: the household of each user
          created,   \* households
          invite,    \* household_invites
          cancelled, \* invites whose cancellation was confirmed to the admin
          stripe,    \* Stripe: the user's own subscription
          plan,      \* subscriptions.plan
          hooks,     \* users with a Stripe webhook still to come
          task,      \* the request each thread serves
          faults     \* faults left

vars == <<home, created, invite, cancelled, stripe, plan, hooks, task, faults>>

Unsent == [status |-> "unsent"]
InviteRows == [status : {"pending", "late", "accepted", "declined", "expired"},
               home : Owners, to : Users]

\* What a thread does next.
Idle == [pc |-> "idle"]
Tasks ==
  {Idle} \union [pc : {"create"}, user : Owners]
    \union [pc : {"invite"}, home : Owners, to : Users]
    \union [pc : {"cancel"}, i : Invites]
    \union [pc : {"stripe", "tier", "join"}, i : Invites]

TypeOK ==
  /\ home \in [Users -> Owners \union {"none"}]
  /\ created \subseteq Owners
  /\ invite \in [Invites -> InviteRows \union {Unsent}]
  /\ cancelled \subseteq Invites
  /\ stripe \in [Users -> {"none", "trialing", "active", "canceled"}]
  /\ plan \in [Users -> {"free", "paid"}]
  /\ hooks \subseteq Users
  /\ task \in [Threads -> Tasks]
  /\ faults \in 0..MaxFaults

\* Owners have the plan households need, others may have one of their own.
Init ==
  /\ home = [u \in Users |-> "none"] /\ created = {}
  /\ invite = [i \in Invites |-> Unsent] /\ cancelled = {}
  /\ stripe \in [Users -> {"none", "trialing", "active"}]
  /\ \A u \in Users : (u \in Owners \/ StripeInit) <=> stripe[u] # "none"
  /\ \A u \in Owners : stripe[u] = "active"
  /\ plan = [u \in Users |-> IF stripe[u] = "none" THEN "free" ELSE "paid"]
  /\ hooks = {}
  /\ task = [t \in Threads |-> Idle]
  /\ faults = MaxFaults

Members(h) == {u \in Users : home[u] = h}
Open(i) == invite[i].status \in {"pending", "late"}
Pending(h) == {i \in Invites : Open(i) /\ invite[i].home = h}

Begin(t, r) == task[t] = Idle /\ task' = [task EXCEPT ![t] = r]
End(t) == task' = [task EXCEPT ![t] = Idle]

\* require_feature("family.tracking") for the admin of household h.
MayManage(h) == home[h] = h /\ plan[h] = "paid"

-----------------------------------------------------------------------------
(* create_household *)

CheckCreate(t, u) ==
  /\ plan[u] = "paid" /\ home[u] = "none"
  /\ Begin(t, [pc |-> "create", user |-> u])
  /\ UNCHANGED <<home, created, invite, cancelled, stripe, plan, hooks, faults>>

\* household and admin member in one commit; the unique uid may refuse it.
Create(t) ==
  /\ task[t].pc = "create"
  /\ LET u == task[t].user IN
       IF home[u] = "none"
       THEN home' = [home EXCEPT ![u] = u] /\ created' = created \union {u}
       ELSE UNCHANGED <<home, created>>
  /\ End(t)
  /\ UNCHANGED <<invite, cancelled, stripe, plan, hooks, faults>>

-----------------------------------------------------------------------------
(* invite_member and cancel_invite, by the admin of h *)

\* Mutant: pending invites are not counted.
CheckInviteMembersOnly(t, h, u) ==
  /\ MayManage(h)
  /\ Cardinality(Members(h)) < Limit
  /\ home[u] # h
  /\ Begin(t, [pc |-> "invite", home |-> h, to |-> u])
  /\ UNCHANGED <<home, created, invite, cancelled, stripe, plan, hooks, faults>>

\* _enforce_household_capacity counts members and pending invites, expired or
\* not; the addressee must not be a member of this household.
CheckInvite(t, h, u) ==
  /\ MayManage(h)
  /\ Cardinality(Members(h)) + Cardinality(Pending(h)) < Limit
  /\ home[u] # h
  /\ Begin(t, [pc |-> "invite", home |-> h, to |-> u])
  /\ UNCHANGED <<home, created, invite, cancelled, stripe, plan, hooks, faults>>

Invite(t, i) ==
  /\ task[t].pc = "invite"
  /\ invite[i] = Unsent
  /\ invite' = [invite EXCEPT ![i] =
                  [status |-> "pending", home |-> task[t].home, to |-> task[t].to]]
  /\ End(t)
  /\ UNCHANGED <<home, created, cancelled, stripe, plan, hooks, faults>>

CheckCancel(t, i) ==
  /\ Open(i) /\ MayManage(invite[i].home)
  /\ Begin(t, [pc |-> "cancel", i |-> i])
  /\ UNCHANGED <<home, created, invite, cancelled, stripe, plan, hooks, faults>>

Cancel(t) ==
  /\ task[t].pc = "cancel"
  /\ invite' = [invite EXCEPT ![task[t].i].status = "declined"]
  /\ cancelled' = cancelled \union {task[t].i}
  /\ End(t)
  /\ UNCHANGED <<home, created, stripe, plan, hooks, faults>>

\* expires_at passes.
Late(i) ==
  /\ invite[i].status = "pending"
  /\ invite' = [invite EXCEPT ![i].status = "late"]
  /\ UNCHANGED <<home, created, cancelled, stripe, plan, hooks, task, faults>>

-----------------------------------------------------------------------------
(* accept_invite, by the addressee *)

AcceptExpired(t, i) ==
  /\ task[t] = Idle
  /\ invite[i].status = "late"
  /\ invite' = [invite EXCEPT ![i].status = "expired"]
  /\ UNCHANGED <<home, created, cancelled, stripe, plan, hooks, task, faults>>

\* The only time the invite, the membership and the capacity are looked at.
\* Stripe is called when the row has a paid plan.
CheckAccept(t, i) ==
  /\ invite[i].status = "pending"
  /\ LET u == invite[i].to IN
       /\ home[u] = "none"
       /\ Cardinality(Members(invite[i].home)) < Limit
       /\ Begin(t, [pc |-> IF plan[u] = "paid" THEN "stripe" ELSE "tier", i |-> i])
  /\ UNCHANGED <<home, created, invite, cancelled, stripe, plan, hooks, faults>>

\* cancel_user_subscription lists the customer's subscriptions with status
\* "active" and deletes the first; a Stripe error is logged and passed over.
CancelStripe(t) ==
  /\ task[t].pc = "stripe"
  /\ LET u == invite[task[t].i].to IN
       \/ /\ stripe[u] = "active"
          /\ stripe' = [stripe EXCEPT ![u] = "canceled"]
          /\ hooks' = hooks \union {u}
          /\ UNCHANGED faults
       \/ stripe[u] # "active" /\ UNCHANGED <<stripe, hooks, faults>>
       \/ faults > 0 /\ faults' = faults - 1 /\ UNCHANGED <<stripe, hooks>>
  /\ task' = [task EXCEPT ![t].pc = "tier"]
  /\ UNCHANGED <<home, created, invite, cancelled, plan>>

\* Mutant: dependents get a tier of their own.
WriteMemberTier(t) ==
  /\ task[t].pc = "tier"
  /\ plan' = [plan EXCEPT ![invite[task[t].i].to] = "household_member"]
  /\ task' = [task EXCEPT ![t].pc = "join"]
  /\ UNCHANGED <<home, created, invite, cancelled, stripe, hooks, faults>>

\* update_user_tier(free) commits on its own.
WriteTier(t) ==
  /\ task[t].pc = "tier"
  /\ plan' = [plan EXCEPT ![invite[task[t].i].to] = "free"]
  /\ task' = [task EXCEPT ![t].pc = "join"]
  /\ UNCHANGED <<home, created, invite, cancelled, stripe, hooks, faults>>

\* Member and invite in one commit; the unique uid may refuse it (a 500).
Join(t) ==
  /\ task[t].pc = "join"
  /\ LET i == task[t].i IN
       IF home[invite[i].to] = "none"
       THEN /\ home' = [home EXCEPT ![invite[i].to] = invite[i].home]
            /\ invite' = [invite EXCEPT ![i].status = "accepted"]
       ELSE UNCHANGED <<home, invite>>
  /\ End(t)
  /\ UNCHANGED <<created, cancelled, stripe, plan, hooks, faults>>

-----------------------------------------------------------------------------
(* leave_household and remove_member: one commit each *)

Depart(u) ==
  /\ home' = [home EXCEPT ![u] = "none"]
  /\ plan' = [plan EXCEPT ![u] = "free"]
  /\ UNCHANGED <<created, invite, cancelled, stripe, hooks, task, faults>>

\* Mutant: the owner check of leave_household is gone.
LeaveAny(t, u) == task[t] = Idle /\ home[u] # "none" /\ Depart(u)

Leave(t, u) == task[t] = Idle /\ home[u] \notin {"none", u} /\ Depart(u)

Remove(t, u) ==
  /\ task[t] = Idle
  /\ home[u] \notin {"none", u}
  /\ MayManage(home[u])
  /\ Depart(u)

-----------------------------------------------------------------------------
(* Stripe, its webhooks, and crashes *)

TrialConverts(u) ==
  /\ stripe[u] = "trialing"
  /\ stripe' = [stripe EXCEPT ![u] = "active"]
  /\ hooks' = hooks \union {u}
  /\ UNCHANGED <<home, created, invite, cancelled, plan, task, faults>>

Webhook(u) ==
  /\ u \in hooks
  /\ plan' = [plan EXCEPT ![u] = IF stripe[u] = "active" THEN "paid" ELSE "free"]
  /\ hooks' = hooks \ {u}
  /\ UNCHANGED <<home, created, invite, cancelled, stripe, task, faults>>

Crash(t) ==
  /\ task[t] # Idle /\ faults > 0
  /\ End(t)
  /\ faults' = faults - 1
  /\ UNCHANGED <<home, created, invite, cancelled, stripe, plan, hooks>>

Next ==
  \/ \E t \in Threads :
       \/ \E u \in Owners : CheckCreate(t, u)
       \/ \E h \in Owners, u \in Users : CheckInvite(t, h, u)
       \/ \E i \in Invites :
            Invite(t, i) \/ CheckCancel(t, i) \/ CheckAccept(t, i) \/ AcceptExpired(t, i)
       \/ Create(t) \/ Cancel(t) \/ CancelStripe(t) \/ WriteTier(t) \/ Join(t) \/ Crash(t)
       \/ \E u \in Users : Leave(t, u) \/ Remove(t, u)
  \/ \E i \in Invites : Late(i)
  \/ \E u \in Users : TrialConverts(u) \/ Webhook(u)

Spec == Init /\ [][Next]_vars

-----------------------------------------------------------------------------
(* Properties *)

\* One request at a time: a household's members and the invites it sent never
\* need more seats than it has, however invites are cancelled, expire or are
\* accepted and members come and go.
SeatsReserved ==
  \A h \in Owners : Cardinality(Members(h)) + Cardinality(Pending(h)) <= Limit

\* Whoever owns a household is its member, although creating one and accepting
\* an invite to another check the membership before they write it.
OwnersStay == \A h \in created : home[h] = h

\* No household has more members than the limit.
WithinLimit == \A h \in Owners : Cardinality(Members(h)) <= Limit

\* Whoever joined another's household, with Stripe available, pays for no
\* subscription of their own.
DependentsNotBilled ==
  \A u \in Users : home[u] \notin {"none", u} => stripe[u] \notin {"trialing", "active"}

\* After the admin was told that an invite is cancelled nobody joins by it.
CancelledAdmitsNobody ==
  [][\A i \in cancelled : invite'[i].status = "accepted" => invite[i].status = "accepted"]_vars
=============================================================================
