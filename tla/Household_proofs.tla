-------------------------- MODULE Household_proofs --------------------------
(***************************************************************************)
(* Theorems about Household for every set of users, invites and threads,   *)
(* every limit and every number of faults.                                 *)
(***************************************************************************)
EXTENDS Household, FiniteSetTheorems, TLAPS

\* What a thread's program counter says of its task.
LEMMA TaskShape ==
  ASSUME NEW r \in Tasks
  PROVE  /\ r.pc = "create" => r.user \in Owners
         /\ r.pc = "invite" => r.home \in Owners /\ r.to \in Users
         /\ r.pc \in {"cancel", "stripe", "tier", "join"} => r.i \in Invites
         /\ r.pc = "stripe" => [r EXCEPT !.pc = "tier"] \in Tasks
         /\ r.pc = "tier" => [r EXCEPT !.pc = "join"] \in Tasks
  BY DEF Tasks, Idle

\* An invite that was sent has an addressee and a household.
LEMMA InviteShape ==
  ASSUME TypeOK, NEW i \in Invites, invite[i].status # "unsent"
  PROVE  invite[i] \in InviteRows
  BY DEF TypeOK, Unsent

LEMMA InitTypes == HouseholdAssumption /\ Init => TypeOK
  <1> SUFFICES ASSUME HouseholdAssumption, Init PROVE TypeOK
    OBVIOUS
  <1>1. invite \in [Invites -> InviteRows \union {Unsent}]
    BY DEF Init
  <1>2. task \in [Threads -> Tasks]
    BY DEF Init, Tasks
  <1>3. stripe \in [Users -> {"none", "trialing", "active", "canceled"}]
    BY DEF Init
  <1>4. plan \in [Users -> {"free", "paid"}]
    BY DEF Init
  <1>5. home \in [Users -> Owners \union {"none"}] /\ created \subseteq Owners
    BY DEF Init
  <1>6. faults \in 0..MaxFaults
    BY DEF Init, HouseholdAssumption
  <1> QED BY <1>1, <1>2, <1>3, <1>4, <1>5, <1>6 DEF Init, TypeOK

-----------------------------------------------------------------------------
(* Every action keeps the types and an owner at home.                      *)

\* Requests that look at an invite a second time look at one that was sent.
SentForGood ==
  \A t \in Threads :
    task[t].pc \in {"cancel", "stripe", "tier", "join"} => invite[task[t].i] \in InviteRows

IInv == TypeOK /\ OwnersStay /\ SentForGood

\* What starting and ending a task does to the threads.
LEMMA TaskSteps ==
  ASSUME TypeOK, NEW t \in Threads, NEW r \in Tasks
  PROVE  /\ Begin(t, r) => task' \in [Threads -> Tasks]
         /\ End(t) => task' \in [Threads -> Tasks]
  BY DEF TypeOK, Begin, End, Tasks

\* A task that names no invite, or one that was sent, keeps SentForGood.
LEMMA SentSteps ==
  ASSUME IInv, NEW t \in Threads, NEW r \in Tasks, task' = [task EXCEPT ![t] = r],
         r.pc \in {"cancel", "stripe", "tier", "join"} => invite[r.i] \in InviteRows,
         \A i \in Invites : invite[i] \in InviteRows => invite'[i] \in InviteRows
  PROVE  SentForGood'
  <1> SUFFICES ASSUME NEW q \in Threads,
                      task'[q].pc \in {"cancel", "stripe", "tier", "join"}
               PROVE  invite'[task'[q].i] \in InviteRows
    BY DEF SentForGood
  <1>1. task'[q] \in Tasks /\ task'[q].i \in Invites
    <2>1. task'[q] \in Tasks
      BY DEF IInv, TypeOK
    <2> QED BY <2>1, TaskShape
  <1>2. CASE q = t
    BY <1>1, <1>2 DEF IInv, TypeOK
  <1>3. CASE q # t
    BY <1>1, <1>3 DEF IInv, TypeOK, SentForGood
  <1> QED BY <1>2, <1>3

\* A thread that ends its task keeps SentForGood if sent invites stay sent.
LEMMA SentEnds ==
  ASSUME IInv, NEW t \in Threads, End(t),
         \A i \in Invites : invite[i] \in InviteRows => invite'[i] \in InviteRows
  PROVE  SentForGood'
  <1>1. Idle \in Tasks /\ Idle.pc \notin {"cancel", "stripe", "tier", "join"}
    BY DEF Tasks, Idle
  <1>2. task' = [task EXCEPT ![t] = Idle]
    BY DEF End
  <1> QED BY <1>1, <1>2, SentSteps

LEMMA CheckCreateKeeps ==
  ASSUME IInv, NEW t \in Threads, NEW u \in Owners, CheckCreate(t, u)
  PROVE  IInv'
  <1> DEFINE r == [pc |-> "create", user |-> u]
  <1>1. r \in Tasks /\ r.pc \notin {"cancel", "stripe", "tier", "join"}
    BY DEF Tasks
  <1>2. task' = [task EXCEPT ![t] = r] /\ task' \in [Threads -> Tasks]
    BY <1>1, TaskSteps DEF CheckCreate, IInv, Begin
  <1>3. TypeOK' /\ OwnersStay'
    BY <1>2 DEF CheckCreate, IInv, TypeOK, OwnersStay
  <1>4. SentForGood'
    <2> HIDE DEF r
    <2> QED BY <1>1, <1>2, SentSteps DEF CheckCreate
  <1> QED BY <1>3, <1>4 DEF IInv

\* Only a user without a household becomes the owner of one.
LEMMA CreateKeeps ==
  ASSUME HouseholdAssumption, IInv, NEW t \in Threads, Create(t)
  PROVE  IInv'
  <1> DEFINE u == task[t].user
  <1>1. task[t] \in Tasks /\ Idle \in Tasks
    BY DEF IInv, TypeOK, Tasks
  <1>2. u \in Owners /\ u \in Users
    BY <1>1, TaskShape DEF Create, HouseholdAssumption
  <1>3. task' \in [Threads -> Tasks] /\ SentForGood'
    BY <1>1, TaskSteps, SentEnds DEF Create, IInv
  <1>4. CASE home[u] = "none"
    <2>1. home' = [home EXCEPT ![u] = u] /\ created' = created \union {u}
      BY <1>4 DEF Create
    <2>2. OwnersStay'
      BY <1>2, <2>1, <1>4 DEF IInv, TypeOK, OwnersStay, HouseholdAssumption
    <2> QED BY <1>2, <1>3, <2>1, <2>2 DEF Create, IInv, TypeOK
  <1>5. CASE home[u] # "none"
    BY <1>3, <1>5 DEF Create, IInv, TypeOK, OwnersStay
  <1> QED BY <1>4, <1>5

LEMMA CheckInviteKeeps ==
  ASSUME IInv, NEW t \in Threads, NEW h \in Owners, NEW u \in Users, CheckInvite(t, h, u)
  PROVE  IInv'
  <1> DEFINE r == [pc |-> "invite", home |-> h, to |-> u]
  <1>1. r \in Tasks /\ r.pc \notin {"cancel", "stripe", "tier", "join"}
    BY DEF Tasks
  <1>2. task' = [task EXCEPT ![t] = r] /\ task' \in [Threads -> Tasks]
    BY <1>1, TaskSteps DEF CheckInvite, IInv, Begin
  <1>3. TypeOK' /\ OwnersStay'
    BY <1>2 DEF CheckInvite, IInv, TypeOK, OwnersStay
  <1>4. SentForGood'
    <2> HIDE DEF r
    <2> QED BY <1>1, <1>2, SentSteps DEF CheckInvite
  <1> QED BY <1>3, <1>4 DEF IInv

LEMMA InviteKeeps ==
  ASSUME IInv, NEW t \in Threads, NEW i \in Invites, Invite(t, i)
  PROVE  IInv'
  <1> DEFINE row == [status |-> "pending", home |-> task[t].home, to |-> task[t].to]
  <1>1. task[t] \in Tasks /\ Idle \in Tasks
    BY DEF IInv, TypeOK, Tasks
  <1>2. task[t].home \in Owners /\ task[t].to \in Users
    BY <1>1, TaskShape DEF Invite
  <1>3. row \in InviteRows /\ invite' = [invite EXCEPT ![i] = row]
    BY <1>2 DEF InviteRows, Invite
  <1>4. /\ invite' \in [Invites -> InviteRows \union {Unsent}]
        /\ \A j \in Invites : invite[j] \in InviteRows => invite'[j] \in InviteRows
    <2> HIDE DEF row
    <2> QED BY <1>3 DEF IInv, TypeOK
  <1>5. task' \in [Threads -> Tasks] /\ SentForGood'
    BY <1>1, <1>4, TaskSteps, SentEnds DEF Invite, IInv
  <1> QED BY <1>4, <1>5 DEF Invite, IInv, TypeOK, OwnersStay

\* Only an invite that was sent is open.
LEMMA CheckCancelKeeps ==
  ASSUME IInv, NEW t \in Threads, NEW i \in Invites, CheckCancel(t, i)
  PROVE  IInv'
  <1> DEFINE r == [pc |-> "cancel", i |-> i]
  <1>1. r \in Tasks /\ r.i = i
    BY DEF Tasks
  <1>2. invite[i] \in InviteRows
    BY InviteShape DEF CheckCancel, Open, IInv
  <1>3. task' = [task EXCEPT ![t] = r] /\ task' \in [Threads -> Tasks]
    BY <1>1, TaskSteps DEF CheckCancel, IInv, Begin
  <1>4. TypeOK' /\ OwnersStay'
    BY <1>3 DEF CheckCancel, IInv, TypeOK, OwnersStay
  <1>5. SentForGood'
    <2> HIDE DEF r
    <2> QED BY <1>1, <1>2, <1>3, SentSteps DEF CheckCancel
  <1> QED BY <1>4, <1>5 DEF IInv

\* A new status for an invite that was sent.
LEMMA StatusSteps ==
  ASSUME IInv, NEW i \in Invites, invite[i] \in InviteRows,
         NEW s \in {"pending", "late", "accepted", "declined", "expired"},
         invite' = [invite EXCEPT ![i].status = s]
  PROVE  /\ invite' \in [Invites -> InviteRows \union {Unsent}]
         /\ \A j \in Invites : invite[j] \in InviteRows => invite'[j] \in InviteRows
  <1>1. [invite[i] EXCEPT !.status = s] \in InviteRows
    BY DEF InviteRows
  <1>2. invite' = [invite EXCEPT ![i] = [invite[i] EXCEPT !.status = s]]
    OBVIOUS
  <1> QED BY <1>1, <1>2 DEF IInv, TypeOK

LEMMA CancelKeeps ==
  ASSUME IInv, NEW t \in Threads, Cancel(t)
  PROVE  IInv'
  <1> DEFINE i == task[t].i
  <1>1. task[t] \in Tasks /\ Idle \in Tasks
    BY DEF IInv, TypeOK, Tasks
  <1>2. i \in Invites /\ invite[i] \in InviteRows
    BY <1>1, TaskShape DEF Cancel, IInv, SentForGood
  <1>3. /\ invite' \in [Invites -> InviteRows \union {Unsent}]
        /\ \A j \in Invites : invite[j] \in InviteRows => invite'[j] \in InviteRows
    BY <1>2, StatusSteps DEF Cancel
  <1>4. task' \in [Threads -> Tasks] /\ SentForGood'
    BY <1>1, <1>3, TaskSteps, SentEnds DEF Cancel, IInv
  <1>5. cancelled' \subseteq Invites
    BY <1>2 DEF Cancel, IInv, TypeOK
  <1>6. TypeOK' /\ OwnersStay'
    BY <1>3, <1>4, <1>5 DEF Cancel, IInv, TypeOK, OwnersStay
  <1> QED BY <1>4, <1>6 DEF IInv

\* expires_at passes, and the addressee is told so.
LEMMA ExpiryKeeps ==
  ASSUME IInv, NEW i \in Invites,
         NEW s \in {"late", "expired"},
         invite[i].status \in {"pending", "late"},
         invite' = [invite EXCEPT ![i].status = s],
         UNCHANGED <<home, created, cancelled, stripe, plan, hooks, task, faults>>
  PROVE  IInv'
  <1>1. invite[i] \in InviteRows
    BY InviteShape DEF IInv
  <1>2. /\ invite' \in [Invites -> InviteRows \union {Unsent}]
        /\ \A j \in Invites : invite[j] \in InviteRows => invite'[j] \in InviteRows
    BY <1>1, StatusSteps
  <1>3. SentForGood'
    <2> SUFFICES ASSUME NEW q \in Threads,
                        task[q].pc \in {"cancel", "stripe", "tier", "join"}
                 PROVE  invite'[task[q].i] \in InviteRows
      BY DEF SentForGood
    <2>1. task[q].i \in Invites
      BY TaskShape DEF IInv, TypeOK
    <2> QED BY <2>1, <1>2 DEF IInv, SentForGood
  <1> QED BY <1>2, <1>3 DEF IInv, TypeOK, OwnersStay

LEMMA CheckAcceptKeeps ==
  ASSUME IInv, NEW t \in Threads, NEW i \in Invites, CheckAccept(t, i)
  PROVE  IInv'
  <1> DEFINE r == [pc |-> IF plan[invite[i].to] = "paid" THEN "stripe" ELSE "tier", i |-> i]
  <1>1. r \in Tasks /\ r.i = i
    BY DEF Tasks
  <1>2. invite[i] \in InviteRows
    BY InviteShape DEF CheckAccept, IInv
  <1>3. task' = [task EXCEPT ![t] = r] /\ task' \in [Threads -> Tasks]
    BY <1>1, TaskSteps DEF CheckAccept, IInv, Begin
  <1>4. TypeOK' /\ OwnersStay'
    BY <1>3 DEF CheckAccept, IInv, TypeOK, OwnersStay
  <1>5. SentForGood'
    <2> HIDE DEF r
    <2> QED BY <1>1, <1>2, <1>3, SentSteps DEF CheckAccept
  <1> QED BY <1>4, <1>5 DEF IInv

\* The acceptance in hand moves on to its next commit.
LEMMA AcceptSteps ==
  ASSUME IInv, NEW t \in Threads,
         \/ task[t].pc = "stripe" /\ task' = [task EXCEPT ![t].pc = "tier"]
         \/ task[t].pc = "tier" /\ task' = [task EXCEPT ![t].pc = "join"],
         invite' = invite
  PROVE  /\ task[t].i \in Invites /\ invite[task[t].i] \in InviteRows
         /\ task' \in [Threads -> Tasks] /\ SentForGood'
  <1>1. task[t] \in Tasks
    BY DEF IInv, TypeOK
  <1>2. task[t].i \in Invites /\ invite[task[t].i] \in InviteRows
    BY <1>1, TaskShape DEF IInv, SentForGood
  <1>3. PICK r \in Tasks : task' = [task EXCEPT ![t] = r] /\ r.i = task[t].i
    <2>1. CASE task[t].pc = "stripe" /\ task' = [task EXCEPT ![t].pc = "tier"]
      <3>1. [task[t] EXCEPT !.pc = "tier"] \in Tasks
        BY <1>1, <2>1, TaskShape
      <3>2. [task[t] EXCEPT !.pc = "tier"].i = task[t].i
        BY <1>1, <2>1 DEF Tasks, Idle
      <3> QED BY <2>1, <3>1, <3>2
    <2>2. CASE task[t].pc = "tier" /\ task' = [task EXCEPT ![t].pc = "join"]
      <3>1. [task[t] EXCEPT !.pc = "join"] \in Tasks
        BY <1>1, <2>2, TaskShape
      <3>2. [task[t] EXCEPT !.pc = "join"].i = task[t].i
        BY <1>1, <2>2 DEF Tasks, Idle
      <3> QED BY <2>2, <3>1, <3>2
    <2> QED BY <2>1, <2>2
  <1>4. task' \in [Threads -> Tasks]
    BY <1>3 DEF IInv, TypeOK
  <1>5. SentForGood'
    BY <1>2, <1>3, SentSteps
  <1> QED BY <1>2, <1>4, <1>5

LEMMA CancelStripeKeeps ==
  ASSUME HouseholdAssumption, IInv, NEW t \in Threads, CancelStripe(t)
  PROVE  IInv'
  <1> DEFINE u == invite[task[t].i].to
  <1>1. /\ task[t].i \in Invites /\ invite[task[t].i] \in InviteRows
        /\ task' \in [Threads -> Tasks] /\ SentForGood'
    BY AcceptSteps DEF CancelStripe
  <1>2. u \in Users
    BY <1>1 DEF InviteRows
  <1>3. stripe' \in [Users -> {"none", "trialing", "active", "canceled"}] /\ hooks' \subseteq Users
    BY <1>2 DEF CancelStripe, IInv, TypeOK
  <1>4. faults' \in 0..MaxFaults
    BY DEF CancelStripe, IInv, TypeOK, HouseholdAssumption
  <1> QED BY <1>1, <1>3, <1>4 DEF CancelStripe, IInv, TypeOK, OwnersStay

LEMMA WriteTierKeeps ==
  ASSUME IInv, NEW t \in Threads, WriteTier(t)
  PROVE  IInv'
  <1>1. task' \in [Threads -> Tasks] /\ SentForGood'
    BY AcceptSteps DEF WriteTier
  <1>2. plan' \in [Users -> {"free", "paid"}]
    BY DEF WriteTier, IInv, TypeOK
  <1> QED BY <1>1, <1>2 DEF WriteTier, IInv, TypeOK, OwnersStay

\* Only a user without a household becomes a member, so no owner moves.
LEMMA JoinKeeps ==
  ASSUME HouseholdAssumption, IInv, NEW t \in Threads, Join(t)
  PROVE  IInv'
  <1> DEFINE i == task[t].i
             u == invite[i].to
  <1>1. task[t] \in Tasks /\ Idle \in Tasks
    BY DEF IInv, TypeOK, Tasks
  <1>2. i \in Invites /\ invite[i] \in InviteRows
    BY <1>1, TaskShape DEF Join, IInv, SentForGood
  <1>3. u \in Users /\ invite[i].home \in Owners
    BY <1>2 DEF InviteRows
  <1>4. /\ invite' \in [Invites -> InviteRows \union {Unsent}]
        /\ \A j \in Invites : invite[j] \in InviteRows => invite'[j] \in InviteRows
    <2>1. CASE home[u] = "none"
      BY <2>1, <1>2, StatusSteps DEF Join
    <2>2. CASE home[u] # "none"
      BY <2>2 DEF Join, IInv, TypeOK
    <2> QED BY <2>1, <2>2
  <1>5. task' \in [Threads -> Tasks] /\ SentForGood'
    BY <1>1, <1>4, TaskSteps, SentEnds DEF Join, IInv
  <1>6. home' \in [Users -> Owners \union {"none"}] /\ OwnersStay'
    <2>1. CASE home[u] = "none"
      <3>1. home' = [home EXCEPT ![u] = invite[i].home] /\ created' = created
        BY <2>1 DEF Join
      <3> QED BY <2>1, <3>1, <1>3 DEF IInv, TypeOK, OwnersStay, HouseholdAssumption
    <2>2. CASE home[u] # "none"
      BY <2>2 DEF Join, IInv, TypeOK, OwnersStay
    <2> QED BY <2>1, <2>2
  <1> QED BY <1>4, <1>5, <1>6 DEF Join, IInv, TypeOK

\* Nobody leaves, or is removed from, a household of their own.
LEMMA DepartKeeps ==
  ASSUME HouseholdAssumption, IInv, NEW u \in Users, home[u] \notin {"none", u}, Depart(u)
  PROVE  IInv'
  <1>1. SentForGood'
    BY DEF Depart, IInv, SentForGood
  <1>2. OwnersStay'
    BY DEF Depart, IInv, TypeOK, OwnersStay, HouseholdAssumption
  <1>3. TypeOK'
    BY DEF Depart, IInv, TypeOK
  <1> QED BY <1>1, <1>2, <1>3 DEF IInv

LEMMA StripeKeeps ==
  ASSUME IInv, NEW u \in Users, TrialConverts(u) \/ Webhook(u)
  PROVE  IInv'
  <1>1. SentForGood'
    BY DEF TrialConverts, Webhook, IInv, SentForGood
  <1>2. OwnersStay'
    BY DEF TrialConverts, Webhook, IInv, OwnersStay
  <1>3. TypeOK'
    <2>1. CASE TrialConverts(u)
      BY <2>1 DEF TrialConverts, IInv, TypeOK
    <2>2. CASE Webhook(u)
      BY <2>2 DEF Webhook, IInv, TypeOK
    <2> QED BY <2>1, <2>2
  <1> QED BY <1>1, <1>2, <1>3 DEF IInv

LEMMA CrashKeeps ==
  ASSUME HouseholdAssumption, IInv, NEW t \in Threads, Crash(t)
  PROVE  IInv'
  <1>1. Idle \in Tasks
    BY DEF Tasks
  <1>2. task' \in [Threads -> Tasks] /\ SentForGood'
    BY <1>1, TaskSteps, SentEnds DEF Crash, IInv
  <1>3. faults' \in 0..MaxFaults
    BY DEF Crash, IInv, TypeOK, HouseholdAssumption
  <1> QED BY <1>2, <1>3 DEF Crash, IInv, TypeOK, OwnersStay

-----------------------------------------------------------------------------
(* The invariant, and what it gives *)

LEMMA Invariance == Spec => []IInv
  <1>1. Init => IInv
    <2> SUFFICES ASSUME Init PROVE IInv
      OBVIOUS
    <2>1. TypeOK
      BY InitTypes, HouseholdAssumption
    <2>2. OwnersStay
      BY DEF Init, OwnersStay
    <2>3. SentForGood
      BY DEF Init, SentForGood, Idle
    <2> QED BY <2>1, <2>2, <2>3 DEF IInv
  <1>2. IInv /\ [Next]_vars => IInv'
    <2> SUFFICES ASSUME IInv, [Next]_vars PROVE IInv'
      OBVIOUS
    <2> USE HouseholdAssumption
    <2>1. ASSUME NEW t \in Threads, NEW u \in Owners, CheckCreate(t, u) PROVE IInv'
      BY <2>1, CheckCreateKeeps
    <2>2. ASSUME NEW t \in Threads, NEW h \in Owners, NEW u \in Users, CheckInvite(t, h, u)
          PROVE IInv'
      BY <2>2, CheckInviteKeeps
    <2>3. ASSUME NEW t \in Threads, NEW i \in Invites,
                 Invite(t, i) \/ CheckCancel(t, i) \/ CheckAccept(t, i) \/ AcceptExpired(t, i)
          PROVE IInv'
      BY <2>3, InviteKeeps, CheckCancelKeeps, CheckAcceptKeeps, ExpiryKeeps DEF AcceptExpired
    <2>4. ASSUME NEW t \in Threads,
                 Create(t) \/ Cancel(t) \/ CancelStripe(t) \/ WriteTier(t) \/ Join(t) \/ Crash(t)
          PROVE IInv'
      BY <2>4, CreateKeeps, CancelKeeps, CancelStripeKeeps, WriteTierKeeps, JoinKeeps, CrashKeeps
    <2>5. ASSUME NEW t \in Threads, NEW u \in Users, Leave(t, u) \/ Remove(t, u) PROVE IInv'
      BY <2>5, DepartKeeps DEF Leave, Remove
    <2>6. ASSUME NEW i \in Invites, Late(i) PROVE IInv'
      BY <2>6, ExpiryKeeps DEF Late
    <2>7. ASSUME NEW u \in Users, TrialConverts(u) \/ Webhook(u) PROVE IInv'
      BY <2>7, StripeKeeps
    <2>8. CASE UNCHANGED vars
      BY <2>8 DEF vars, IInv, TypeOK, OwnersStay, SentForGood
    <2> QED BY <2>1, <2>2, <2>3, <2>4, <2>5, <2>6, <2>7, <2>8 DEF Next
  <1> QED BY <1>1, <1>2, PTL DEF Spec

\* Rows, invites and the requests in progress always have the shapes the
\* handlers of household_service.py expect.
THEOREM TypeCorrect == Spec => []TypeOK
  <1>1. IInv => TypeOK
    BY DEF IInv
  <1> QED BY <1>1, Invariance, PTL

\* create_household, accept_invite, leave_household and remove_member, in any
\* interleaving and whatever dies between their commits, never leave a household
\* without its owner.
THEOREM OwnersNeverLeave == Spec => []OwnersStay
  <1>1. IInv => OwnersStay
    BY DEF IInv
  <1> QED BY <1>1, Invariance, PTL

-----------------------------------------------------------------------------
(* One request at a time: the seats.                                       *)

OneThread == \A s, t \in Threads : s = t
FinitelyMany == IsFiniteSet(Users) /\ IsFiniteSet(Invites)

Seats(h) == Cardinality(Members(h)) + Cardinality(Pending(h))

\* Only households that were created have members and invites, the invite that
\* is about to be sent has a seat kept for it, and the one that is being accepted
\* keeps its own until the member has it.
Rooted ==
  /\ \A u \in Users : home[u] # "none" => home[u] \in created
  /\ \A i \in Invites : invite[i] \in InviteRows => invite[i].home \in created

KeptSeat ==
  \A t \in Threads : task[t].pc = "invite" =>
    task[t].home \in created /\ Seats(task[t].home) < Limit

StillOpen ==
  \A t \in Threads : task[t].pc \in {"stripe", "tier", "join"} => Open(task[t].i)

SeatInv == SeatsReserved /\ Rooted /\ KeptSeat /\ StillOpen

LEMMA SeatsAreNumbers ==
  ASSUME FinitelyMany, NEW h
  PROVE  /\ IsFiniteSet(Members(h)) /\ IsFiniteSet(Pending(h))
         /\ Cardinality(Members(h)) \in Nat /\ Cardinality(Pending(h)) \in Nat
         /\ Seats(h) \in Nat
  <1>1. Members(h) \subseteq Users /\ Pending(h) \subseteq Invites
    BY DEF Members, Pending
  <1>2. IsFiniteSet(Members(h)) /\ IsFiniteSet(Pending(h))
    BY <1>1, FS_Subset DEF FinitelyMany
  <1> QED BY <1>2, FS_CardinalityType DEF Seats

\* A smaller set needs fewer seats, one more element one seat more.
LEMMA Fewer ==
  ASSUME NEW S, NEW T, IsFiniteSet(S), T \subseteq S
  PROVE  IsFiniteSet(T) /\ Cardinality(T) \in Nat /\ Cardinality(S) \in Nat
         /\ Cardinality(T) <= Cardinality(S)
  BY FS_Subset, FS_CardinalityType

LEMMA OneMore ==
  ASSUME NEW S, NEW T, NEW x, IsFiniteSet(S), T \subseteq S \union {x}
  PROVE  Cardinality(T) \in Nat /\ Cardinality(S) \in Nat
         /\ Cardinality(T) <= Cardinality(S) + 1
  <1>0. Cardinality(S) \in Nat
    BY FS_CardinalityType
  <1>1. IsFiniteSet(S \union {x}) /\ Cardinality(S \union {x}) <= Cardinality(S) + 1
    <2>1. CASE x \in S
      <3>1. S \union {x} = S
        BY <2>1
      <3> QED BY <1>0, <3>1
    <2>2. CASE x \notin S
      <3>1. IsFiniteSet(S \union {x}) /\ Cardinality(S \union {x}) = Cardinality(S) + 1
        BY <2>2, FS_AddElement
      <3> QED BY <1>0, <3>1
    <2> QED BY <2>1, <2>2
  <1>2. Cardinality(T) <= Cardinality(S \union {x}) /\ Cardinality(T) \in Nat
        /\ Cardinality(S \union {x}) \in Nat
    BY <1>1, Fewer
  <1> QED BY <1>0, <1>1, <1>2

LEMMA OneFewer ==
  ASSUME NEW S, NEW T, NEW x, IsFiniteSet(S), x \in S, T \subseteq S \ {x}
  PROVE  Cardinality(T) \in Nat /\ Cardinality(S) \in Nat
         /\ Cardinality(T) + 1 <= Cardinality(S)
  <1>1. IsFiniteSet(S \ {x}) /\ Cardinality(S \ {x}) = Cardinality(S) - 1
    BY FS_RemoveElement
  <1>2. Cardinality(T) <= Cardinality(S \ {x}) /\ Cardinality(T) \in Nat
    BY <1>1, Fewer
  <1> QED BY <1>1, <1>2, FS_CardinalityType

\* No household gets more members or open invites.
LEMMA SeatsShrink ==
  ASSUME FinitelyMany, NEW h,
         Members(h)' \subseteq Members(h), Pending(h)' \subseteq Pending(h)
  PROVE  Seats(h)' <= Seats(h) /\ Seats(h)' \in Nat /\ Seats(h) \in Nat
  <1>1. IsFiniteSet(Members(h)) /\ IsFiniteSet(Pending(h))
    BY SeatsAreNumbers
  <1>2. /\ Cardinality(Members(h)') <= Cardinality(Members(h))
        /\ Cardinality(Members(h)') \in Nat /\ Cardinality(Members(h)) \in Nat
    BY <1>1, Fewer
  <1>3. /\ Cardinality(Pending(h)') <= Cardinality(Pending(h))
        /\ Cardinality(Pending(h)') \in Nat /\ Cardinality(Pending(h)) \in Nat
    BY <1>1, Fewer
  <1> QED BY <1>2, <1>3 DEF Seats

LEMMA FewerSeats ==
  ASSUME HouseholdAssumption, FinitelyMany, SeatsReserved,
         \A h \in Owners : Members(h)' \subseteq Members(h) /\ Pending(h)' \subseteq Pending(h)
  PROVE  SeatsReserved'
  <1> SUFFICES ASSUME NEW h \in Owners PROVE Seats(h)' <= Limit
    BY DEF SeatsReserved, Seats
  <1>1. Seats(h)' <= Seats(h) /\ Seats(h)' \in Nat /\ Seats(h) \in Nat
    BY SeatsShrink
  <1>2. Seats(h) <= Limit
    BY DEF SeatsReserved, Seats
  <1> QED BY <1>1, <1>2 DEF HouseholdAssumption

\* The one request has ended, so none keeps a seat.
LEMMA EndsRequest ==
  ASSUME OneThread, IInv, NEW t \in Threads, End(t)
  PROVE  KeptSeat' /\ StillOpen'
  <1>1. \A q \in Threads : task'[q] = Idle
    BY DEF OneThread, End, IInv, TypeOK
  <1> QED BY <1>1 DEF KeptSeat, StillOpen, Idle

\* A request begins or goes on without writing a household or an invite.
LEMMA RequestSteps ==
  ASSUME OneThread, IInv, SeatInv, NEW t \in Threads, NEW r,
         task' = [task EXCEPT ![t] = r], UNCHANGED <<home, created, invite>>,
         r.pc = "invite" => r.home \in created /\ Seats(r.home) < Limit,
         r.pc \in {"stripe", "tier", "join"} => Open(r.i)
  PROVE  SeatInv'
  <1>1. \A q \in Threads : task'[q] = r
    BY DEF OneThread, IInv, TypeOK
  <1>2. /\ \A h : Members(h)' = Members(h)
        /\ \A h : Pending(h)' = Pending(h)
        /\ \A h : Seats(h)' = Seats(h)
        /\ \A i : Open(i)' = Open(i)
    BY DEF Members, Pending, Seats, Open
  <1>3. SeatsReserved' /\ Rooted'
    BY DEF SeatInv, SeatsReserved, Members, Pending, Open, Rooted
  <1>4. KeptSeat'
    <2>1. r.pc = "invite" =>
            r.home \in created' /\ Cardinality({u \in Users : home'[u] = r.home})
              + Cardinality({i \in Invites : /\ invite'[i].status \in {"pending", "late"}
                                             /\ invite'[i].home = r.home}) < Limit
      BY DEF Seats, Members, Pending, Open
    <2> QED BY <1>1, <2>1 DEF KeptSeat, Seats, Members, Pending, Open
  <1>5. StillOpen'
    BY <1>1, <1>2 DEF StillOpen, Open
  <1> QED BY <1>3, <1>4, <1>5 DEF SeatInv

\* Nothing of a household, an invite or a request changes.
LEMMA ElsewhereSteps ==
  ASSUME SeatInv, UNCHANGED <<home, created, invite, task>>
  PROVE  SeatInv'
  BY DEF SeatInv, SeatsReserved, Rooted, KeptSeat, StillOpen, Seats, Members, Pending, Open

\* A household that is created has no member and no invite yet: its owner was in
\* no household, and an owner never leaves.
LEMMA CreateSeats ==
  ASSUME HouseholdAssumption, OneThread, FinitelyMany, IInv, SeatInv,
         NEW t \in Threads, Create(t)
  PROVE  SeatInv'
  <1> DEFINE u == task[t].user
  <1>1. u \in Owners /\ u \in Users /\ u # "none"
    BY TaskShape DEF Create, IInv, TypeOK, HouseholdAssumption
  <1>2. KeptSeat' /\ StillOpen'
    BY EndsRequest DEF Create
  <1>3. CASE home[u] = "none"
    <2>1. home' = [home EXCEPT ![u] = u] /\ created' = created \union {u} /\ invite' = invite
      BY <1>3 DEF Create
    <2>2. u \notin created
      BY <1>1, <1>3 DEF IInv, OwnersStay
    <2>3. Rooted'
      BY <1>1, <2>1 DEF SeatInv, Rooted, IInv, TypeOK
    <2>4. ASSUME NEW h \in Owners PROVE Seats(h)' <= Limit
      <3>1. Pending(h)' = Pending(h)
        BY <2>1 DEF Pending, Open
      <3>2. CASE h = u
        <4>1. Pending(h) = {}
          <5>1. \A i \in Invites : Open(i) => invite[i] \in InviteRows
            BY InviteShape DEF Open, IInv
          <5> QED BY <2>2, <3>2, <5>1 DEF Pending, SeatInv, Rooted
        <4>2. Members(h)' = {u}
          BY <1>1, <2>1, <2>2, <3>2 DEF Members, SeatInv, Rooted, IInv, TypeOK
        <4>3. Cardinality(Members(h)') = 1 /\ Cardinality(Pending(h)') = 0
          BY <3>1, <4>1, <4>2, FS_EmptySet, FS_Singleton
        <4> QED BY <4>3 DEF Seats, HouseholdAssumption
      <3>3. CASE h # u
        <4>1. Members(h)' \subseteq Members(h)
          BY <1>1, <2>1, <3>3 DEF Members, IInv, TypeOK
        <4>2. Seats(h)' <= Seats(h) /\ Seats(h)' \in Nat /\ Seats(h) \in Nat
          BY <3>1, <4>1, SeatsShrink
        <4> QED BY <4>2 DEF SeatInv, SeatsReserved, Seats, HouseholdAssumption
      <3> QED BY <3>2, <3>3
    <2> QED BY <1>2, <2>3, <2>4 DEF SeatInv, SeatsReserved, Seats
  <1>4. CASE home[u] # "none"
    <2>1. UNCHANGED <<home, created, invite>> /\ task' = [task EXCEPT ![t] = Idle]
      BY <1>4 DEF Create, End
    <2> QED BY <2>1, RequestSteps DEF Idle
  <1> QED BY <1>3, <1>4

\* The invite takes the seat its check found free.
LEMMA InviteSeats ==
  ASSUME HouseholdAssumption, OneThread, FinitelyMany, IInv, SeatInv,
         NEW t \in Threads, NEW i \in Invites, Invite(t, i)
  PROVE  SeatInv'
  <1> DEFINE g == task[t].home
  <1>1. g \in Owners /\ g \in created /\ Seats(g) < Limit
    BY TaskShape DEF Invite, IInv, TypeOK, SeatInv, KeptSeat
  <1>2. KeptSeat' /\ StillOpen'
    BY EndsRequest DEF Invite
  <1>3. /\ invite'[i].home = g
        /\ \A j \in Invites : j # i => invite'[j] = invite[j]
    BY DEF Invite, IInv, TypeOK
  <1>4. Rooted'
    BY <1>1, <1>3 DEF Invite, SeatInv, Rooted
  <1>5. ASSUME NEW h \in Owners PROVE Seats(h)' <= Limit
    <2>1. Members(h)' = Members(h)
      BY DEF Invite, Members
    <2>2. CASE h = g
      <3>1. Pending(h)' \subseteq Pending(h) \union {i}
        BY <1>3 DEF Pending, Open
      <3>2. IsFiniteSet(Pending(h)) /\ Cardinality(Members(h)) \in Nat
        BY SeatsAreNumbers
      <3>3. /\ Cardinality(Pending(h)') <= Cardinality(Pending(h)) + 1
            /\ Cardinality(Pending(h)') \in Nat /\ Cardinality(Pending(h)) \in Nat
        BY <3>1, <3>2, OneMore
      <3> QED BY <1>1, <2>1, <2>2, <3>2, <3>3 DEF Seats, HouseholdAssumption
    <2>3. CASE h # g
      <3>1. Pending(h)' \subseteq Pending(h)
        BY <1>3, <2>3 DEF Pending, Open
      <3>2. Seats(h)' <= Seats(h) /\ Seats(h)' \in Nat /\ Seats(h) \in Nat
        BY <2>1, <3>1, SeatsShrink
      <3> QED BY <3>2 DEF SeatInv, SeatsReserved, Seats, HouseholdAssumption
    <2> QED BY <2>2, <2>3
  <1> QED BY <1>2, <1>4, <1>5 DEF SeatInv, SeatsReserved, Seats

\* An invite is written to be other than what it was, for good.
LEMMA StatusSeats ==
  ASSUME HouseholdAssumption, FinitelyMany, IInv, SeatInv, NEW i \in Invites,
         NEW s \in {"late", "expired", "declined"},
         s = "late" => Open(i),
         invite[i] \in InviteRows, invite' = [invite EXCEPT ![i].status = s],
         UNCHANGED <<home, created>>
  PROVE  SeatsReserved' /\ Rooted'
  <1>1. /\ invite'[i].home = invite[i].home /\ invite'[i].status = s
        /\ \A j \in Invites : j # i => invite'[j] = invite[j]
    BY DEF IInv, TypeOK, InviteRows
  <1>2. \A h \in Owners : Members(h)' \subseteq Members(h) /\ Pending(h)' \subseteq Pending(h)
    BY <1>1 DEF Members, Pending, Open
  <1>3. SeatsReserved'
    BY <1>2, FewerSeats DEF SeatInv
  <1>4. Rooted'
    BY <1>1 DEF SeatInv, Rooted
  <1> QED BY <1>3, <1>4

LEMMA CancelSeats ==
  ASSUME HouseholdAssumption, OneThread, FinitelyMany, IInv, SeatInv,
         NEW t \in Threads, Cancel(t)
  PROVE  SeatInv'
  <1>1. task[t].i \in Invites /\ invite[task[t].i] \in InviteRows
    BY TaskShape DEF Cancel, IInv, TypeOK, SentForGood
  <1>2. SeatsReserved' /\ Rooted'
    BY <1>1, StatusSeats DEF Cancel
  <1> QED BY <1>2, EndsRequest DEF Cancel, SeatInv

LEMMA ExpirySeats ==
  ASSUME HouseholdAssumption, OneThread, FinitelyMany, IInv, SeatInv,
         NEW t \in Threads, NEW i \in Invites, AcceptExpired(t, i)
  PROVE  SeatInv'
  <1>1. invite[i] \in InviteRows
    BY InviteShape DEF AcceptExpired, IInv
  <1>2. SeatsReserved' /\ Rooted'
    BY <1>1, StatusSeats DEF AcceptExpired
  <1>3. \A q \in Threads : task'[q] = Idle
    BY DEF AcceptExpired, OneThread
  <1> QED BY <1>2, <1>3 DEF SeatInv, KeptSeat, StillOpen, Idle

\* An invite that is late is open still, and counted.
LEMMA LateSeats ==
  ASSUME HouseholdAssumption, FinitelyMany, IInv, SeatInv, NEW i \in Invites, Late(i)
  PROVE  SeatInv'
  <1>1. invite[i] \in InviteRows /\ Open(i)
    BY InviteShape DEF Late, IInv, Open
  <1>2. SeatsReserved' /\ Rooted'
    BY <1>1, StatusSeats DEF Late
  <1>3. /\ invite'[i].home = invite[i].home /\ invite'[i].status = "late"
        /\ \A j \in Invites : j # i => invite'[j] = invite[j]
    BY <1>1 DEF Late, IInv, TypeOK, InviteRows
  <1>4. StillOpen'
    <2>1. \A t \in Threads : task[t].pc \in {"stripe", "tier", "join"} => task[t].i \in Invites
      BY TaskShape DEF IInv, TypeOK
    <2> QED BY <1>3, <2>1 DEF StillOpen, SeatInv, Open, Late
  <1>5. KeptSeat'
    <2>1. \A h : Members(h)' = Members(h)
      BY DEF Late, Members
    <2>2. \A h : Pending(h)' = Pending(h)
      BY <1>1, <1>3 DEF Pending, Open
    <2>3. \A h : Seats(h)' = Seats(h)
      BY <2>1, <2>2 DEF Seats
    <2> QED BY <2>3 DEF Late, SeatInv, KeptSeat
  <1> QED BY <1>2, <1>4, <1>5 DEF SeatInv

\* The seat of the invite becomes the member's.
LEMMA JoinSeats ==
  ASSUME HouseholdAssumption, OneThread, FinitelyMany, IInv, SeatInv,
         NEW t \in Threads, Join(t)
  PROVE  SeatInv'
  <1> DEFINE i == task[t].i
             u == invite[i].to
             g == invite[i].home
  <1>1. i \in Invites /\ invite[i] \in InviteRows /\ Open(i)
    BY TaskShape DEF Join, IInv, TypeOK, SentForGood, SeatInv, StillOpen
  <1>2. u \in Users /\ g \in Owners /\ g \in created
    BY <1>1 DEF InviteRows, SeatInv, Rooted
  <1>3. KeptSeat' /\ StillOpen'
    BY EndsRequest DEF Join
  <1>4. CASE home[u] = "none"
    <2>1. /\ home' = [home EXCEPT ![u] = g] /\ created' = created
          /\ invite' = [invite EXCEPT ![i].status = "accepted"]
      BY <1>4 DEF Join
    <2>2. /\ invite'[i].home = g /\ invite'[i].status = "accepted"
          /\ \A j \in Invites : j # i => invite'[j] = invite[j]
      BY <1>1, <2>1 DEF IInv, TypeOK, InviteRows
    <2>3. Rooted'
      BY <1>2, <2>1, <2>2 DEF SeatInv, Rooted, IInv, TypeOK
    <2>4. ASSUME NEW h \in Owners PROVE Seats(h)' <= Limit
      <3>0. Seats(h) <= Limit /\ Seats(h) \in Nat
        BY SeatsAreNumbers DEF SeatInv, SeatsReserved, Seats
      <3>1. CASE h = g
        <4>1. Members(h)' \subseteq Members(h) \union {u}
          BY <1>2, <2>1 DEF Members, IInv, TypeOK
        <4>2. Pending(h)' \subseteq Pending(h) \ {i} /\ i \in Pending(h)
          BY <1>1, <2>2, <3>1 DEF Pending, Open
        <4>3. IsFiniteSet(Members(h)) /\ IsFiniteSet(Pending(h))
          BY SeatsAreNumbers
        <4>4. /\ Cardinality(Members(h)') <= Cardinality(Members(h)) + 1
              /\ Cardinality(Members(h)') \in Nat /\ Cardinality(Members(h)) \in Nat
          BY <4>1, <4>3, OneMore
        <4>5. /\ Cardinality(Pending(h)') + 1 <= Cardinality(Pending(h))
              /\ Cardinality(Pending(h)') \in Nat /\ Cardinality(Pending(h)) \in Nat
          BY <4>2, <4>3, OneFewer
        <4> QED BY <3>0, <4>4, <4>5 DEF Seats, HouseholdAssumption
      <3>2. CASE h # g
        <4>1. Members(h)' \subseteq Members(h) /\ Pending(h)' \subseteq Pending(h)
          BY <1>2, <2>1, <2>2, <3>2 DEF Members, Pending, Open, IInv, TypeOK
        <4>2. Seats(h)' <= Seats(h) /\ Seats(h)' \in Nat
          BY <4>1, SeatsShrink
        <4> QED BY <3>0, <4>2 DEF HouseholdAssumption
      <3> QED BY <3>1, <3>2
    <2> QED BY <1>3, <2>3, <2>4 DEF SeatInv, SeatsReserved, Seats
  <1>5. CASE home[u] # "none"
    <2>1. UNCHANGED <<home, created, invite>> /\ task' = [task EXCEPT ![t] = Idle]
      BY <1>5 DEF Join, End
    <2> QED BY <2>1, RequestSteps DEF Idle
  <1> QED BY <1>4, <1>5

LEMMA DepartSeats ==
  ASSUME HouseholdAssumption, OneThread, FinitelyMany, IInv, SeatInv,
         NEW t \in Threads, task[t] = Idle, NEW u \in Users, Depart(u)
  PROVE  SeatInv'
  <1>1. \A h \in Owners : Members(h)' \subseteq Members(h) /\ Pending(h)' \subseteq Pending(h)
    BY DEF Depart, Members, Pending, Open, IInv, TypeOK, HouseholdAssumption
  <1>2. SeatsReserved'
    BY <1>1, FewerSeats DEF SeatInv
  <1>3. Rooted'
    BY DEF Depart, SeatInv, Rooted, IInv, TypeOK
  <1>4. \A q \in Threads : task'[q] = Idle
    BY DEF Depart, OneThread
  <1> QED BY <1>2, <1>3, <1>4 DEF SeatInv, KeptSeat, StillOpen, Idle

\* The capacity that invite_member checks holds for good when requests do not
\* overlap: an open invite keeps its seat until whoever accepts it has it.
THEOREM SeatsAreKept ==
  ASSUME OneThread, FinitelyMany
  PROVE  Spec => []SeatsReserved
  <1>1. Init => SeatInv
    <2> SUFFICES ASSUME Init PROVE SeatInv
      OBVIOUS
    <2>1. \A h \in Owners : Members(h) = {} /\ Pending(h) = {}
      BY HouseholdAssumption DEF Init, Members, Pending, Open, Unsent
    <2>2. SeatsReserved
      BY <2>1, FS_EmptySet, HouseholdAssumption DEF SeatsReserved, HouseholdAssumption
    <2>3. Rooted
      BY DEF Init, Rooted, Unsent, InviteRows
    <2>4. KeptSeat /\ StillOpen
      BY DEF Init, KeptSeat, StillOpen, Idle
    <2> QED BY <2>2, <2>3, <2>4 DEF SeatInv
  <1>2. IInv /\ SeatInv /\ [Next]_vars => SeatInv'
    <2> SUFFICES ASSUME IInv, SeatInv, [Next]_vars PROVE SeatInv'
      OBVIOUS
    <2> USE HouseholdAssumption
    <2>1. ASSUME NEW t \in Threads, NEW u \in Owners, CheckCreate(t, u) PROVE SeatInv'
      BY <2>1, RequestSteps DEF CheckCreate, Begin
    <2>2. ASSUME NEW t \in Threads, NEW h \in Owners, NEW u \in Users, CheckInvite(t, h, u)
          PROVE SeatInv'
      <3>1. h \in created /\ Seats(h) < Limit
        BY <2>2 DEF CheckInvite, MayManage, Seats, SeatInv, Rooted, HouseholdAssumption
      <3> QED BY <2>2, <3>1, RequestSteps DEF CheckInvite, Begin
    <2>3. ASSUME NEW t \in Threads, NEW i \in Invites, Invite(t, i) PROVE SeatInv'
      BY <2>3, InviteSeats
    <2>4. ASSUME NEW t \in Threads, NEW i \in Invites, CheckCancel(t, i) PROVE SeatInv'
      BY <2>4, RequestSteps DEF CheckCancel, Begin
    <2>5. ASSUME NEW t \in Threads, NEW i \in Invites, CheckAccept(t, i) PROVE SeatInv'
      <3> DEFINE r == [pc |-> IF plan[invite[i].to] = "paid" THEN "stripe" ELSE "tier", i |-> i]
      <3>1. Open(i) /\ r.i = i /\ r.pc # "invite"
        BY <2>5 DEF CheckAccept, Open
      <3>2. task' = [task EXCEPT ![t] = r] /\ UNCHANGED <<home, created, invite>>
        BY <2>5 DEF CheckAccept, Begin
      <3> HIDE DEF r
      <3> QED BY <3>1, <3>2, RequestSteps
    <2>6. ASSUME NEW t \in Threads, NEW i \in Invites, AcceptExpired(t, i) PROVE SeatInv'
      BY <2>6, ExpirySeats
    <2>7. ASSUME NEW t \in Threads, Create(t) \/ Cancel(t) \/ Join(t) PROVE SeatInv'
      BY <2>7, CreateSeats, CancelSeats, JoinSeats
    <2>8. ASSUME NEW t \in Threads, CancelStripe(t) \/ WriteTier(t) PROVE SeatInv'
      <3>1. PICK pc \in {"tier", "join"} : task' = [task EXCEPT ![t].pc = pc]
        BY <2>8 DEF CancelStripe, WriteTier
      <3>2. task[t] \in Tasks /\ task[t].pc \in {"stripe", "tier"} /\ Open(task[t].i)
        BY <2>8 DEF CancelStripe, WriteTier, IInv, TypeOK, SeatInv, StillOpen
      <3> DEFINE r == [task[t] EXCEPT !.pc = pc]
      <3>3. r.i = task[t].i /\ r.pc = pc
        BY <3>2 DEF Tasks, Idle
      <3>4. task' = [task EXCEPT ![t] = r] /\ UNCHANGED <<home, created, invite>>
        BY <2>8, <3>1 DEF CancelStripe, WriteTier
      <3> HIDE DEF r
      <3> QED BY <3>1, <3>2, <3>3, <3>4, RequestSteps
    <2>9. ASSUME NEW t \in Threads, Crash(t) PROVE SeatInv'
      BY <2>9, RequestSteps DEF Crash, End, Idle
    <2>10. ASSUME NEW t \in Threads, NEW u \in Users, Leave(t, u) \/ Remove(t, u) PROVE SeatInv'
      BY <2>10, DepartSeats DEF Leave, Remove
    <2>11. ASSUME NEW i \in Invites, Late(i) PROVE SeatInv'
      BY <2>11, LateSeats
    <2>12. ASSUME NEW u \in Users, TrialConverts(u) \/ Webhook(u) PROVE SeatInv'
      BY <2>12, ElsewhereSteps DEF TrialConverts, Webhook
    <2>13. CASE UNCHANGED vars
      BY <2>13, ElsewhereSteps DEF vars
    <2> QED BY <2>1, <2>2, <2>3, <2>4, <2>5, <2>6, <2>7, <2>8, <2>9, <2>10, <2>11, <2>12,
               <2>13 DEF Next
  <1>3. SeatInv => SeatsReserved
    BY DEF SeatInv
  <1> QED BY <1>1, <1>2, <1>3, Invariance, PTL DEF Spec
=============================================================================
