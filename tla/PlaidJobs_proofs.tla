-------------------------- MODULE PlaidJobs_proofs --------------------------
(***************************************************************************)
(* Webhook intake, and the order the jobs select Items from, for every     *)
(* finite number of Items, updates and batch sizes.                        *)
(***************************************************************************)
EXTENDS PlaidJobs, FiniteSetTheorems, SequenceTheorems, TLAPS

IntakeType ==
  /\ webhookAt \in [Items -> 0..MaxHead]
  /\ events \subseteq Updates /\ recorded \subseteq events /\ answered \subseteq events

\* The event of every committed webhook led to a mark, or its handler is still
\* between its two commits: what makes the "duplicate" answer safe.
EventsServed ==
  \A u \in events : webhookAt[u.item] >= u.at \/ u \in recorded

IInv == IntakeType /\ EventsServed

\* The first commit, or the answer to a duplicate.
LEMMA ReceiveKeeps ==
  ASSUME HasWebhookId, IInv, NEW u \in Updates, ReceiveWebhook(u)
  PROVE  IInv'
<1>1. webhookAt' = webhookAt /\ DedupeKey(u) = u
  BY DEF ReceiveWebhook, DedupeKey
<1>2. CASE u \in events
  <2>1. answered' = answered \union {u} /\ events' = events /\ recorded' = recorded
    BY <1>1, <1>2 DEF ReceiveWebhook
  <2> QED BY <1>1, <1>2, <2>1 DEF IInv, IntakeType, EventsServed
<1>3. CASE u \notin events
  <2>1. answered' = answered /\ events' = events \union {u} /\ recorded' = recorded \union {u}
    BY <1>1, <1>3 DEF ReceiveWebhook
  <2> QED BY <1>1, <2>1 DEF IInv, IntakeType, EventsServed
<1> QED BY <1>2, <1>3

\* The mark never goes back to an older update.
LEMMA MarkKeeps ==
  ASSUME IInv, NEW u \in Updates, MarkSyncNeeded(u)
  PROVE  IInv'
<1>1. /\ u.item \in Items /\ u.at \in 1..MaxHead /\ MaxHead \in Nat
      /\ webhookAt \in [Items -> 0..MaxHead]
  BY JobsAssumption DEF Updates, IInv, IntakeType
<1>2. /\ webhookAt' = [webhookAt EXCEPT ![u.item] = IF u.at > @ THEN u.at ELSE @]
      /\ recorded' = recorded \ {u} /\ answered' = answered \union {u} /\ events' = events
  BY DEF MarkSyncNeeded
<1>3. webhookAt' \in [Items -> 0..MaxHead]
  BY <1>1, <1>2
<1>4. \A i \in Items : webhookAt'[i] >= webhookAt[i]
  BY <1>1, <1>2
<1>5. webhookAt'[u.item] >= u.at
  BY <1>1, <1>2
<1>6. EventsServed'
  <2> SUFFICES ASSUME NEW v \in events  PROVE webhookAt'[v.item] >= v.at \/ v \in recorded'
    BY <1>2 DEF EventsServed
  <2>1. v.item \in Items /\ v.at \in 1..MaxHead
    BY DEF IInv, IntakeType, Updates
  <2>2. CASE v = u
    BY <1>5, <2>2
  <2>3. CASE v # u /\ v \in recorded
    BY <1>2, <2>3
  <2>4. CASE webhookAt[v.item] >= v.at
    BY <1>1, <1>3, <1>4, <2>1, <2>4
  <2> QED BY <2>2, <2>3, <2>4 DEF IInv, EventsServed
<1>7. u \in events
  BY DEF MarkSyncNeeded, IInv, IntakeType
<1>8. IntakeType'
  BY <1>2, <1>3, <1>7 DEF IInv, IntakeType
<1> QED BY <1>6, <1>8 DEF IInv

LEMMA StepInv ==
  ASSUME HasWebhookId, "webhook" \notin FaultKinds, IInv, [Next]_vars
  PROVE  IInv'
<1>1. CASE UNCHANGED hookVars
  BY <1>1 DEF hookVars, IInv, IntakeType, EventsServed
<1>2. ASSUME NEW u \in Updates, ReceiveWebhook(u)
      PROVE  IInv'
  BY <1>2, ReceiveKeeps
<1>3. ASSUME NEW u \in Updates, MarkSyncNeeded(u)
      PROVE  IInv'
  BY <1>3, MarkKeeps
<1>4. ASSUME NEW u \in Updates  PROVE ~WebhookCrash(u)
  BY DEF WebhookCrash
<1>5. ASSUME NEW i \in Items, PlaidUpdates(i) \/ Stale(i)  PROVE UNCHANGED hookVars
  BY <1>5 DEF PlaidUpdates, Stale
<1>6. ASSUME NEW k \in Jobs, RunJob(k) \/ SyncStep(k) \/ AbortBatch(k)  PROVE UNCHANGED hookVars
  BY <1>6 DEF RunJob, SyncStep, StartSync, Fetch, Commit, RecordFailure, RecordReauth, AbortBatch
<1> QED BY <1>1, <1>2, <1>3, <1>4, <1>5, <1>6 DEF Next, vars

\* Every webhook Plaid was given a 200 for has marked its Item, or is about to,
\* for every number of Items and however webhooks are repeated, reordered and
\* interleaved, if payloads carry a webhook_id and no handler dies between its
\* two commits.  Without either assumption it is false.
THEOREM AnswersAreKept ==
  ASSUME HasWebhookId, "webhook" \notin FaultKinds
  PROVE  Spec => []AnsweredMeansMarked
<1>1. Init => IInv
  BY JobsAssumption DEF Init, IInv, IntakeType, EventsServed
<1>2. IInv /\ [Next]_vars => IInv'
  BY StepInv
<1>3. IInv => AnsweredMeansMarked
  <2> SUFFICES ASSUME IInv, NEW u \in answered
               PROVE  \/ webhookAt[u.item] >= u.at
                      \/ \E v \in recorded : v.item = u.item /\ v.at >= u.at
    BY DEF AnsweredMeansMarked
  <2>1. u \in events /\ u.at \in Nat
    BY JobsAssumption DEF IInv, IntakeType, Updates
  <2> QED BY <2>1 DEF IInv, EventsServed
<1> QED BY <1>1, <1>2, <1>3, PTL DEF Spec

-----------------------------------------------------------------------------
(* The queues *)

\* Counting the positions up to each member numbers a finite set of positions
\* from 1: the CHOOSE of Those has a witness, and another one for each number.
LEMMA Numbered ==
  ASSUME NEW D \in SUBSET Nat, IsFiniteSet(D)
  PROVE  /\ Cardinality(D) \in Nat
         /\ \A n \in D : Cardinality({m \in D : m <= n}) \in 1..Cardinality(D)
         /\ \A n, p \in D : Cardinality({m \in D : m <= n}) = Cardinality({m \in D : m <= p}) => n = p
         /\ \A j \in 1..Cardinality(D) :
              \E n \in D : Cardinality({m \in D : m <= n}) = j
<1> DEFINE upto(n) == {m \in D : m <= n}
           f == [n \in D |-> Cardinality(upto(n))]
<1>1. Cardinality(D) \in Nat
  BY FS_CardinalityType
<1>2. ASSUME NEW n \in D
      PROVE  IsFiniteSet(upto(n)) /\ Cardinality(upto(n)) \in 1..Cardinality(D)
  <2>1. IsFiniteSet(upto(n)) /\ Cardinality(upto(n)) <= Cardinality(D)
    <3>1. upto(n) \in SUBSET D
      OBVIOUS
    <3> QED BY <3>1, FS_Subset
  <2>2. Cardinality(upto(n)) \in Nat
    BY <2>1, FS_CardinalityType
  <2>3. n \in upto(n)
    OBVIOUS
  <2>4. Cardinality(upto(n)) # 0
    BY <2>1, <2>3, FS_EmptySet
  <2> HIDE DEF upto
  <2> QED BY <1>1, <2>1, <2>2, <2>4
<1>3. ASSUME NEW n \in D, NEW p \in D, n < p
      PROVE  Cardinality(upto(n)) # Cardinality(upto(p))
  <2>1. n \in Nat /\ p \in Nat
    OBVIOUS
  <2>2. upto(n) \in SUBSET upto(p)
    <3> SUFFICES ASSUME NEW m \in D, m <= n  PROVE m <= p
      OBVIOUS
    <3>1. m \in Nat
      OBVIOUS
    <3> QED BY <1>3, <2>1, <3>1
  <2>3. p \in upto(p) /\ p \notin upto(n)
    BY <1>3, <2>1
  <2>4. IsFiniteSet(upto(p))
    BY <1>2
  <2> HIDE DEF upto
  <2> QED BY <2>2, <2>3, <2>4, FS_Subset
<1>4. \A n, p \in D : Cardinality(upto(n)) = Cardinality(upto(p)) => n = p
  <2> SUFFICES ASSUME NEW n \in D, NEW p \in D, Cardinality(upto(n)) = Cardinality(upto(p))
               PROVE  n = p
    OBVIOUS
  <2>1. n \in Nat /\ p \in Nat
    OBVIOUS
  <2>2. ~(n < p) /\ ~(p < n)
    <3> HIDE DEF upto
    <3> QED BY <1>3
  <2> QED BY <2>1, <2>2
<1>5. /\ IsFiniteSet(1..Cardinality(D))
      /\ Cardinality(1..Cardinality(D)) = Cardinality(D)
  BY <1>1, FS_Interval
<1>6. f \in Injection(D, 1..Cardinality(D))
  <2>1. f \in [D -> 1..Cardinality(D)]
    <3> HIDE DEF upto
    <3> QED BY <1>2
  <2>2. \A n \in D : f[n] = Cardinality(upto(n))
    OBVIOUS
  <2> HIDE DEF f, upto
  <2> QED BY <1>4, <2>1, <2>2 DEF Injection, IsInjective
<1>7. f \in Surjection(D, 1..Cardinality(D))
  <2> HIDE DEF f
  <2> QED BY <1>5, <1>6, FS_Injection
<1>8. ASSUME NEW j \in 1..Cardinality(D)
      PROVE  \E n \in D : Cardinality({m \in D : m <= n}) = j
  <2>1. PICK n \in D : f[n] = j
    <3> HIDE DEF f
    <3> QED BY <1>7 DEF Surjection
  <2> QED BY <2>1
<1>9. \A n \in D : Cardinality(upto(n)) \in 1..Cardinality(D)
  <2> HIDE DEF upto
  <2> QED BY <1>2
<1> QED BY <1>1, <1>4, <1>8, <1>9

\* The part of a queue whose members are in S has exactly these members, each
\* as often as in the queue.
LEMMA ThoseKept ==
  ASSUME NEW q \in Seq(Items), NEW S
  PROVE  /\ Those(q, S) \in Seq(Items)
         /\ ToSet(Those(q, S)) = ToSet(q) \intersect S
         /\ IsInjective(q) => IsInjective(Those(q, S))
<1> DEFINE at == {n \in DOMAIN q : q[n] \in S}
           rank(n) == Cardinality({m \in at : m <= n})
           pick(j) == CHOOSE n \in at : rank(n) = j
           c == Cardinality(at)
           t == [j \in 1..c |-> q[pick(j)]]
<1>1. Those(q, S) = t
  BY DEF Those
<1>2. DOMAIN q = 1..Len(q) /\ Len(q) \in Nat
  BY LenProperties
<1>3. at \in SUBSET Nat /\ IsFiniteSet(at)
  <2>1. IsFiniteSet(1..Len(q))
    BY <1>2, FS_Interval
  <2>2. at \in SUBSET (1..Len(q))
    BY <1>2
  <2>3. IsFiniteSet(at)
    <3> HIDE DEF at
    <3> QED BY <2>1, <2>2, FS_Subset
  <2> QED BY <2>2, <2>3
<1>4. /\ c \in Nat /\ \A j \in 1..c : \E n \in at : rank(n) = j
      /\ \A n \in at : rank(n) \in 1..c
      /\ \A n, p \in at : rank(n) = rank(p) => n = p
  <2> HIDE DEF at
  <2> QED BY <1>3, Numbered
<1>5. \A j \in 1..c : pick(j) \in at /\ rank(pick(j)) = j
  <2> HIDE DEF at, rank
  <2> QED BY <1>4
<1>6. \A j \in 1..c : pick(j) \in DOMAIN q /\ q[pick(j)] \in S /\ q[pick(j)] \in Items
  <2> HIDE DEF pick, c
  <2> QED BY <1>2, <1>5, ElementOfSeq
<1>7. t \in Seq(Items)
  <2> HIDE DEF pick, c
  <2> QED BY <1>4, <1>6
<1>8. DOMAIN t = 1..c /\ \A j \in 1..c : t[j] = q[pick(j)]
  <2> HIDE DEF pick, c
  <2> QED OBVIOUS
<1>9. ToSet(t) \subseteq ToSet(q) \intersect S
  <2> HIDE DEF pick, c, t
  <2> QED BY <1>6, <1>8 DEF ToSet
<1>10. ToSet(q) \intersect S \subseteq ToSet(t)
  <2> SUFFICES ASSUME NEW x \in ToSet(q), x \in S  PROVE x \in ToSet(t)
    OBVIOUS
  <2>1. PICK n \in at : q[n] = x
    BY DEF ToSet
  <2>2. rank(n) \in 1..c /\ pick(rank(n)) = n
    <3> HIDE DEF at, rank
    <3> QED BY <1>4, <1>5
  <2>3. t[rank(n)] = x
    <3> HIDE DEF t, pick, rank
    <3> QED BY <1>8, <2>1, <2>2
  <2> HIDE DEF t, rank, c
  <2> QED BY <1>8, <2>2, <2>3 DEF ToSet
<1>11. ASSUME IsInjective(q), NEW a \in 1..c, NEW b \in 1..c, t[a] = t[b]
       PROVE  a = b
  <2>1. q[pick(a)] = q[pick(b)]
    <3> HIDE DEF t, pick
    <3> QED BY <1>8, <1>11
  <2>2. pick(a) = pick(b)
    <3> HIDE DEF pick
    <3> QED BY <1>6, <1>11, <2>1 DEF IsInjective
  <2> HIDE DEF pick, rank, c
  <2> QED BY <1>5, <2>2
<1>12. IsInjective(q) => IsInjective(t)
  <2> HIDE DEF t, c
  <2> QED BY <1>8, <1>11 DEF IsInjective
<1> HIDE DEF t
<1> QED BY <1>1, <1>7, <1>9, <1>10, <1>12

Queue(q) == q \in Seq(Items) /\ IsInjective(q)

\* Every Item is in exactly one of the two parts of the order, once.
Ordered(q, r) ==
  /\ Queue(q) /\ Queue(r)
  /\ ToSet(q) \union ToSet(r) = Items
  /\ ToSet(q) \intersect ToSet(r) = {}

LEMMA WithoutKept ==
  ASSUME NEW q, Queue(q), NEW i
  PROVE  Queue(Without(q, i)) /\ ToSet(Without(q, i)) = ToSet(q) \ {i}
<1>1. ToSet(q) \subseteq Items
  BY LenProperties, ElementOfSeq DEF Queue, ToSet
<1>2. /\ Without(q, i) \in Seq(Items)
      /\ ToSet(Without(q, i)) = ToSet(q) \intersect (Items \ {i})
      /\ IsInjective(Without(q, i))
  BY ThoseKept DEF Queue, Without
<1> QED BY <1>1, <1>2 DEF Queue

LEMMA AppendKept ==
  ASSUME NEW q, Queue(q), NEW i \in Items, i \notin ToSet(q)
  PROVE  Queue(Append(q, i)) /\ ToSet(Append(q, i)) = ToSet(q) \union {i}
<1> DEFINE a == Append(q, i)
<1>1. /\ a \in Seq(Items) /\ Len(a) = Len(q) + 1 /\ Len(q) \in Nat
      /\ \A n \in 1..Len(q) : a[n] = q[n]
      /\ a[Len(q) + 1] = i
  BY AppendProperties, LenProperties DEF Queue
<1>2. DOMAIN q = 1..Len(q) /\ DOMAIN a = 1..(Len(q) + 1)
  BY <1>1, LenProperties DEF Queue
<1>3. ToSet(q) = {q[n] : n \in 1..Len(q)} /\ ToSet(a) = {a[n] : n \in 1..(Len(q) + 1)}
  <2> HIDE DEF a
  <2> QED BY <1>2 DEF ToSet
<1> HIDE DEF a
<1>4. \A n \in 1..(Len(q) + 1) : n \in 1..Len(q) \/ n = Len(q) + 1
  BY <1>1
<1>5. Len(q) + 1 \in 1..(Len(q) + 1) /\ 1..Len(q) \subseteq 1..(Len(q) + 1)
  BY <1>1
<1>6. ToSet(a) = ToSet(q) \union {i}
  BY <1>1, <1>3, <1>4, <1>5
<1>7. \A n \in 1..Len(q) : q[n] # i
  BY <1>3
<1>8. IsInjective(a)
  BY <1>1, <1>2, <1>4, <1>7 DEF IsInjective, Queue
<1> QED BY <1>1, <1>6, <1>8 DEF Queue, a

\* The first of a batch, and what is left after it.
LEMMA TailKept ==
  ASSUME NEW q, Queue(q), q # <<>>
  PROVE  /\ Head(q) \in Items /\ Queue(Tail(q))
         /\ Len(q) # 1 => Tail(q) # <<>>
<1>1. /\ Head(q) \in Items /\ Tail(q) \in Seq(Items) /\ Len(Tail(q)) = Len(q) - 1
      /\ \A n \in 1..Len(Tail(q)) : Tail(q)[n] = q[n + 1]
  BY HeadTailProperties DEF Queue
<1>2. /\ DOMAIN q = 1..Len(q) /\ Len(q) \in Nat
      /\ DOMAIN Tail(q) = 1..Len(Tail(q))
  BY <1>1, LenProperties DEF Queue
<1>3. \A m, n \in 1..Len(Tail(q)) : Tail(q)[m] = Tail(q)[n] => m = n
  <2> SUFFICES ASSUME NEW m \in 1..Len(Tail(q)), NEW n \in 1..Len(Tail(q)),
                      Tail(q)[m] = Tail(q)[n]
               PROVE  m = n
    OBVIOUS
  <2>1. q[m + 1] = q[n + 1]
    BY <1>1
  <2>2. m + 1 \in DOMAIN q /\ n + 1 \in DOMAIN q
    BY <1>1, <1>2
  <2>3. m + 1 = n + 1
    BY <2>1, <2>2 DEF Queue, IsInjective
  <2> QED BY <2>3
<1>4. Len(q) # 1 => Tail(q) # <<>>
  <2>1. Len(<<>>) = 0
    BY EmptySeq
  <2>2. Tail(q) = <<>> => Len(Tail(q)) = 0
    BY <2>1, Zenon
  <2>3. Tail(q) = <<>> => Len(q) = 1
    BY ONLY <1>1, <1>2, <2>2
  <2> QED BY <2>3
<1> QED BY <1>1, <1>2, <1>3, <1>4 DEF Queue, IsInjective

\* A finite set of Items as a queue.
LEMMA SetIsQueue ==
  ASSUME NEW S \in SUBSET Items
  PROVE  Queue(SetToSeq(S)) /\ ToSet(SetToSeq(S)) = S
<1>1. IsFiniteSet(S)
  BY JobsAssumption, FS_Subset
<1>2. Cardinality(S) \in Nat /\ ExistsBijection(1..Cardinality(S), S)
  BY <1>1, FS_CardinalityType
<1>3. PICK g \in Bijection(1..Cardinality(S), S) : TRUE
  BY <1>2 DEF ExistsBijection
<1>4. g \in [1..Cardinality(S) -> S] /\ IsInjective(g)
  BY DEF Bijection, Injection, IsInjective
<1> DEFINE t == SetToSeq(S)
<1>5. t \in [1..Cardinality(S) -> S] /\ IsInjective(t)
  BY <1>4 DEF SetToSeq
<1> HIDE DEF t
<1>6. t \in Seq(Items)
  BY <1>2, <1>5
<1>7. /\ IsFiniteSet(1..Cardinality(S))
      /\ Cardinality(1..Cardinality(S)) = Cardinality(S)
  BY <1>2, FS_Interval
<1>8. t \in Injection(1..Cardinality(S), S)
  BY <1>5 DEF Injection, IsInjective
<1>9. t \in Surjection(1..Cardinality(S), S)
  BY <1>1, <1>7, <1>8, FS_Injection
<1>10. ToSet(t) = S
  BY <1>5, <1>9 DEF ToSet, Surjection
<1> QED BY <1>5, <1>6, <1>10 DEF Queue, t

\* Both parts together are a queue, so a due Item is selected once.
LEMMA SelectedIsQueue ==
  ASSUME Ordered(needed, others), NEW k \in Jobs
  PROVE  Queue(Selected(k))
<1> DEFINE q == needed \o others
<1>1. /\ q \in Seq(Items) /\ Len(q) = Len(needed) + Len(others)
      /\ \A n \in 1..Len(needed) + Len(others) :
           q[n] = IF n <= Len(needed) THEN needed[n] ELSE others[n - Len(needed)]
  BY ConcatProperties DEF Ordered, Queue
<1>2. /\ Len(needed) \in Nat /\ Len(others) \in Nat
      /\ DOMAIN needed = 1..Len(needed) /\ DOMAIN others = 1..Len(others)
      /\ DOMAIN q = 1..Len(needed) + Len(others)
  BY <1>1, LenProperties DEF Ordered, Queue
<1> HIDE DEF q
<1>3. \A m \in DOMAIN needed, n \in DOMAIN others : needed[m] # others[n]
  BY DEF Ordered, ToSet
<1>4. IsInjective(q)
  <2> SUFFICES ASSUME NEW m \in DOMAIN q, NEW n \in DOMAIN q, q[m] = q[n]
               PROVE  m = n
    BY DEF IsInjective
  <2>1. m \in 1..Len(needed) + Len(others) /\ n \in 1..Len(needed) + Len(others)
    BY <1>2
  <2>2. CASE m <= Len(needed) /\ n <= Len(needed)
    <3>1. m \in DOMAIN needed /\ n \in DOMAIN needed /\ needed[m] = needed[n]
      BY <1>1, <1>2, <2>1, <2>2
    <3> QED BY <3>1 DEF Ordered, Queue, IsInjective
  <2>3. CASE ~(m <= Len(needed)) /\ ~(n <= Len(needed))
    <3>1. /\ m - Len(needed) \in DOMAIN others /\ n - Len(needed) \in DOMAIN others
          /\ others[m - Len(needed)] = others[n - Len(needed)]
      BY <1>1, <1>2, <2>1, <2>3
    <3>2. m - Len(needed) = n - Len(needed)
      BY <3>1 DEF Ordered, Queue, IsInjective
    <3> QED BY <1>2, <2>1, <3>2
  <2>4. CASE m <= Len(needed) /\ ~(n <= Len(needed))
    <3>1. /\ m \in DOMAIN needed /\ n - Len(needed) \in DOMAIN others
          /\ needed[m] = others[n - Len(needed)]
      BY <1>1, <1>2, <2>1, <2>4
    <3> QED BY <1>3, <3>1
  <2>5. CASE ~(m <= Len(needed)) /\ n <= Len(needed)
    <3>1. /\ n \in DOMAIN needed /\ m - Len(needed) \in DOMAIN others
          /\ needed[n] = others[m - Len(needed)]
      BY <1>1, <1>2, <2>1, <2>5
    <3> QED BY <1>3, <3>1
  <2> QED BY <2>2, <2>3, <2>4, <2>5
<1> DEFINE due == Those(q, {i \in Items : Due(k, i)})
           last == IF Len(due) < BatchSize THEN Len(due) ELSE BatchSize
           batch == SubSeq(due, 1, last)
<1>5. Selected(k) = batch
  BY DEF Selected, q
<1>6. due \in Seq(Items) /\ IsInjective(due)
  BY <1>1, <1>4, ThoseKept
<1> HIDE DEF due
<1>7. Len(due) \in Nat /\ DOMAIN due = 1..Len(due) /\ \A n \in 1..Len(due) : due[n] \in Items
  BY <1>6, LenProperties, ElementOfSeq
<1>8. last \in Nat /\ last <= Len(due)
  BY <1>7, JobsAssumption
<1> HIDE DEF last
<1>9. \A n \in 1..last : due[n] \in Items
  BY <1>7, <1>8
<1>10. batch \in Seq(Items) /\ DOMAIN batch = 1..last /\ \A n \in 1..last : batch[n] = due[n]
  <2>1. /\ batch \in Seq(Items)
        /\ Len(batch) = IF 1 <= last THEN last - 1 + 1 ELSE 0
        /\ \A n \in 1..last - 1 + 1 : batch[n] = due[1 + n - 1]
    BY <1>8, <1>9, SubSeqProperties
  <2>2. Len(batch) = last
    BY <1>8, <2>1
  <2>3. DOMAIN batch = 1..last
    BY <2>1, <2>2, LenProperties
  <2> HIDE DEF batch
  <2> QED BY <1>8, <2>1, <2>3
<1> HIDE DEF batch
<1>11. IsInjective(batch)
  BY <1>6, <1>7, <1>8, <1>10 DEF IsInjective
<1> QED BY <1>5, <1>10, <1>11 DEF Queue

LEMMA RequestKeeps ==
  ASSUME Ordered(needed, others), NEW i \in Items, Request(i)
  PROVE  Ordered(needed', others')
<1>1. /\ Queue(Without(needed, i)) /\ ToSet(Without(needed, i)) = ToSet(needed) \ {i}
      /\ Queue(Without(others, i)) /\ ToSet(Without(others, i)) = ToSet(others) \ {i}
  BY WithoutKept DEF Ordered
<1>2. /\ Queue(Append(Without(needed, i), i))
      /\ ToSet(Append(Without(needed, i), i)) = ToSet(needed) \union {i}
  BY <1>1, AppendKept
<1> QED BY <1>1, <1>2 DEF Request, Ordered

LEMMA ClearKeeps ==
  ASSUME Ordered(needed, others), NEW i \in Items, Clear(i)
  PROVE  Ordered(needed', others')
<1>1. /\ Queue(Without(needed, i)) /\ ToSet(Without(needed, i)) = ToSet(needed) \ {i}
      /\ Queue(Without(others, i)) /\ ToSet(Without(others, i)) = ToSet(others) \ {i}
  BY WithoutKept DEF Ordered
<1>2. /\ Queue(Append(Without(others, i), i))
      /\ ToSet(Append(Without(others, i), i)) = ToSet(others) \union {i}
  BY <1>1, AppendKept
<1> QED BY <1>1, <1>2 DEF Clear, Ordered

LEMMA TouchKeeps ==
  ASSUME Ordered(needed, others), NEW i \in Items, Touch(i)
  PROVE  Ordered(needed', others')
<1>1. CASE Contains(others, i)
  <2>1. i \in ToSet(others)
    BY <1>1, LenProperties DEF Contains, ToSet, Ordered, Queue
  <2>2. Queue(Without(others, i)) /\ ToSet(Without(others, i)) = ToSet(others) \ {i}
    BY WithoutKept DEF Ordered
  <2>3. /\ Queue(Append(Without(others, i), i))
        /\ ToSet(Append(Without(others, i), i)) = ToSet(others)
    BY <2>1, <2>2, AppendKept
  <2> QED BY <1>1, <2>3 DEF Touch, Ordered
<1>2. CASE ~Contains(others, i)
  BY <1>2 DEF Touch
<1> QED BY <1>1, <1>2

-----------------------------------------------------------------------------
(* Types *)

RowsType ==
  /\ head \in [Items -> 0..MaxHead]
  /\ status \in [Items -> Statuses]
  /\ cursor \in [Items -> 0..MaxHead]
  /\ synced \in [Items -> {"never", "recent", "stale"}]

HooksType ==
  /\ webhookAt \in [Items -> 0..MaxHead]
  /\ events \subseteq Items \union Updates
  /\ recorded \subseteq Updates /\ answered \subseteq Updates

\* A run that has begun has an Item to do.
RunsType ==
  /\ job \in [Jobs -> Runs]
  /\ \A k \in Jobs : IsInjective(job[k].batch) /\ (job[k].pc # "idle" => job[k].batch # <<>>)

TypesInv ==
  RowsType /\ Ordered(needed, others) /\ HooksType /\ RunsType /\ faults \in 0..MaxFaults

LEMMA CurrentIsItem ==
  ASSUME RunsType, NEW k \in Jobs, job[k].pc # "idle"
  PROVE  /\ Current(k) \in Items
         /\ job[k] \in Runs /\ Queue(job[k].batch) /\ job[k].batch # <<>>
<1>1. job[k] \in Runs /\ job[k].batch # <<>> /\ IsInjective(job[k].batch)
  BY DEF RunsType
<1>2. Queue(job[k].batch)
  BY <1>1 DEF Runs, Queue
<1> QED BY <1>1, <1>2, TailKept DEF Current

\* Putting a good run in the place of one keeps the runs good.
LEMMA RunKept ==
  ASSUME RunsType, NEW k \in Jobs, NEW r \in Runs,
         IsInjective(r.batch), r.pc # "idle" => r.batch # <<>>,
         job' = [job EXCEPT ![k] = r]
  PROVE  RunsType'
<1>1. job' \in [Jobs -> Runs]
  BY DEF RunsType
<1>2. \A j \in Jobs : job'[j] = IF j = k THEN r ELSE job[j]
  BY DEF RunsType
<1> QED BY <1>1, <1>2 DEF RunsType

LEMMA NoRunIsRun == NoRun \in Runs /\ IsInjective(NoRun.batch) /\ NoRun.pc = "idle"
<1>1. <<>> \in Seq(Items) /\ IsInjective(<<>>)
  BY EmptySeq DEF IsInjective
<1>2. NoRun.batch = <<>> /\ NoRun.pc = "idle"
  BY DEF NoRun
<1>3. NoRun \in Runs
  BY <1>1, JobsAssumption DEF NoRun, Runs
<1> QED BY <1>1, <1>2, <1>3

LEMMA NextItemKeeps ==
  ASSUME RunsType, NEW k \in Jobs, job[k].pc # "idle", NextItem(k)
  PROVE  RunsType'
<1>1. job[k] \in Runs /\ Queue(job[k].batch) /\ job[k].batch # <<>>
  BY CurrentIsItem
<1>2. Queue(Tail(job[k].batch)) /\ (Len(job[k].batch) # 1 => Tail(job[k].batch) # <<>>)
  BY <1>1, TailKept
<1>3. PICK r : r = IF Len(job[k].batch) = 1 THEN NoRun
                   ELSE [NoRun EXCEPT !.pc = "next", !.batch = Tail(job[k].batch)]
  OBVIOUS
<1>4. job' = [job EXCEPT ![k] = r]
  BY <1>3 DEF NextItem, RunsType
<1>5. r \in Runs /\ IsInjective(r.batch) /\ (r.pc # "idle" => r.batch # <<>>)
  <2>1. CASE Len(job[k].batch) = 1
    BY <1>3, <2>1, NoRunIsRun
  <2>2. CASE Len(job[k].batch) # 1
    <3>1. r = [pc |-> "next", batch |-> Tail(job[k].batch), seen |-> "expired",
               clears |-> FALSE, upto |-> 0]
      BY <1>3, <2>2 DEF NoRun
    <3>2. r.batch = Tail(job[k].batch)
      BY <3>1
    <3>3. r \in Runs
      BY <1>2, <3>1, JobsAssumption DEF Runs, Queue
    <3> QED BY <1>2, <2>2, <3>2, <3>3 DEF Queue
  <2> QED BY <2>1, <2>2
<1> QED BY <1>4, <1>5, RunKept

LEMMA AssignKeeps ==
  ASSUME RowsType, NEW k \in Jobs, NEW new \in Statuses, Assign(k, new)
  PROVE  status' \in [Items -> Statuses]
BY DEF RowsType, Assign

LEMMA TypesStart ==
  ASSUME Init  PROVE TypesInv
<1>1. PICK fresh \in SUBSET Items :
        /\ status = [i \in Items |-> IF i \in fresh THEN "sync_needed" ELSE "active"]
        /\ synced = [i \in Items |-> IF i \in fresh THEN "never" ELSE "recent"]
        /\ needed = SetToSeq(fresh) /\ others = SetToSeq(Items \ fresh)
  BY DEF Init
<1>2. Ordered(needed, others)
  <2>1. fresh \in SUBSET Items /\ Items \ fresh \in SUBSET Items
    OBVIOUS
  <2>2. Queue(needed) /\ ToSet(needed) = fresh
    BY <1>1, <2>1, SetIsQueue
  <2>3. Queue(others) /\ ToSet(others) = Items \ fresh
    BY <1>1, <2>1, SetIsQueue
  <2> QED BY <2>2, <2>3 DEF Ordered
<1>3. RowsType
  BY <1>1, JobsAssumption DEF Init, RowsType, Statuses
<1>4. HooksType
  BY JobsAssumption DEF Init, HooksType
<1>5. RunsType
  <2>1. job = [k \in Jobs |-> NoRun]
    BY DEF Init
  <2> QED BY <2>1, NoRunIsRun DEF RunsType
<1>6. faults \in 0..MaxFaults
  BY JobsAssumption DEF Init
<1> QED BY <1>2, <1>3, <1>4, <1>5, <1>6 DEF TypesInv

LEMMA IntakeTypes ==
  ASSUME TypesInv, NEW u \in Updates,
         ReceiveWebhook(u) \/ MarkSyncNeeded(u) \/ WebhookCrash(u)
  PROVE  TypesInv'
<1>0. u.item \in Items /\ u.at \in 1..MaxHead
  BY DEF Updates
<1>1. CASE ReceiveWebhook(u)
  <2>1. DedupeKey(u) \in Items \union Updates
    BY <1>0 DEF DedupeKey
  <2>2. HooksType'
    <3>1. CASE DedupeKey(u) \in events
      BY <1>1, <3>1 DEF ReceiveWebhook, TypesInv, HooksType
    <3>2. CASE DedupeKey(u) \notin events
      BY <1>1, <2>1, <3>2 DEF ReceiveWebhook, TypesInv, HooksType
    <3> QED BY <3>1, <3>2
  <2> QED BY <1>1, <2>2 DEF ReceiveWebhook, itemVars, TypesInv, RowsType, RunsType
<1>2. CASE MarkSyncNeeded(u)
  <2>1. /\ webhookAt' = [webhookAt EXCEPT ![u.item] = IF u.at > @ THEN u.at ELSE @]
        /\ status' = [status EXCEPT ![u.item] = IF @ = "needs_reauth" THEN @ ELSE "sync_needed"]
        /\ Request(u.item)
        /\ recorded' = recorded \ {u} /\ answered' = answered \union {u}
        /\ UNCHANGED <<head, cursor, synced, events, job, faults>>
    BY <1>2 DEF MarkSyncNeeded
  <2>2. Ordered(needed', others')
    BY <1>0, <2>1, RequestKeeps DEF TypesInv
  <2>3. HooksType'
    BY <1>0, <2>1, JobsAssumption DEF TypesInv, HooksType
  <2>4. RowsType'
    BY <1>0, <2>1 DEF TypesInv, RowsType, Statuses
  <2> QED BY <2>1, <2>2, <2>3, <2>4 DEF TypesInv, RunsType
<1>3. CASE WebhookCrash(u)
  <2>1. faults' \in 0..MaxFaults
    BY <1>3, JobsAssumption DEF WebhookCrash, TypesInv
  <2> QED BY <1>3, <2>1 DEF WebhookCrash, itemVars, TypesInv, RowsType, HooksType, RunsType
<1> QED BY <1>1, <1>2, <1>3

LEMMA JobTypes ==
  ASSUME TypesInv, NEW k \in Jobs, RunJob(k) \/ AbortBatch(k)
  PROVE  TypesInv'
<1>0. RunsType /\ RowsType
  BY DEF TypesInv
<1>1. CASE RunJob(k)
  <2>1. Queue(Selected(k)) /\ Selected(k) # <<>> /\ Head(Selected(k)) \in Items
    BY <1>1, SelectedIsQueue, TailKept DEF RunJob, TypesInv
  <2>2. PICK r : r = [NoRun EXCEPT !.pc = "next", !.batch = Selected(k),
                                   !.seen = status[Head(Selected(k))]]
    OBVIOUS
  <2>3. r = [pc |-> "next", batch |-> Selected(k), seen |-> status[Head(Selected(k))],
             clears |-> FALSE, upto |-> 0]
    BY <2>2 DEF NoRun
  <2>4. r.batch = Selected(k)
    BY <2>3
  <2>5. status[Head(Selected(k))] \in Statuses
    BY <1>0, <2>1 DEF RowsType
  <2>6. r \in Runs
    BY <2>1, <2>3, <2>5, JobsAssumption DEF Runs, Queue
  <2>7. job' = [job EXCEPT ![k] = r]
    BY <1>1, <2>2 DEF RunJob
  <2>8. RunsType'
    BY <1>0, <2>1, <2>4, <2>6, <2>7, RunKept DEF Queue
  <2> QED BY <1>1, <2>8 DEF RunJob, itemVars, hookVars, TypesInv, RowsType, HooksType
<1>2. CASE AbortBatch(k)
  <2>1. RunsType'
    BY <1>0, <1>2, NoRunIsRun, RunKept DEF AbortBatch
  <2>2. faults' \in 0..MaxFaults
    BY <1>2, JobsAssumption DEF AbortBatch, TypesInv
  <2> QED BY <1>2, <2>1, <2>2 DEF AbortBatch, itemVars, hookVars, TypesInv, RowsType, HooksType
<1> QED BY <1>1, <1>2

LEMMA SyncTypes ==
  ASSUME TypesInv, NEW k \in Jobs, SyncStep(k)
  PROVE  TypesInv'
<1>1. /\ RunsType /\ RowsType /\ HooksType /\ Ordered(needed, others)
      /\ faults \in 0..MaxFaults
  BY DEF TypesInv
<1>2. job[k].pc # "idle"
  BY DEF SyncStep, StartSync, Fetch, Commit, RecordFailure, RecordReauth
<1>3. Current(k) \in Items /\ job[k] \in Runs /\ Queue(job[k].batch) /\ job[k].batch # <<>>
  BY <1>1, <1>2, CurrentIsItem
<1>4. CASE StartSync(k)
  <2>1. status' \in [Items -> Statuses]
    BY <1>1, <1>4, AssignKeeps DEF StartSync, Statuses
  <2>2. Ordered(needed', others')
    BY <1>1, <1>3, <1>4, TouchKeeps DEF StartSync
  <2>3. RunsType'
    <3>1. PICK r : r = [job[k] EXCEPT !.pc = "syncing"]
      OBVIOUS
    <3>2. r \in Runs /\ r.batch = job[k].batch
      BY <1>3, <3>1 DEF Runs
    <3>3. job' = [job EXCEPT ![k] = r]
      BY <1>4, <3>1 DEF StartSync
    <3> QED BY <1>1, <1>3, <3>2, <3>3, RunKept DEF Queue
  <2> QED BY <1>1, <1>4, <2>1, <2>2, <2>3 DEF StartSync, hookVars, TypesInv, RowsType, HooksType
<1>5. CASE Fetch(k)
  <2>1. RunsType'
    <3>1. PICK r : r = [job[k] EXCEPT !.pc = "fetched", !.seen = status[Current(k)],
                           !.clears = Contains(needed, Current(k)), !.upto = head[Current(k)]]
      OBVIOUS
    <3>2. status[Current(k)] \in Statuses /\ head[Current(k)] \in 0..MaxHead
      BY <1>1, <1>3 DEF RowsType
    <3>3. PICK c \in BOOLEAN : c = Contains(needed, Current(k))
      BY DEF Contains
    <3>4. r = [job[k] EXCEPT !.pc = "fetched", !.seen = status[Current(k)],
                             !.clears = c, !.upto = head[Current(k)]]
      BY <3>1, <3>3, Zenon
    <3>5. r \in Runs /\ r.batch = job[k].batch
      BY <1>3, <3>2, <3>4 DEF Runs
    <3>6. job' = [job EXCEPT ![k] = r]
      BY <1>1, <1>5, <3>1 DEF Fetch, RunsType
    <3> QED BY <1>1, <1>3, <3>5, <3>6, RunKept DEF Queue
  <2> QED BY <1>1, <1>5, <2>1 DEF Fetch, itemVars, hookVars, TypesInv, RowsType, HooksType
<1>6. CASE Commit(k)
  <2>1. status' \in [Items -> Statuses]
    BY <1>1, <1>6, AssignKeeps DEF Commit, Statuses
  <2>2. Ordered(needed', others')
    BY <1>1, <1>3, <1>6, ClearKeeps, TouchKeeps DEF Commit
  <2>3. RunsType'
    BY <1>1, <1>2, <1>6, NextItemKeeps DEF Commit
  <2>4. cursor' \in [Items -> 0..MaxHead] /\ synced' \in [Items -> {"never", "recent", "stale"}]
    BY <1>1, <1>3, <1>6 DEF Commit, RowsType, Runs
  <2> QED BY <1>1, <1>6, <2>1, <2>2, <2>3, <2>4 DEF Commit, hookVars, TypesInv, RowsType, HooksType
<1>7. CASE RecordFailure(k)
  <2>1. status' \in [Items -> Statuses]
    BY <1>1, <1>7 DEF RecordFailure, RowsType, Statuses
  <2>2. Ordered(needed', others')
    BY <1>1, <1>3, <1>7, RequestKeeps DEF RecordFailure
  <2>3. RunsType'
    BY <1>1, <1>2, <1>7, NextItemKeeps DEF RecordFailure
  <2> QED BY <1>1, <1>7, <2>1, <2>2, <2>3 DEF RecordFailure, hookVars, TypesInv, RowsType, HooksType
<1>8. CASE RecordReauth(k)
  <2>1. status' \in [Items -> Statuses]
    BY <1>1, <1>8 DEF RecordReauth, RowsType, Statuses
  <2>2. Ordered(needed', others')
    BY <1>1, <1>3, <1>8, ClearKeeps DEF RecordReauth
  <2>3. RunsType'
    BY <1>1, <1>2, <1>8, NextItemKeeps DEF RecordReauth
  <2> QED BY <1>1, <1>8, <2>1, <2>2, <2>3 DEF RecordReauth, hookVars, TypesInv, RowsType, HooksType
<1> QED BY <1>4, <1>5, <1>6, <1>7, <1>8 DEF SyncStep

\* Whatever webhooks, jobs, failures and aborted batches do to it, the order the
\* jobs select from holds every Item exactly once, a batch takes none twice, and
\* the rows have their types: for any finite number of Items, batch size and bound.
THEOREM QueuesAreWhole == Spec => []TypeOK
<1>1. TypesInv /\ [Next]_vars => TypesInv'
  <2> SUFFICES ASSUME TypesInv, [Next]_vars  PROVE TypesInv'
    OBVIOUS
  <2>1. ASSUME NEW i \in Items, PlaidUpdates(i) \/ Stale(i)
        PROVE  TypesInv'
    <3>1. CASE PlaidUpdates(i)
      <4>1. head' \in [Items -> 0..MaxHead]
        BY <3>1, JobsAssumption DEF PlaidUpdates, TypesInv, RowsType
      <4> QED BY <3>1, <4>1 DEF PlaidUpdates, itemVars, hookVars, TypesInv, RowsType, HooksType, RunsType
    <3>2. CASE Stale(i)
      BY <3>2 DEF Stale, hookVars, TypesInv, RowsType, HooksType, RunsType
    <3> QED BY <2>1, <3>1, <3>2
  <2>2. ASSUME NEW u \in Updates, ReceiveWebhook(u) \/ MarkSyncNeeded(u) \/ WebhookCrash(u)
        PROVE  TypesInv'
    BY <2>2, IntakeTypes
  <2>3. ASSUME NEW k \in Jobs, RunJob(k) \/ SyncStep(k) \/ AbortBatch(k)
        PROVE  TypesInv'
    BY <2>3, JobTypes, SyncTypes
  <2>4. CASE UNCHANGED vars
    BY <2>4 DEF vars, itemVars, hookVars, TypesInv, RowsType, HooksType, RunsType
  <2> QED BY <2>1, <2>2, <2>3, <2>4 DEF Next
<1>2. TypesInv => TypeOK
  BY DEF TypesInv, TypeOK, RowsType, HooksType, RunsType, Ordered, Queue
<1> QED BY <1>1, <1>2, TypesStart, PTL DEF Spec
=============================================================================
