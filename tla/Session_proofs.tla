---------------------------- MODULE Session_proofs -----------------------------
(******************************************************************************)
(* Theorems about the clients of MCSession for every set of accounts, people, *)
(* tokens and options, and every number of sign-ins, renewals and faults.     *)
(******************************************************************************)
EXTENDS MCSession, SequenceTheorems, FiniteSetTheorems, TLAPS

--------------------------------------------------------------------------------
(* The phone.                                                                 *)

Ops == [op : {"set"}, uid : People \cup {NoPerson}, token : {NoToken}]
         \cup [op : {"release"}, uid : People, token : {NoToken}]
         \cup [op : {"token"}, uid : {NoPerson}, token : PhoneTokens]

PhoneTypes ==
    /\ sessionOf \in People \cup {NoPerson} /\ activeUid \in {sessionOf, NoPerson}
    /\ loggingOut \in {"no", "release", "reset", "sign out"}
    /\ queue \in Seq(Ops)
    /\ running \in {"none", "deactivate", "register", "forget"}
    /\ observed \in PhoneTokens \cup {NoToken}
    /\ synced \in [People -> PhoneTokens \cup {NoToken}]
    /\ devices \subseteq People \X PhoneTokens /\ unsettled \in BOOLEAN

\* Only the session's own person is set or released, a release is waiting only
\* while a logout awaits it and only token reports are behind it, and after it
\* nobody is set.
QueueInOrder ==
    /\ \A i \in 1..Len(queue) : queue[i].op = "set" => queue[i].uid \in {sessionOf, NoPerson}
    /\ loggingOut # "release" => \A i \in 1..Len(queue) : queue[i].op # "release"
    /\ loggingOut = "release" =>
         \E k \in 1..Len(queue) :
             /\ queue[k].op = "release" /\ queue[k].uid = sessionOf
             /\ \A i \in 1..Len(queue) : i < k => queue[i].op # "release"
             /\ \A i \in 1..Len(queue) : i > k => queue[i].op = "token"
    /\ loggingOut \in {"reset", "sign out"} =>
         \A i \in 1..Len(queue) : queue[i].op = "set" => queue[i].uid = NoPerson

\* A request is under way for the person whose session it is.
RunningForSession ==
    /\ running # "none" => queue # <<>>
    /\ running = "register" => Head1.op # "release"
    /\ running = "forget" => Head1.op = "release" /\ synced[Head1.uid] = NoToken
    /\ running \in {"deactivate", "register"} /\ Head1.op # "release" =>
         /\ activeUid = sessionOf /\ sessionOf # NoPerson /\ observed # NoToken
         /\ Head1 # Op("set", NoPerson, NoToken)
    /\ loggingOut # "no" => sessionOf # NoPerson
    /\ loggingOut = "sign out" => activeUid = NoPerson /\ running = "none"

\* The backend's devices are the session's and have the token remembered for it,
\* or the one that is being registered; none is left once the release is done.
DevicesKnown ==
    ~unsettled =>
      /\ sessionOf = NoPerson => devices = {}
      /\ sessionOf # NoPerson => devices \subseteq {<<sessionOf, synced[sessionOf]>>}
      /\ running = "register" => devices \subseteq {<<sessionOf, observed>>}
      /\ loggingOut \in {"reset", "sign out"} =>
           activeUid = NoPerson /\ running = "none" /\ devices = {}

PhoneInv == PhoneTypes /\ QueueInOrder /\ RunningForSession /\ DevicesKnown

\* The parts of a queue.
LEMMA HeadAndTail ==
    ASSUME NEW q \in Seq(Ops), q # <<>>
    PROVE  /\ Len(q) \in Nat /\ Len(q) >= 1 /\ Head(q) = q[1] /\ Head(q) \in Ops
           /\ Tail(q) \in Seq(Ops) /\ Len(Tail(q)) = Len(q) - 1
           /\ \A i \in 1..Len(Tail(q)) : i + 1 \in 1..Len(q) /\ Tail(q)[i] = q[i + 1]
  <1>1. Len(q) \in Nat /\ Len(q) >= 1
    BY EmptySeq, LenProperties
  <1>2. Head(q) = q[1] /\ Head(q) \in Ops
    BY HeadTailProperties, <1>1
  <1>3. /\ Tail(q) \in Seq(Ops) /\ Len(Tail(q)) = Len(q) - 1
        /\ \A i \in 1..Len(Tail(q)) : Tail(q)[i] = q[i + 1]
    BY HeadTailProperties
  <1> QED BY <1>1, <1>2, <1>3

LEMMA Appended ==
    ASSUME NEW q \in Seq(Ops), NEW o \in Ops
    PROVE  /\ Append(q, o) \in Seq(Ops) /\ Len(Append(q, o)) = Len(q) + 1 /\ Len(q) \in Nat
           /\ \A i \in 1..Len(q) : Append(q, o)[i] = q[i]
           /\ Append(q, o)[Len(q) + 1] = o
           /\ Append(q, o) # <<>>
           /\ q # <<>> => Head(Append(q, o)) = Head(q)
  <1>1. /\ Append(q, o) \in Seq(Ops) /\ Len(Append(q, o)) = Len(q) + 1 /\ Len(q) \in Nat
        /\ \A i \in 1..Len(q) : Append(q, o)[i] = q[i]
        /\ Append(q, o)[Len(q) + 1] = o
    BY AppendProperties, LenProperties
  <1>2. Append(q, o) # <<>>
    BY <1>1, EmptySeq
  <1>3. q # <<>> => Head(Append(q, o)) = Head(q)
    BY <1>1, <1>2, HeadAndTail
  <1> QED BY <1>1, <1>2, <1>3

\* An operation that is neither a release nor sets another person may come last.
LEMMA EnqueueKeepsOrder ==
    ASSUME PhoneTypes, QueueInOrder, NEW o \in Ops, Enqueue(o),
           sessionOf' = sessionOf, loggingOut' = loggingOut,
           o.op = "token"
    PROVE  queue' \in Seq(Ops) /\ QueueInOrder'
  <1>1. /\ queue' \in Seq(Ops) /\ Len(queue') = Len(queue) + 1 /\ Len(queue) \in Nat
        /\ \A i \in 1..Len(queue) : queue'[i] = queue[i]
        /\ queue'[Len(queue) + 1] = o
    BY Appended DEF Enqueue, PhoneTypes
  <1>2. ASSUME loggingOut = "release"
        PROVE  \E k \in 1..Len(queue') :
             /\ queue'[k].op = "release" /\ queue'[k].uid = sessionOf
             /\ \A i \in 1..Len(queue') : i < k => queue'[i].op # "release"
             /\ \A i \in 1..Len(queue') : i > k => queue'[i].op = "token"
    <2>1. PICK k \in 1..Len(queue) :
             /\ queue[k].op = "release" /\ queue[k].uid = sessionOf
             /\ \A i \in 1..Len(queue) : i < k => queue[i].op # "release"
             /\ \A i \in 1..Len(queue) : i > k => queue[i].op = "token"
      BY <1>2 DEF QueueInOrder
    <2>2. k \in 1..Len(queue')
      BY <1>1
    <2> QED BY <1>1, <2>1, <2>2
  <1>3. \A i \in 1..Len(queue') : i \in 1..Len(queue) \/ i = Len(queue) + 1
    BY <1>1
  <1> QED BY <1>1, <1>2, <1>3 DEF QueueInOrder

\* What the end of an operation does to the queue and to the logout.
LEMMA DoneSteps ==
    ASSUME PushAssumption, PhoneTypes, QueueInOrder, queue # <<>>, Done, sessionOf' = sessionOf
    PROVE  /\ queue' \in Seq(Ops) /\ QueueInOrder' /\ running' = "none"
           /\ \/ /\ Head1.op = "release" /\ Head1.uid = sessionOf
                 /\ loggingOut = "release" /\ loggingOut' = "reset"
              \/ /\ Head1 = Op("set", NoPerson, NoToken)
                 /\ loggingOut = "reset" /\ loggingOut' = "sign out"
              \/ /\ Head1.op # "release" /\ loggingOut' = loggingOut
                 /\ loggingOut = "reset" => Head1.op = "token"
  <1> DEFINE q == Tail(queue)
             n == Op("set", NoPerson, NoToken)
  <1>1. /\ Len(queue) \in Nat /\ Len(queue) >= 1 /\ Head1 = queue[1] /\ Head1 \in Ops
        /\ q \in Seq(Ops) /\ Len(q) = Len(queue) - 1
        /\ \A i \in 1..Len(q) : i + 1 \in 1..Len(queue) /\ q[i] = queue[i + 1]
    BY HeadAndTail DEF PhoneTypes, Head1
  <1>2. n \in Ops /\ n.op = "set" /\ n.uid = NoPerson
    BY DEF Op, Ops
  <1>0. 1 \in 1..Len(queue)
    BY <1>1
  <1>3. running' = "none"
    BY DEF Done
  <1>4. CASE loggingOut = "release" /\ Head1.op = "release"
    <2>1. queue' = Append(q, n) /\ loggingOut' = "reset"
      BY <1>4 DEF Done
    <2>2. PICK k \in 1..Len(queue) :
             /\ queue[k].op = "release" /\ queue[k].uid = sessionOf
             /\ \A i \in 1..Len(queue) : i < k => queue[i].op # "release"
             /\ \A i \in 1..Len(queue) : i > k => queue[i].op = "token"
      BY <1>4 DEF QueueInOrder
    <2>3. k = 1
      BY <1>1, <1>4, <2>2
    <2>4. \A i \in 1..Len(q) : q[i].op = "token"
      BY <1>1, <2>2, <2>3
    <2> HIDE DEF q, n
    <2>5. /\ queue' \in Seq(Ops) /\ Len(queue') = Len(q) + 1 /\ Len(q) \in Nat
          /\ \A i \in 1..Len(q) : queue'[i] = q[i]
          /\ queue'[Len(q) + 1] = n
      BY <1>1, <1>2, <2>1, Appended
    <2>6. \A i \in 1..Len(queue') : queue'[i].op = "token" \/ queue'[i] = n
      <3>1. \A i \in 1..Len(queue') : i \in 1..Len(q) \/ i = Len(q) + 1
        BY <2>5
      <3> QED BY <2>4, <2>5, <3>1
    <2>7. QueueInOrder'
      BY <1>2, <2>1, <2>6 DEF QueueInOrder
    <2> QED BY <1>1, <1>3, <1>4, <2>1, <2>2, <2>3, <2>5, <2>7
  <1>5. CASE loggingOut = "reset" /\ Head1 = n
    <2>1. queue' = q /\ loggingOut' = "sign out"
      BY <1>5 DEF Done
    <2>2. QueueInOrder'
      BY <1>1, <1>5, <2>1 DEF QueueInOrder
    <2> QED BY <1>1, <1>3, <1>5, <2>1, <2>2
  <1>6. CASE ~(loggingOut = "release" /\ Head1.op = "release") /\ ~(loggingOut = "reset" /\ Head1 = n)
    <2>1. queue' = q /\ loggingOut' = loggingOut
      <3>1. ~ (\/ Head1.op = "release" /\ loggingOut = "release"
               \/ Head1 = Op("set", NoPerson, NoToken) /\ loggingOut = "reset")
        BY <1>6
      <3>2. queue' = q
        BY <3>1 DEF Done
      <3>3. loggingOut' = loggingOut
        BY <3>1 DEF Done
      <3> QED BY <3>2, <3>3
    <2>2. Head1.op # "release"
      BY <1>0, <1>1, <1>6 DEF QueueInOrder
    <2>3. loggingOut = "reset" => Head1.op = "token"
      <3> SUFFICES ASSUME loggingOut = "reset", Head1.op = "set" PROVE FALSE
        BY <1>1, <2>2 DEF Ops
      <3>1. Head1.uid = NoPerson /\ Head1.token = NoToken
        BY <1>0, <1>1 DEF QueueInOrder, Ops
      <3>2. Head1 = n
        BY <1>1, <3>1 DEF Ops, Op
      <3> QED BY <1>6, <3>2
    <2>4. ASSUME loggingOut = "release"
          PROVE  \E k \in 1..Len(q) :
             /\ q[k].op = "release" /\ q[k].uid = sessionOf
             /\ \A i \in 1..Len(q) : i < k => q[i].op # "release"
             /\ \A i \in 1..Len(q) : i > k => q[i].op = "token"
      <3>1. PICK k \in 1..Len(queue) :
             /\ queue[k].op = "release" /\ queue[k].uid = sessionOf
             /\ \A i \in 1..Len(queue) : i < k => queue[i].op # "release"
             /\ \A i \in 1..Len(queue) : i > k => queue[i].op = "token"
        BY <2>4 DEF QueueInOrder
      <3>2. k # 1
        BY <1>1, <2>2, <3>1
      <3> HIDE DEF q
      <3>3. k - 1 \in 1..Len(q) /\ (k - 1) + 1 = k
        BY <1>1, <3>2
      <3>4. q[k - 1] = queue[k]
        BY <1>1, <3>3
      <3>5. \A i \in 1..Len(q) : (i < k - 1 => i + 1 < k) /\ (i > k - 1 => i + 1 > k)
        OBVIOUS
      <3>6. \A i \in 1..Len(q) : i < k - 1 => q[i].op # "release"
        BY <1>1, <3>1, <3>5
      <3>7. \A i \in 1..Len(q) : i > k - 1 => q[i].op = "token"
        BY <1>1, <3>1, <3>5
      <3> QED BY <3>1, <3>3, <3>4, <3>6, <3>7
    <2>5. QueueInOrder'
      <3> HIDE DEF q
      <3> QED BY <1>1, <2>1, <2>4 DEF QueueInOrder
    <2> QED BY <1>1, <1>3, <2>1, <2>2, <2>3, <2>5
  <1> QED BY <1>4, <1>5, <1>6

\* Done, whatever it was that ended: nothing runs, and the logout goes on.
LEMMA DoneKeeps ==
    ASSUME PushAssumption, PhoneInv, queue # <<>>, Done, sessionOf' = sessionOf,
           activeUid' \in {sessionOf, NoPerson},
           loggingOut = "sign out" => activeUid' = NoPerson,
           Head1 = Op("set", NoPerson, NoToken) => activeUid' = NoPerson
    PROVE  queue' \in Seq(Ops) /\ QueueInOrder' /\ RunningForSession' /\ running' = "none"
           /\ loggingOut' \in {"no", "release", "reset", "sign out"}
  <1>1. /\ queue' \in Seq(Ops) /\ QueueInOrder' /\ running' = "none"
        /\ \/ /\ Head1.op = "release" /\ Head1.uid = sessionOf
              /\ loggingOut = "release" /\ loggingOut' = "reset"
           \/ /\ Head1 = Op("set", NoPerson, NoToken)
              /\ loggingOut = "reset" /\ loggingOut' = "sign out"
           \/ /\ Head1.op # "release" /\ loggingOut' = loggingOut
              /\ loggingOut = "reset" => Head1.op = "token"
    BY DoneSteps DEF PhoneInv
  <1>2. loggingOut' # "no" => sessionOf' # NoPerson
    BY <1>1 DEF PhoneInv, RunningForSession
  <1>3. loggingOut' = "sign out" => activeUid' = NoPerson
    BY <1>1
  <1>4. RunningForSession'
    BY <1>1, <1>2, <1>3 DEF RunningForSession
  <1> QED BY <1>1, <1>4 DEF PhoneInv, PhoneTypes

\* Nobody is signed in, so nothing is running and no logout goes on.
LEMMA SignInKeepsPhone ==
    ASSUME PushAssumption, PhoneInv, PushSignIn
    PROVE  PhoneInv'
  <1>1. PICK u \in People : sessionOf' = u /\ Enqueue(Op("set", u, NoToken))
    BY DEF PushSignIn
  <1> DEFINE o == Op("set", u, NoToken)
  <1>2. o \in Ops /\ o.op = "set" /\ o.uid = u
    BY DEF Ops, Op
  <1> HIDE DEF o
  <1>3. sessionOf = NoPerson /\ loggingOut = "no" /\ u # NoPerson
    BY DEF PushSignIn, PhoneInv, RunningForSession, PushAssumption
  <1>4. UNCHANGED <<loggingOut, running, observed, synced, activeUid, devices, unsettled>>
    BY DEF PushSignIn
  <1>5. /\ queue' \in Seq(Ops) /\ Len(queue') = Len(queue) + 1 /\ Len(queue) \in Nat
        /\ \A i \in 1..Len(queue) : queue'[i] = queue[i]
        /\ queue'[Len(queue) + 1] = o /\ queue' # <<>>
        /\ queue # <<>> => Head(queue') = Head(queue)
    <2>1. queue \in Seq(Ops) /\ queue' = Append(queue, o)
      BY <1>1 DEF Enqueue, PhoneInv, PhoneTypes, o
    <2> QED BY <1>2, <2>1, Appended
  <1>6. PhoneTypes'
    BY <1>1, <1>3, <1>4, <1>5 DEF PhoneInv, PhoneTypes
  <1>7. QueueInOrder'
    <2>1. \A i \in 1..Len(queue') : i \in 1..Len(queue) \/ i = Len(queue) + 1
      BY <1>5
    <2>2. \A i \in 1..Len(queue') :
             queue'[i].op # "release" /\ (queue'[i].op = "set" => queue'[i].uid \in {u, NoPerson})
      BY <1>2, <1>3, <1>5, <2>1 DEF PhoneInv, QueueInOrder
    <2> QED BY <1>1, <1>3, <1>4, <2>2 DEF QueueInOrder
  <1>8. RunningForSession'
    <2>1. (running # "none" => queue # <<>>) /\ running # "register"
      BY <1>3 DEF PhoneInv, RunningForSession
    <2>2. running # "none" => Head1' = Head1
      BY <1>5, <2>1 DEF Head1
    <2>3. running = "deactivate" => Head1.op = "release"
      BY <1>3 DEF PhoneInv, RunningForSession
    <2>4. running = "forget" => Head1.op = "release" /\ synced[Head1.uid] = NoToken
      BY DEF PhoneInv, RunningForSession
    <2>5. loggingOut' = "no" /\ running' = running /\ synced' = synced
      BY <1>3, <1>4
    <2> QED BY <1>5, <2>1, <2>2, <2>3, <2>4, <2>5 DEF RunningForSession
  <1>9. DevicesKnown'
    BY <1>1, <1>3, <1>4 DEF PhoneInv, DevicesKnown, RunningForSession
  <1> QED BY <1>6, <1>7, <1>8, <1>9 DEF PhoneInv

LEMMA LogoutPressedKeepsPhone ==
    ASSUME PushAssumption, PhoneInv, LogoutPressed
    PROVE  PhoneInv'
  <1> DEFINE o == Op("release", sessionOf, NoToken)
  <1>1. sessionOf \in People /\ loggingOut = "no" /\ loggingOut' = "release"
    BY DEF LogoutPressed, PhoneInv, PhoneTypes
  <1>2. o \in Ops /\ o.op = "release" /\ o.uid = sessionOf
    BY <1>1 DEF Ops, Op
  <1>3. UNCHANGED <<sessionOf, running, observed, synced, activeUid, devices, unsettled>>
    BY DEF LogoutPressed
  <1>4. /\ queue' \in Seq(Ops) /\ Len(queue') = Len(queue) + 1 /\ Len(queue) \in Nat
        /\ \A i \in 1..Len(queue) : queue'[i] = queue[i]
        /\ queue'[Len(queue) + 1] = o /\ queue' # <<>>
        /\ queue # <<>> => Head(queue') = Head(queue)
    BY <1>2, Appended DEF LogoutPressed, Enqueue, PhoneInv, PhoneTypes
  <1> HIDE DEF o
  <1>5. PhoneTypes'
    BY <1>1, <1>3, <1>4 DEF PhoneInv, PhoneTypes
  <1>6. QueueInOrder'
    <2>1. \A i \in 1..Len(queue') : i \in 1..Len(queue) \/ i = Len(queue) + 1
      BY <1>4
    <2>2. \A i \in 1..Len(queue) : queue'[i].op # "release"
      BY <1>1, <1>4 DEF PhoneInv, QueueInOrder
    <2>3. Len(queue) + 1 \in 1..Len(queue')
      BY <1>4
    <2>4. \A i \in 1..Len(queue') : i < Len(queue) + 1 => i \in 1..Len(queue)
      BY <1>4
    <2>5. \A i \in 1..Len(queue') : ~(i > Len(queue) + 1)
      BY <1>4
    <2>6. \A i \in 1..Len(queue') : queue'[i].op = "set" => queue'[i].uid \in {sessionOf, NoPerson}
      BY <1>2, <1>4, <2>1 DEF PhoneInv, QueueInOrder
    <2>7. \E k \in 1..Len(queue') :
             /\ queue'[k].op = "release" /\ queue'[k].uid = sessionOf
             /\ \A i \in 1..Len(queue') : i < k => queue'[i].op # "release"
             /\ \A i \in 1..Len(queue') : i > k => queue'[i].op = "token"
      BY <1>2, <1>4, <2>2, <2>3, <2>4, <2>5
    <2> QED BY <1>1, <1>3, <2>6, <2>7 DEF QueueInOrder
  <1>7. RunningForSession'
    <2>1. running # "none" => queue # <<>> /\ Head1' = Head1
      BY <1>4 DEF PhoneInv, RunningForSession, Head1
    <2>2. sessionOf # NoPerson
      BY DEF LogoutPressed
    <2> QED BY <1>1, <1>3, <1>4, <2>1, <2>2 DEF PhoneInv, RunningForSession
  <1>8. DevicesKnown'
    BY <1>1, <1>3 DEF PhoneInv, DevicesKnown
  <1> QED BY <1>5, <1>6, <1>7, <1>8 DEF PhoneInv

LEMMA SessionEndsKeepsPhone ==
    ASSUME PushAssumption, PhoneInv, SessionEnds
    PROVE  PhoneInv'
  <1> DEFINE o == Op("set", NoPerson, NoToken)
  <1>1. /\ loggingOut = "sign out" /\ loggingOut' = "no" /\ sessionOf' = NoPerson
        /\ activeUid = NoPerson /\ running = "none"
        /\ UNCHANGED <<running, observed, synced, activeUid, devices, unsettled>>
    BY DEF SessionEnds, PhoneInv, RunningForSession
  <1>2. o \in Ops /\ o.op = "set" /\ o.uid = NoPerson
    BY DEF Ops, Op
  <1>3. /\ queue' \in Seq(Ops) /\ Len(queue') = Len(queue) + 1 /\ Len(queue) \in Nat
        /\ \A i \in 1..Len(queue) : queue'[i] = queue[i]
        /\ queue'[Len(queue) + 1] = o /\ queue' # <<>>
    <2>1. queue \in Seq(Ops) /\ queue' = Append(queue, o)
      BY DEF SessionEnds, Enqueue, PhoneInv, PhoneTypes
    <2> HIDE DEF o
    <2> QED BY <1>2, <2>1, Appended
  <1> HIDE DEF o
  <1>4. PhoneTypes'
    BY <1>1, <1>3 DEF PhoneInv, PhoneTypes
  <1>5. QueueInOrder'
    <2>1. \A i \in 1..Len(queue') : i \in 1..Len(queue) \/ i = Len(queue) + 1
      BY <1>3
    <2>2. \A i \in 1..Len(queue') :
             queue'[i].op # "release" /\ (queue'[i].op = "set" => queue'[i].uid = NoPerson)
      BY <1>1, <1>2, <1>3, <2>1 DEF PhoneInv, QueueInOrder
    <2> QED BY <1>1, <2>2 DEF QueueInOrder
  <1>6. RunningForSession'
    BY <1>1 DEF RunningForSession
  <1>7. DevicesKnown'
    BY <1>1 DEF PhoneInv, DevicesKnown
  <1> QED BY <1>4, <1>5, <1>6, <1>7 DEF PhoneInv

LEMMA TokenArrivesKeepsPhone ==
    ASSUME PushAssumption, PhoneInv, TokenArrives
    PROVE  PhoneInv'
  <1>1. PICK t \in PhoneTokens : Enqueue(Op("token", NoPerson, t))
    BY DEF TokenArrives
  <1> DEFINE o == Op("token", NoPerson, t)
  <1>2. o \in Ops /\ o.op = "token"
    BY DEF Ops, Op
  <1>3. UNCHANGED <<sessionOf, loggingOut, running, observed, synced, activeUid, devices, unsettled>>
    BY DEF TokenArrives
  <1>4. queue' \in Seq(Ops) /\ QueueInOrder'
    <2> HIDE DEF o
    <2> QED BY <1>1, <1>2, <1>3, EnqueueKeepsOrder DEF PhoneInv, o
  <1>5. queue' # <<>> /\ (queue # <<>> => Head(queue') = Head(queue))
    <2> HIDE DEF o
    <2> QED BY <1>1, <1>2, Appended DEF PhoneInv, PhoneTypes, Enqueue, o
  <1>6. PhoneTypes' /\ DevicesKnown'
    BY <1>3, <1>4 DEF PhoneInv, PhoneTypes, DevicesKnown
  <1>7. RunningForSession'
    BY <1>3, <1>5 DEF PhoneInv, RunningForSession, Head1
  <1> QED BY <1>4, <1>6, <1>7 DEF PhoneInv

\* The operation at the head; a release there is the one the logout awaits.
LEMMA HeadKnown ==
    ASSUME PhoneInv, queue # <<>>
    PROVE  /\ Head1 \in Ops
           /\ Head1.op = "set" => Head1.uid \in {sessionOf, NoPerson} /\ Head1.token = NoToken
           /\ Head1.op = "set" /\ loggingOut \in {"reset", "sign out"} => Head1.uid = NoPerson
           /\ Head1.op = "token" => Head1.token \in PhoneTokens
           /\ Head1.op = "release" => loggingOut = "release" /\ Head1.uid = sessionOf
  <1>1. Len(queue) \in Nat /\ 1 \in 1..Len(queue) /\ Head1 = queue[1] /\ Head1 \in Ops
    <2>1. queue \in Seq(Ops)
      BY DEF PhoneInv, PhoneTypes
    <2>2. Len(queue) \in Nat /\ Len(queue) >= 1 /\ Head(queue) = queue[1] /\ Head(queue) \in Ops
      BY <2>1, HeadAndTail
    <2> QED BY <2>2 DEF Head1
  <1>2. Head1.op = "set" => Head1.uid \in {sessionOf, NoPerson} /\ Head1.token = NoToken
    BY <1>1 DEF PhoneInv, QueueInOrder, Ops
  <1>3. Head1.op = "set" /\ loggingOut \in {"reset", "sign out"} => Head1.uid = NoPerson
    BY <1>1 DEF PhoneInv, QueueInOrder
  <1>4. Head1.op = "token" => Head1.token \in PhoneTokens
    BY <1>1 DEF Ops
  <1>5. ASSUME Head1.op = "release"
        PROVE  loggingOut = "release" /\ Head1.uid = sessionOf
    <2>1. loggingOut = "release"
      BY <1>1, <1>5 DEF PhoneInv, QueueInOrder
    <2>2. PICK k \in 1..Len(queue) :
             /\ queue[k].op = "release" /\ queue[k].uid = sessionOf
             /\ \A i \in 1..Len(queue) : i > k => queue[i].op = "token"
             /\ \A i \in 1..Len(queue) : i < k => queue[i].op # "release"
      BY <2>1 DEF PhoneInv, QueueInOrder
    <2>3. k = 1
      BY <1>1, <1>5, <2>2
    <2> QED BY <1>1, <2>1, <2>2, <2>3
  <1> QED BY <1>1, <1>2, <1>3, <1>4, <1>5

LEMMA BeginKeepsPhone ==
    ASSUME PushAssumption, PhoneInv, Begin
    PROVE  PhoneInv'
  <1>1. queue # <<>> /\ running = "none" /\ UNCHANGED <<sessionOf, synced, devices, unsettled>>
    BY DEF Begin
  <1>2. /\ Head1 \in Ops
        /\ Head1.op = "set" => Head1.uid \in {sessionOf, NoPerson} /\ Head1.token = NoToken
        /\ Head1.op = "set" /\ loggingOut \in {"reset", "sign out"} => Head1.uid = NoPerson
        /\ Head1.op = "token" => Head1.token \in PhoneTokens
        /\ Head1.op = "release" => loggingOut = "release" /\ Head1.uid = sessionOf
    BY <1>1, HeadKnown
  <1>3. /\ activeUid' = IF Head1.op = "set" THEN Head1.uid ELSE activeUid
        /\ observed' = IF Head1.op = "token" THEN Head1.token ELSE observed
    BY DEF Begin
  <1>4. activeUid' \in {sessionOf, NoPerson} /\ observed' \in PhoneTokens \cup {NoToken}
    BY <1>2, <1>3 DEF PhoneInv, PhoneTypes
  <1>5. /\ loggingOut = "sign out" => activeUid' = NoPerson
        /\ ~unsettled /\ loggingOut = "reset" => activeUid' = NoPerson
        /\ Head1 = Op("set", NoPerson, NoToken) => activeUid' = NoPerson
    <2>1. Head1 = Op("set", NoPerson, NoToken) => Head1.op = "set" /\ Head1.uid = NoPerson
      BY DEF Op
    <2>2. loggingOut = "sign out" \/ (~unsettled /\ loggingOut = "reset") => activeUid = NoPerson
      BY DEF PhoneInv, RunningForSession, DevicesKnown
    <2> QED BY <1>2, <1>3, <2>1, <2>2
  <1>6. CASE Head1.op = "release"
    <2>1. UNCHANGED <<queue, loggingOut, activeUid, observed>>
      BY <1>3, <1>6 DEF Begin
    <2>2. running' = IF synced[Head1.uid] = NoToken THEN "forget" ELSE "deactivate"
      BY <1>6 DEF Begin
    <2>3. PhoneTypes'
      BY <1>1, <2>1, <2>2 DEF PhoneInv, PhoneTypes
    <2>4. QueueInOrder'
      BY <1>1, <2>1 DEF PhoneInv, QueueInOrder
    <2>5. RunningForSession'
      BY <1>1, <1>2, <1>6, <2>1, <2>2 DEF PhoneInv, RunningForSession, Head1
    <2>6. DevicesKnown'
      BY <1>1, <1>2, <1>6, <2>1, <2>2 DEF PhoneInv, DevicesKnown
    <2> QED BY <2>3, <2>4, <2>5, <2>6 DEF PhoneInv
  <1>7. CASE Head1.op # "release" /\ Syncing(activeUid', observed') = "none"
    <2>1. Done
      BY <1>7 DEF Begin
    <2>2. /\ queue' \in Seq(Ops) /\ QueueInOrder' /\ RunningForSession' /\ running' = "none"
          /\ loggingOut' \in {"no", "release", "reset", "sign out"}
      BY <1>1, <1>4, <1>5, <2>1, DoneKeeps
    <2>3. \/ loggingOut' = loggingOut
          \/ loggingOut = "reset" /\ loggingOut' = "sign out"
      BY <1>1, <1>7, <2>1, DoneSteps DEF PhoneInv
    <2>4. PhoneTypes'
      BY <1>1, <1>4, <2>2 DEF PhoneInv, PhoneTypes
    <2>5. DevicesKnown'
      BY <1>1, <1>5, <2>2, <2>3 DEF PhoneInv, DevicesKnown
    <2> QED BY <2>2, <2>4, <2>5 DEF PhoneInv
  <1>8. CASE Head1.op # "release" /\ Syncing(activeUid', observed') # "none"
    <2>1. running' = Syncing(activeUid', observed') /\ UNCHANGED <<queue, loggingOut>>
      BY <1>8 DEF Begin
    <2>2. /\ activeUid' = sessionOf /\ sessionOf # NoPerson /\ observed' # NoToken
          /\ running' = IF synced[sessionOf] \notin {NoToken, observed'}
                        THEN "deactivate" ELSE "register"
      BY <1>4, <1>8, <2>1 DEF Syncing
    <2>3. loggingOut # "sign out" /\ (~unsettled => loggingOut # "reset")
          /\ Head1 # Op("set", NoPerson, NoToken)
      BY <1>5, <2>2
    <2>4. PhoneTypes'
      BY <1>1, <1>4, <2>1, <2>2 DEF PhoneInv, PhoneTypes
    <2>5. QueueInOrder'
      BY <1>1, <2>1 DEF PhoneInv, QueueInOrder
    <2>6. RunningForSession'
      <3>1. Head1' = Head1
        BY <2>1 DEF Head1
      <3> QED BY <1>1, <1>8, <2>1, <2>2, <2>3, <3>1 DEF PhoneInv, RunningForSession
    <2>7. DevicesKnown'
      <3>1. ASSUME ~unsettled, running' = "register"
            PROVE  devices \subseteq {<<sessionOf, observed'>>}
        <4>1. devices \subseteq {<<sessionOf, synced[sessionOf]>>} /\ devices \subseteq People \X PhoneTokens
          BY <2>2, <3>1 DEF PhoneInv, DevicesKnown, PhoneTypes
        <4>2. synced[sessionOf] \in {NoToken, observed'}
          BY <2>2, <3>1
        <4> QED BY <4>1, <4>2 DEF PushAssumption
      <3> QED BY <1>1, <2>1, <2>2, <2>3, <3>1 DEF PhoneInv, DevicesKnown
    <2> QED BY <2>4, <2>5, <2>6, <2>7 DEF PhoneInv
  <1> QED BY <1>6, <1>7, <1>8

LEMMA RequestFailsKeepsPhone ==
    ASSUME PushAssumption, PhoneInv, RequestFails
    PROVE  PhoneInv'
  <1>1. /\ running \in {"deactivate", "register"} /\ unsettled' = TRUE
        /\ UNCHANGED <<sessionOf, observed, synced, activeUid, devices>>
    BY DEF RequestFails
  <1>2. queue # <<>> /\ loggingOut # "sign out"
    BY <1>1 DEF PhoneInv, RunningForSession
  <1>3. DevicesKnown'
    BY <1>1 DEF DevicesKnown
  <1>4. CASE running = "deactivate" /\ Head1.op # "release"
    <2>1. running' = "register" /\ UNCHANGED <<queue, loggingOut>>
      BY <1>4 DEF RequestFails
    <2>2. PhoneTypes' /\ QueueInOrder'
      BY <1>1, <2>1 DEF PhoneInv, PhoneTypes, QueueInOrder
    <2>3. RunningForSession'
      <3>1. Head1' = Head1
        BY <2>1 DEF Head1
      <3> QED BY <1>1, <1>2, <1>4, <2>1, <3>1 DEF PhoneInv, RunningForSession
    <2> QED BY <1>3, <2>2, <2>3 DEF PhoneInv
  <1>5. CASE ~(running = "deactivate" /\ Head1.op # "release")
    <2>1. Done
      BY <1>5 DEF RequestFails
    <2>2. Head1 # Op("set", NoPerson, NoToken)
      <3>1. Op("set", NoPerson, NoToken).op # "release"
        BY DEF Op
      <3> QED BY <1>1, <3>1 DEF PhoneInv, RunningForSession
    <2>3. /\ queue' \in Seq(Ops) /\ QueueInOrder' /\ RunningForSession' /\ running' = "none"
          /\ loggingOut' \in {"no", "release", "reset", "sign out"}
      BY <1>1, <1>2, <2>1, <2>2, DoneKeeps DEF PhoneInv, PhoneTypes
    <2>4. PhoneTypes'
      BY <1>1, <2>3 DEF PhoneInv, PhoneTypes
    <2> QED BY <1>3, <2>3, <2>4 DEF PhoneInv
  <1> QED BY <1>4, <1>5

\* The previous token of the session was its only device.
LEMMA StaleDeactivatedKeepsPhone ==
    ASSUME PushAssumption, PhoneInv, StaleDeactivated
    PROVE  PhoneInv'
  <1>1. /\ running = "deactivate" /\ Head1.op # "release" /\ running' = "register"
        /\ devices' = WithoutDevice(sessionOf, synced[activeUid])
        /\ UNCHANGED <<sessionOf, loggingOut, queue, observed, synced, activeUid, unsettled>>
    BY DEF StaleDeactivated
  <1>2. activeUid = sessionOf /\ sessionOf # NoPerson /\ loggingOut # "sign out"
    BY <1>1 DEF PhoneInv, RunningForSession
  <1>3. Head1' = Head1
    BY <1>1 DEF Head1
  <1>4. RunningForSession'
    BY <1>1, <1>2, <1>3 DEF PhoneInv, RunningForSession
  <1>5. PhoneTypes' /\ QueueInOrder'
    BY <1>1 DEF PhoneInv, PhoneTypes, QueueInOrder, WithoutDevice
  <1>6. DevicesKnown'
    <2> SUFFICES ASSUME ~unsettled
                 PROVE  devices' = {} /\ loggingOut \notin {"reset", "sign out"}
      BY <1>1, <1>2 DEF DevicesKnown
    <2>1. devices \subseteq {<<sessionOf, synced[sessionOf]>>}
      BY <1>2 DEF PhoneInv, DevicesKnown
    <2> QED BY <1>1, <1>2, <2>1 DEF PhoneInv, DevicesKnown, WithoutDevice
  <1> QED BY <1>4, <1>5, <1>6 DEF PhoneInv

LEMMA RegisteredKeepsPhone ==
    ASSUME PushAssumption, PhoneInv, Registered
    PROVE  PhoneInv'
  <1>1. /\ running = "register" /\ Done
        /\ devices' = WithDevice(sessionOf, observed)
        /\ synced' = [synced EXCEPT ![activeUid] = observed]
        /\ UNCHANGED <<sessionOf, observed, activeUid, unsettled>>
    BY DEF Registered
  <1>2. /\ Head1.op # "release" /\ queue # <<>> /\ loggingOut # "sign out"
        /\ activeUid = sessionOf /\ sessionOf \in People /\ observed \in PhoneTokens
        /\ Head1 # Op("set", NoPerson, NoToken)
    BY <1>1 DEF PhoneInv, PhoneTypes, RunningForSession
  <1>3. /\ queue' \in Seq(Ops) /\ QueueInOrder' /\ RunningForSession' /\ running' = "none"
        /\ loggingOut' \in {"no", "release", "reset", "sign out"}
    BY <1>1, <1>2, DoneKeeps DEF PhoneInv, PhoneTypes
  <1>4. loggingOut' = loggingOut
    BY <1>1, <1>2, DoneSteps DEF PhoneInv
  <1>5. synced' \in [People -> PhoneTokens \cup {NoToken}] /\ synced'[sessionOf] = observed
    BY <1>1, <1>2 DEF PhoneInv, PhoneTypes
  <1>6. devices' \subseteq People \X PhoneTokens
    <2>1. <<sessionOf, observed>> \in People \X PhoneTokens
      BY <1>2
    <2> QED BY <1>1, <2>1 DEF PhoneInv, PhoneTypes, WithDevice
  <1>7. PhoneTypes'
    BY <1>1, <1>3, <1>5, <1>6 DEF PhoneInv, PhoneTypes
  <1>8. DevicesKnown'
    <2> SUFFICES ASSUME ~unsettled
                 PROVE  /\ devices' \subseteq {<<sessionOf, observed>>}
                        /\ loggingOut \notin {"reset", "sign out"}
      BY <1>1, <1>2, <1>3, <1>4, <1>5 DEF DevicesKnown, PushAssumption
    <2>1. devices \subseteq {<<sessionOf, observed>>} /\ loggingOut \notin {"reset", "sign out"}
      BY <1>1 DEF PhoneInv, DevicesKnown
    <2> QED BY <1>1, <2>1 DEF WithDevice
  <1> QED BY <1>3, <1>7, <1>8 DEF PhoneInv

\* The released token was the session's only device.
LEMMA ReleasedKeepsPhone ==
    ASSUME PushAssumption, PhoneInv, Released
    PROVE  PhoneInv'
  <1>1. /\ running \in {"deactivate", "forget"} /\ Head1.op = "release" /\ Done
        /\ devices' = IF running = "deactivate" THEN WithoutDevice(sessionOf, synced[Head1.uid])
                      ELSE devices
        /\ synced' = [synced EXCEPT ![Head1.uid] = NoToken]
        /\ activeUid' = IF activeUid = Head1.uid THEN NoPerson ELSE activeUid
        /\ UNCHANGED <<sessionOf, observed, unsettled>>
    BY DEF Released
  <1>2. queue # <<>>
    BY <1>1 DEF PhoneInv, RunningForSession
  <1>3. loggingOut = "release" /\ Head1.uid = sessionOf /\ sessionOf \in People
    BY <1>1, <1>2, HeadKnown DEF PhoneInv, PhoneTypes, RunningForSession
  <1>4. activeUid' = NoPerson
    BY <1>1, <1>3 DEF PhoneInv, PhoneTypes
  <1>5. /\ queue' \in Seq(Ops) /\ QueueInOrder' /\ RunningForSession' /\ running' = "none"
        /\ loggingOut' \in {"no", "release", "reset", "sign out"}
    BY <1>1, <1>2, <1>4, DoneKeeps
  <1>6. synced' \in [People -> PhoneTokens \cup {NoToken}]
    BY <1>1 DEF PhoneInv, PhoneTypes
  <1>7. PhoneTypes'
    BY <1>1, <1>4, <1>5, <1>6 DEF PhoneInv, PhoneTypes, WithoutDevice
  <1>8. DevicesKnown'
    <2> SUFFICES ASSUME ~unsettled PROVE devices' = {}
      BY <1>1, <1>4, <1>5 DEF DevicesKnown
    <2>1. devices \subseteq {<<sessionOf, synced[sessionOf]>>} /\ devices \subseteq People \X PhoneTokens
      BY <1>3 DEF PhoneInv, PhoneTypes, DevicesKnown, PushAssumption
    <2>2. running = "forget" => synced[sessionOf] = NoToken
      BY <1>3 DEF PhoneInv, RunningForSession
    <2> QED BY <1>1, <1>3, <2>1, <2>2 DEF WithoutDevice, PushAssumption
  <1> QED BY <1>5, <1>7, <1>8 DEF PhoneInv

LEMMA KilledKeepsPhone ==
    ASSUME PushAssumption, PhoneInv, Killed
    PROVE  PhoneInv'
  <1> DEFINE o == Op("set", sessionOf, NoToken)
  <1>1. /\ queue' = <<o>> /\ running' = "none" /\ loggingOut' = "no" /\ activeUid' = NoPerson
        /\ UNCHANGED <<sessionOf, observed, synced>>
        /\ unsettled' = (unsettled \/ running # "none")
    BY DEF Killed
  <1>2. o \in Ops /\ o.op = "set" /\ o.uid = sessionOf
    BY DEF Ops, Op, PhoneInv, PhoneTypes
  <1>3. /\ devices' \in {devices, WithDevice(sessionOf, observed)}
        /\ running # "register" => devices' = devices
    BY DEF Killed
  <1>4. running = "register" => sessionOf \in People /\ observed \in PhoneTokens
    BY DEF PhoneInv, PhoneTypes, RunningForSession
  <1>5. devices' \subseteq People \X PhoneTokens
    <2>1. CASE running = "register"
      <3>1. <<sessionOf, observed>> \in People \X PhoneTokens
        BY <1>4, <2>1
      <3> QED BY <1>3, <3>1 DEF PhoneInv, PhoneTypes, WithDevice
    <2>2. CASE running # "register"
      BY <1>3, <2>2 DEF PhoneInv, PhoneTypes
    <2> QED BY <2>1, <2>2
  <1> HIDE DEF o
  <1>6. queue' \in Seq(Ops) /\ Len(queue') = 1 /\ queue'[1] = o
    BY <1>1, <1>2
  <1>7. PhoneTypes'
    BY <1>1, <1>5, <1>6 DEF PhoneInv, PhoneTypes
  <1>8. QueueInOrder' /\ RunningForSession'
    BY <1>1, <1>2, <1>6 DEF QueueInOrder, RunningForSession
  <1>9. DevicesKnown'
    BY <1>1, <1>3 DEF PhoneInv, DevicesKnown
  <1> QED BY <1>7, <1>8, <1>9 DEF PhoneInv

LEMMA PhoneInit == PushAssumption /\ PushInit => PhoneInv
  <1> SUFFICES ASSUME PushAssumption, PushInit PROVE PhoneInv
    OBVIOUS
  <1> DEFINE o == Op("set", NoPerson, NoToken)
  <1>1. queue = <<o>>
    BY DEF PushInit
  <1>2. o \in Ops /\ o.op = "set" /\ o.uid = NoPerson
    BY DEF Ops, Op
  <1> HIDE DEF o
  <1>3. queue \in Seq(Ops) /\ Len(queue) = 1 /\ queue[1] = o
    BY <1>1, <1>2
  <1>4. PhoneTypes
    BY <1>3 DEF PushInit, PhoneTypes
  <1>5. QueueInOrder /\ RunningForSession /\ DevicesKnown
    BY <1>2, <1>3 DEF PushInit, QueueInOrder, RunningForSession, DevicesKnown
  <1> QED BY <1>4, <1>5 DEF PhoneInv

LEMMA PhoneSteps == PushAssumption /\ PhoneInv /\ [PushNext]_pushVars => PhoneInv'
  <1> SUFFICES ASSUME PushAssumption, PhoneInv, [PushNext]_pushVars PROVE PhoneInv'
    OBVIOUS
  <1>1. CASE UNCHANGED pushVars
    BY <1>1 DEF pushVars, PhoneInv, PhoneTypes, QueueInOrder, RunningForSession, DevicesKnown,
                Head1
  <1>2. CASE PushNext
    BY <1>2, SignInKeepsPhone, LogoutPressedKeepsPhone, SessionEndsKeepsPhone,
       TokenArrivesKeepsPhone, BeginKeepsPhone, RequestFailsKeepsPhone,
       StaleDeactivatedKeepsPhone, RegisteredKeepsPhone, ReleasedKeepsPhone, KilledKeepsPhone
       DEF PushNext
  <1> QED BY <1>1, <1>2

LEMMA PhoneInvGives == PhoneInv => PushTypeOK /\ SignedOutIsSilent
  <1> SUFFICES ASSUME PhoneInv PROVE PushTypeOK /\ SignedOutIsSilent
    OBVIOUS
  <1>1. \A i \in 1..Len(queue) : queue[i] \in Ops
    <2>1. queue \in Seq(Ops)
      BY DEF PhoneInv, PhoneTypes
    <2> QED BY <2>1
  <1>2. \A o \in Ops : o.op \in {"set", "release", "token"} /\ o.uid \in People \cup {NoPerson}
    BY DEF Ops
  <1>3. {sessionOf, activeUid} \subseteq People \cup {NoPerson}
    BY DEF PhoneInv, PhoneTypes
  <1>4. PushTypeOK
    BY <1>1, <1>2, <1>3 DEF PhoneInv, PhoneTypes, RunningForSession, PushTypeOK
  <1>5. SignedOutIsSilent
    BY DEF PhoneInv, DevicesKnown, SignedOutIsSilent
  <1> QED BY <1>4, <1>5

--------------------------------------------------------------------------------
(* The tab.                                                                   *)

Callers == Users \cup {None}
Stands == [pc : Steps, uid : Callers]

\* Where a call can stand while it is on its way.
OnItsWay == {st \in Stands : st.pc \notin {"idle", "await"}}

\* A logout never waits for a profile, and an account is created for someone.
Somebodys(st) == st.pc = "create" => st.uid \in Users
CallsPlaced == flow["logout"].pc # "await" /\ Somebodys(flow["signup"])

\* After a logout, a failed refresh or a deleted account nobody is shown, and the
\* spinner has its cause.
TabInv ==
    /\ TypeOK /\ SpinnerHasCause /\ CallsPlaced
    /\ signedOut => user = None

TabTypes ==
    /\ session \in Callers /\ nativeLoad \in Callers /\ user \in Callers
    /\ profile \in Callers /\ created \in Callers
    /\ loading \in BOOLEAN /\ backoff \in BOOLEAN /\ gate \in BOOLEAN /\ signedOut \in BOOLEAN
    /\ waiting \in Nat /\ flow \in [Flows -> Stands]
    /\ accounts \subseteq Users /\ verified \subseteq Users
    /\ used \in [DOMAIN Bounds -> Nat]

LEMMA TypesOneByOne == (TypeOK <=> TabTypes) /\ (TypeOK' <=> TabTypes')
  <1>1. TypeOK <=> TabTypes
    BY DEF TypeOK, TabTypes, Callers, Stands
  <1>2. TypeOK' <=> TabTypes'
    BY DEF TypeOK, TabTypes, Callers, Stands
  <1> QED BY <1>1, <1>2

LEMMA StandsAre ==
    /\ Idle \in Stands /\ Idle.pc # "await" /\ Somebodys(Idle)
    /\ \A st \in OnItsWay : st \in Stands /\ st # Idle /\ st.pc # "await"
    /\ \A p \in Steps, u \in Callers : At(p, u) \in Stands /\ At(p, u).pc = p /\ At(p, u).uid = u
    /\ \A p \in Steps \ {"idle", "await"}, u \in Callers : At(p, u) \in OnItsWay
    /\ At("await", None) \in Stands /\ At("await", None) # Idle /\ Somebodys(At("await", None))
  BY DEF Somebodys, Idle, At, Stands, OnItsWay, Steps, Callers

LEMMA CallsAreOnTheirWay ==
    ASSUME NEW p \in Steps \ {"idle", "await"}, NEW s \in Callers, NEW c \in Calls(p, s)
    PROVE  c \in OnItsWay
  <1>1. "token" \in Steps \ {"idle", "await"}
    BY DEF Steps
  <1> QED BY <1>1, StandsAre DEF Calls

LEMMA FetchingCalls ==
    ASSUME NEW fl \in [Flows -> Stands], NEW s \in Callers, NEW g \in Fetching(fl, s)
    PROVE  g \in [Flows -> Stands] /\ \A f \in Flows \ {"profile"} : g[f] = fl[f]
  <1>1. CASE flow["profile"] # Idle
    BY <1>1 DEF Fetching
  <1>2. CASE flow["profile"] = Idle
    <2>1. PICK c \in Calls("request", s) : g = [fl EXCEPT !["profile"] = c]
      BY <1>2 DEF Fetching
    <2>2. c \in Stands
      BY <2>1, CallsAreOnTheirWay, StandsAre DEF Steps
    <2> QED BY <2>1, <2>2
  <1> QED BY <1>1, <1>2

LEMMA AfterTokenIsOnItsWay ==
    ASSUME NEW f \in Flows, NEW p \in AfterToken[f]
    PROVE  p \in Steps \ {"idle", "await", "create"}
  BY DEF Flows, AfterToken, Steps

\* Whatever keeps the spinner and its cause, keeps it for a reason.
LEMMA StillBusy ==
    ASSUME TabInv, loading' => loading, waiting' = waiting,
           \A f \in {"login", "signup", "logout"} : flow[f] # Idle => flow'[f] # Idle
    PROVE  SpinnerHasCause'
  BY DEF TabInv, SpinnerHasCause, Busy

LEMMA Using ==
    ASSUME TypeOK, NEW x \in DOMAIN Bounds, Use(x)
    PROVE  used' \in [DOMAIN Bounds -> Nat]
  BY DEF TypeOK, Use

LEMMA BoundNames == {"signIns", "logouts", "pages", "faults"} = DOMAIN Bounds
  BY DEF Bounds

\* The listener shows the account that signed in.
LEMMA SignedInSteps ==
    ASSUME TabInv, NEW u \in Callers, NEW fl \in [Flows -> Stands], SignedInAs(u, fl)
    PROVE  /\ session' \in Callers /\ user' \in Callers /\ profile' \in Callers
           /\ loading' \in BOOLEAN /\ waiting' \in Nat /\ backoff' = backoff
           /\ signedOut' = FALSE /\ flow' \in [Flows -> Stands]
           /\ \A f \in Flows \ {"profile"} : flow'[f] = fl[f]
           /\ loading' => loading /\ (waiting' = waiting \/ waiting' > 0)
  <1>0. /\ session' = u /\ user' = u /\ signedOut' = FALSE /\ backoff' = backoff
        /\ waiting \in Nat /\ loading \in BOOLEAN /\ profile \in Callers
    BY DEF SignedInAs, TabInv, TypeOK, Callers
  <1>1. CASE profile = u
    BY <1>0, <1>1 DEF SignedInAs
  <1>2. CASE profile # u /\ CannotFetch
    BY <1>0, <1>2 DEF SignedInAs, Callers
  <1>3. CASE profile # u /\ ~CannotFetch
    <2>1. profile' = None /\ waiting' = waiting + 1 /\ loading' = loading /\ flow' \in Fetching(fl, u)
      BY <1>3 DEF SignedInAs
    <2>2. flow' \in [Flows -> Stands] /\ \A f \in Flows \ {"profile"} : flow'[f] = fl[f]
      BY <2>1, FetchingCalls
    <2> QED BY <1>0, <2>1, <2>2 DEF Callers
  <1> QED BY <1>1, <1>2, <1>3

LEMMA TimerKeepsTab ==
    ASSUME TabInv, Timer \/ BackoffOver
    PROVE  TabInv'
  <1>1. UNCHANGED <<session, nativeLoad, user, profile, gate, flow, accounts, verified,
                    signedOut, created, used>>
    BY DEF Timer, BackoffOver
  <1>2. /\ waiting' \in Nat /\ loading' \in BOOLEAN /\ backoff' \in BOOLEAN
        /\ loading' => loading /\ waiting' = waiting
    <2>1. CASE Timer
      <3>1. waiting \in Nat /\ backoff \in BOOLEAN
        BY TypesOneByOne DEF TabInv, TabTypes
      <3>2. waiting' = waiting - 1 /\ waiting > 0 /\ backoff' = backoff
        BY <2>1 DEF Timer
      <3>3. loading' = FALSE
        BY <2>1 DEF Timer
      <3>4. waiting' \in Nat
        BY <3>1, <3>2
      <3>5. loading' \in BOOLEAN /\ ~loading'
        BY <3>3
      <3> QED BY <3>1, <3>2, <3>4, <3>5
    <2>2. CASE BackoffOver
      <3>1. waiting \in Nat /\ loading \in BOOLEAN
        BY TypesOneByOne DEF TabInv, TabTypes
      <3> QED BY <2>2, <3>1 DEF BackoffOver
    <2> QED BY <2>1, <2>2
  <1>3. TypeOK'
    BY <1>1, <1>2, TypesOneByOne DEF TabInv, TabTypes
  <1>4. SpinnerHasCause'
    BY <1>1, <1>2 DEF TabInv, SpinnerHasCause, Busy
  <1> QED BY <1>1, <1>3, <1>4 DEF TabInv, CallsPlaced

LEMMA ReloadKeepsTab ==
    ASSUME TabInv, Reload
    PROVE  TabInv'
  <1> DEFINE fl == [f \in Flows |-> Idle]
  <1>1. Mounted(session, fl) /\ session \in Callers /\ used' \in [DOMAIN Bounds -> Nat]
    BY Using, BoundNames DEF Reload, TabInv, TypeOK, Callers
  <1>2. fl \in [Flows -> Stands]
    BY StandsAre
  <1>3. flow' \in [Flows -> Stands] /\ flow'["logout"] = Idle /\ flow'["signup"] = Idle
    <2>1. CASE session = None
      BY <1>1, <1>2, <2>1 DEF Mounted, Flows
    <2>2. CASE session # None
      <3>1. PICK c \in Calls("request", session) : flow' = [fl EXCEPT !["profile"] = c]
        BY <1>1, <2>2 DEF Mounted
      <3>2. c \in Stands
        BY <1>1, CallsAreOnTheirWay, StandsAre DEF Steps
      <3> QED BY <1>2, <3>1, <3>2 DEF Flows
    <2> QED BY <2>1, <2>2
  <1>a. /\ session' = session /\ user' = session /\ profile' = None /\ created' = None
        /\ backoff' = FALSE /\ gate' = FALSE /\ loading' = (session # None)
        /\ waiting' = (IF session = None THEN 0 ELSE 1) /\ signedOut' = (session = None)
        /\ UNCHANGED <<nativeLoad, accounts, verified>>
    BY <1>1 DEF Reload, Mounted
  <1> HIDE DEF fl
  <1>4. TypeOK'
    BY <1>1, <1>3, <1>a, TypesOneByOne DEF TabInv, TabTypes, Callers
  <1>5. SpinnerHasCause' /\ (signedOut' => user' = None)
    <2>1. (signedOut' => session = None) /\ (loading' => session # None)
      BY <1>a, Zenon
    <2> QED BY <1>a, <2>1 DEF SpinnerHasCause
  <1>6. CallsPlaced'
    BY <1>3, StandsAre DEF CallsPlaced
  <1> QED BY <1>4, <1>5, <1>6 DEF TabInv

LEMMA RestoreKeepsTab ==
    ASSUME TabInv, NativeRestore
    PROVE  TabInv'
  <1>1. nativeLoad \in Callers /\ flow \in [Flows -> Stands] /\ SignedInAs(nativeLoad, flow)
    BY DEF NativeRestore, TabInv, TypeOK, Callers, Stands
  <1>2. /\ session' \in Callers /\ user' \in Callers /\ profile' \in Callers
        /\ loading' \in BOOLEAN /\ waiting' \in Nat /\ backoff' = backoff
        /\ signedOut' = FALSE /\ flow' \in [Flows -> Stands]
        /\ \A f \in Flows \ {"profile"} : flow'[f] = flow[f]
        /\ loading' => loading /\ (waiting' = waiting \/ waiting' > 0)
    BY <1>1, SignedInSteps
  <1>3. TypeOK'
    BY <1>2 DEF NativeRestore, TabInv, TypeOK, Callers, Stands
  <1>4. \A f \in {"login", "signup", "logout"} : flow'[f] = flow[f]
    BY <1>2 DEF Flows
  <1>5. SpinnerHasCause'
    BY <1>2, <1>4 DEF TabInv, SpinnerHasCause, Busy
  <1> QED BY <1>2, <1>3, <1>4, <1>5 DEF TabInv, CallsPlaced

\* The fetch of the profile resumes a login or a signup, and ends the spinner
\* unless another is in progress.
LEMMA FetchEnds ==
    ASSUME TabInv, NEW asks \in BOOLEAN, EndFetch(asks)
    PROVE  /\ flow' \in [Flows -> Stands] /\ waiting' \in Nat /\ gate' \in BOOLEAN
           /\ CallsPlaced' /\ flow'["logout"] = flow["logout"]
           /\ \A f \in {"login", "signup"} : ~Awaits(f) => flow'[f] = flow[f]
  <1>1. flow \in [Flows -> Stands] /\ gate \in BOOLEAN /\ ~Awaits("logout")
    BY DEF TabInv, TypeOK, Stands, Callers, Awaits, CallsPlaced
  <1>2. flow' = [f \in Flows |-> IF f = "profile" \/ Awaits(f) THEN Idle ELSE flow[f]]
        /\ waiting' = 0 /\ gate' = ((gate \/ asks) /\ ~Awaits("gate"))
    BY DEF EndFetch
  <1>3. flow' \in [Flows -> Stands]
    BY <1>1, <1>2, StandsAre
  <1>4. /\ flow'["logout"] = flow["logout"]
        /\ \A f \in {"login", "signup"} : ~Awaits(f) => flow'[f] = flow[f]
    BY <1>1, <1>2 DEF Flows
  <1>5. CallsPlaced'
    <2>1. flow'["signup"] \in {Idle, flow["signup"]}
      BY <1>1, <1>2 DEF Flows
    <2> QED BY <1>4, <2>1, StandsAre DEF TabInv, CallsPlaced
  <1> QED BY <1>1, <1>2, <1>3, <1>4, <1>5

LEMMA ProfileAnswerKeepsTab ==
    ASSUME TabInv, ProfileAnswer
    PROVE  TabInv'
  <1> DEFINE asks == /\ flow["profile"].uid \in accounts
                     /\ flow["profile"].uid \in Mfa \ verified /\ session # None
  <1>1. asks \in BOOLEAN /\ EndFetch(asks)
    BY DEF ProfileAnswer
  <1> HIDE DEF asks
  <1>2. /\ flow' \in [Flows -> Stands] /\ waiting' \in Nat /\ gate' \in BOOLEAN
        /\ CallsPlaced' /\ flow'["logout"] = flow["logout"]
        /\ \A f \in {"login", "signup"} : ~Awaits(f) => flow'[f] = flow[f]
    BY <1>1, FetchEnds
  <1>3. /\ loading' = DoneLoading
        /\ UNCHANGED <<session, nativeLoad, user, accounts, verified, signedOut, created>>
    BY DEF ProfileAnswer
  <1>4. profile' \in Callers /\ backoff' \in BOOLEAN /\ used' \in [DOMAIN Bounds -> Nat]
    <2>1. flow["profile"].uid \in Callers
      BY DEF TabInv, TypeOK, Callers, Flows
    <2>2. Use("faults") => used' \in [DOMAIN Bounds -> Nat]
      BY Using, BoundNames DEF TabInv
    <2> QED BY <2>1, <2>2 DEF ProfileAnswer, TabInv, TypeOK, Callers
  <1>5. TypeOK'
    BY <1>2, <1>3, <1>4 DEF TabInv, TypeOK, Callers, Stands, DoneLoading
  <1>6. SpinnerHasCause'
    <2> SUFFICES ASSUME loading' PROVE Busy'
      BY DEF SpinnerHasCause
    <2>1. loading /\ waiting = 0 /\ ~Awaits("login") /\ ~Awaits("signup")
      BY <1>3 DEF DoneLoading
    <2>2. Busy
      BY <2>1 DEF TabInv, SpinnerHasCause
    <2> QED BY <1>2, <2>1, <2>2 DEF Busy
  <1> QED BY <1>2, <1>3, <1>5, <1>6 DEF TabInv

LEMMA RefreshedKeepsTab ==
    ASSUME TabInv, NEW f \in Flows, Refreshed(f)
    PROVE  TabInv'
  <1>1. flow \in [Flows -> Stands] /\ flow[f].pc \in {"token", "deleteToken"}
        /\ session' = flow[f].uid
        /\ UNCHANGED <<nativeLoad, user, profile, loading, waiting, backoff, gate,
                       accounts, verified, signedOut, created, used>>
    BY DEF Refreshed, TabInv, TypeOK, Stands, Callers
  <1>2. PICK p \in Steps \ {"idle", "await", "create"} : flow' = [flow EXCEPT ![f].pc = p]
    BY AfterTokenIsOnItsWay DEF Refreshed, Steps
  <1> DEFINE st == [flow[f] EXCEPT !.pc = p]
  <1>3. st \in Stands /\ st.pc = p /\ flow[f].uid \in Callers
    BY <1>1, <1>2 DEF Stands
  <1>4. st # Idle
    BY <1>2, <1>3 DEF Idle, At
  <1> HIDE DEF st
  <1>5. flow' = [flow EXCEPT ![f] = st]
    BY <1>2 DEF st
  <1>6. flow' \in [Flows -> Stands] /\ CallsPlaced'
    BY <1>1, <1>2, <1>3, <1>5 DEF TabInv, Flows, CallsPlaced, Somebodys
  <1>7. TypeOK'
    BY <1>1, <1>3, <1>6 DEF TabInv, TypeOK, Callers, Stands
  <1>8. \A g \in {"login", "signup", "logout"} : flow[g] # Idle => flow'[g] # Idle
    BY <1>1, <1>4, <1>5 DEF Flows
  <1>9. SpinnerHasCause'
    BY <1>1, <1>8, StillBusy
  <1> QED BY <1>1, <1>6, <1>7, <1>9 DEF TabInv

LEMMA RefreshFailedKeepsTab ==
    ASSUME TabInv, NEW f \in Flows, RefreshFailed(f)
    PROVE  TabInv'
  <1>1. /\ session' = None /\ user' = None /\ profile' = None
        /\ backoff' = FALSE /\ loading' = FALSE /\ signedOut' = TRUE
        /\ UNCHANGED <<nativeLoad, accounts, verified, created>>
    BY DEF RefreshFailed, NoOneSignedIn
  <1>2. used' \in [DOMAIN Bounds -> Nat]
    BY Using, BoundNames DEF RefreshFailed, TabInv, TypeOK
  <1>3. flow' \in [Flows -> Stands] /\ waiting' \in Nat /\ gate' \in BOOLEAN
        /\ CallsPlaced'
    <2>1. CASE f = "profile"
      BY <2>1, FetchEnds DEF RefreshFailed, TabInv
    <2>2. CASE f # "profile"
      <3>1. flow' = [flow EXCEPT ![f] = Idle] /\ waiting' = waiting /\ gate' = gate
        BY <2>2 DEF RefreshFailed
      <3>2. flow \in [Flows -> Stands]
        BY DEF TabInv, TypeOK, Stands, Callers
      <3>3. flow' \in [Flows -> Stands]
        BY <3>1, <3>2, StandsAre
      <3>4. CallsPlaced'
        BY <3>1, <3>2, StandsAre DEF TabInv, Flows, CallsPlaced
      <3> QED BY <3>1, <3>3, <3>4 DEF TabInv, TypeOK
    <2> QED BY <2>1, <2>2
  <1>4. TypeOK'
    BY <1>1, <1>2, <1>3 DEF TabInv, TypeOK, Callers, Stands
  <1> QED BY <1>1, <1>3, <1>4 DEF TabInv, SpinnerHasCause

\* A step of one call that neither starts nor ends the spinner.
LEMMA OneCallMoves ==
    ASSUME TabInv, NEW f \in Flows, NEW st \in Stands, flow' = [flow EXCEPT ![f] = st],
           f \in {"login", "signup", "logout"} => st # Idle \/ loading' = FALSE,
           f = "logout" => st.pc # "await", Somebodys(st),
           loading' \in BOOLEAN, gate' \in BOOLEAN, loading' => loading \/ f \in {"login", "signup", "logout"},
           profile' \in Callers, backoff' \in BOOLEAN, verified' \subseteq Users,
           created' \in Callers, accounts' \subseteq Users, used' \in [DOMAIN Bounds -> Nat],
           UNCHANGED <<session, nativeLoad, user, waiting, signedOut>>
    PROVE  TabInv'
  <1>1. flow \in [Flows -> Stands]
    BY DEF TabInv, TypeOK, Stands, Callers
  <1>2. flow' \in [Flows -> Stands] /\ flow'[f] = st /\ \A g \in Flows \ {f} : flow'[g] = flow[g]
    BY <1>1
  <1>3. TypeOK'
    BY <1>2 DEF TabInv, TypeOK, Callers, Stands
  <1>4. CallsPlaced'
    BY <1>2 DEF TabInv, Flows, CallsPlaced
  <1>5. SpinnerHasCause'
    <2> SUFFICES ASSUME loading' PROVE waiting' > 0 \/ Busy'
      BY DEF SpinnerHasCause
    <2>1. CASE f \in {"login", "signup", "logout"}
      BY <1>2, <2>1 DEF Busy
    <2>2. CASE f \notin {"login", "signup", "logout"}
      <3>1. \A g \in {"login", "signup", "logout"} : flow'[g] = flow[g]
        BY <1>2, <2>2 DEF Flows
      <3> QED BY <2>2, <3>1 DEF Busy, TabInv, SpinnerHasCause
    <2> QED BY <2>1, <2>2
  <1> QED BY <1>3, <1>4, <1>5 DEF TabInv

\* A call that ends by signing everybody out.
LEMMA SignsOut ==
    ASSUME TabInv, NEW f \in Flows, NoOneSignedIn, signedOut' = TRUE,
           flow' = [flow EXCEPT ![f] = Idle], accounts' \subseteq Users,
           UNCHANGED <<nativeLoad, waiting, gate, verified, created, used>>
    PROVE  TabInv'
  <1>1. TabTypes /\ Idle \in Stands /\ Idle.pc # "await" /\ Somebodys(Idle)
    BY TypesOneByOne, StandsAre DEF TabInv
  <1>2. /\ session' = None /\ user' = None /\ profile' = None
        /\ backoff' = FALSE /\ loading' = FALSE
    BY DEF NoOneSignedIn
  <1>3. flow' \in [Flows -> Stands] /\ CallsPlaced'
    BY <1>1, StandsAre DEF TabTypes, TabInv, Flows, CallsPlaced
  <1>4. TabTypes'
    BY <1>1, <1>2, <1>3 DEF TabTypes, Callers
  <1> QED BY <1>2, <1>3, <1>4, TypesOneByOne DEF TabInv, SpinnerHasCause

\* A flow that fails ends the spinner; one that may still delete an account goes
\* on.
LEMMA FlowFailsKeeps ==
    ASSUME TabInv, NEW f \in Flows, FlowFails(f), gate' \in BOOLEAN,
           used' \in [DOMAIN Bounds -> Nat]
    PROVE  TabInv'
  <1>1. TabTypes /\ Idle \in Stands /\ Idle.pc # "await" /\ Somebodys(Idle)
    BY TypesOneByOne, StandsAre DEF TabInv
  <1>2. /\ flow' = [flow EXCEPT ![f] = Idle] /\ loading' = FALSE
        /\ UNCHANGED <<session, nativeLoad, user, profile, waiting, backoff, accounts,
                       verified, signedOut, created>>
    BY DEF FlowFails
  <1> QED BY <1>1, <1>2, OneCallMoves DEF TabTypes

LEMMA CleanupKeeps ==
    ASSUME TabInv, Cleanup, UNCHANGED gate, used' \in [DOMAIN Bounds -> Nat]
    PROVE  TabInv'
  <1>1. TabTypes
    BY TypesOneByOne DEF TabInv
  <1>2. CASE session = None
    BY <1>1, <1>2, FlowFailsKeeps DEF Cleanup, TabTypes, Flows
  <1>3. CASE session # None
    <2>1. PICK st \in {At("delete", session), At("deleteToken", session)} :
               flow' = [flow EXCEPT !["signup"] = st]
      BY <1>3 DEF Cleanup
    <2>2. st \in OnItsWay /\ st \in Stands /\ st # Idle /\ Somebodys(st)
      BY <1>1, <2>1, StandsAre DEF TabTypes, Steps, Somebodys
    <2>3. UNCHANGED <<session, nativeLoad, user, profile, loading, waiting, backoff,
                      accounts, verified, signedOut, created>>
      BY <1>3 DEF Cleanup
    <2> QED BY <1>1, <2>1, <2>2, <2>3, OneCallMoves DEF TabTypes, Flows
  <1> QED BY <1>2, <1>3

LEMMA FinishKeeps ==
    ASSUME TabInv, NEW f \in {"login", "signup", "gate"}, FinishWithProfile(f),
           verified' \subseteq Users,
           UNCHANGED <<session, nativeLoad, user, waiting, accounts, signedOut, created, used>>
    PROVE  TabInv'
  <1>1. TabTypes /\ f \in Flows
    BY TypesOneByOne DEF TabInv, Flows
  <1>2. CASE session = None \/ CannotFetch
    <2>1. /\ flow' = [flow EXCEPT ![f] = Idle] /\ loading' = (loading /\ f = "gate")
          /\ gate' = (gate /\ f # "gate") /\ backoff' = (backoff /\ session # None)
          /\ profile' = IF session = None THEN None ELSE profile
      BY <1>2 DEF FinishWithProfile
    <2>2. profile' \in Callers /\ backoff' \in BOOLEAN /\ gate' \in BOOLEAN /\ loading' \in BOOLEAN
      BY <1>1, <2>1 DEF TabTypes, Callers
    <2>3. (f \in {"login", "signup"} => loading' = FALSE) /\ (loading' => loading) /\ f # "logout"
      BY <2>1
    <2> QED BY <1>1, <2>1, <2>2, <2>3, OneCallMoves, StandsAre DEF TabTypes
  <1>3. CASE ~(session = None \/ CannotFetch)
    <2> DEFINE fl == [flow EXCEPT ![f] = At("await", None)]
    <2>1. flow' \in Fetching(fl, session) /\ UNCHANGED <<loading, gate, profile, backoff>>
      BY <1>3 DEF FinishWithProfile
    <2>2. fl \in [Flows -> Stands]
      BY <1>1, StandsAre DEF TabTypes
    <2>3. /\ fl["logout"] = flow["logout"] /\ fl["signup"] \in {flow["signup"], At("await", None)}
          /\ \A g \in {"login", "signup"} : flow[g] # Idle => fl[g] # Idle
      BY <1>1, StandsAre DEF TabTypes, Flows
    <2> HIDE DEF fl
    <2>4. flow' \in [Flows -> Stands] /\ \A g \in Flows \ {"profile"} : flow'[g] = fl[g]
      BY <1>1, <2>1, <2>2, FetchingCalls DEF TabTypes
    <2>5. CallsPlaced'
      BY <2>3, <2>4, StandsAre DEF TabInv, Flows, CallsPlaced
    <2>6. SpinnerHasCause'
      BY <2>1, <2>3, <2>4, StillBusy DEF Flows
    <2>7. TabTypes'
      BY <1>1, <2>1, <2>4 DEF TabTypes
    <2> QED BY <2>5, <2>6, <2>7, TypesOneByOne DEF TabInv
  <1> QED BY <1>2, <1>3

LEMMA PageKeepsTab ==
    ASSUME TabInv, PageCall \/ PageAnswer
    PROVE  TabInv'
  <1>1. TabTypes /\ "page" \in Flows
    BY TypesOneByOne DEF TabInv, Flows
  <1>2. CASE PageCall
    <2>1. PICK c \in Calls("request", session) : flow' = [flow EXCEPT !["page"] = c]
      BY <1>2 DEF PageCall
    <2>2. c \in Stands /\ Somebodys(c)
      <3>1. c.pc \in {"request", "token"}
        BY <2>1 DEF Calls, At
      <3> QED BY <1>1, <2>1, <3>1, CallsAreOnTheirWay, StandsAre DEF Steps, TabTypes, Somebodys
    <2>3. used' \in [DOMAIN Bounds -> Nat]
      BY <1>2, Using, BoundNames DEF PageCall, TabInv
    <2>4. UNCHANGED <<session, nativeLoad, user, profile, loading, waiting, backoff,
                      gate, accounts, verified, signedOut, created>>
      BY <1>2 DEF PageCall
    <2> QED BY <1>1, <2>1, <2>2, <2>3, <2>4, OneCallMoves DEF TabTypes
  <1>3. CASE PageAnswer
    <2>1. flow' = [flow EXCEPT !["page"] = Idle] /\ gate' \in BOOLEAN
      BY <1>1, <1>3 DEF PageAnswer, TabTypes
    <2>2. UNCHANGED <<session, nativeLoad, user, profile, loading, waiting, backoff,
                      accounts, verified, signedOut, created, used>>
      BY <1>3 DEF PageAnswer
    <2> QED BY <1>1, <2>1, <2>2, OneCallMoves, StandsAre DEF TabTypes
  <1> QED BY <1>2, <1>3

LEMMA SubmitKeepsTab ==
    ASSUME TabInv, NEW u \in Users, LoginSubmit(u) \/ SignupSubmit(u)
    PROVE  TabInv'
  <1>1. TabTypes /\ u \in Callers /\ None \in Callers
    BY TypesOneByOne DEF TabInv, Callers
  <1>2. used' \in [DOMAIN Bounds -> Nat]
    BY Using, BoundNames DEF LoginSubmit, SignupSubmit, TabInv
  <1>3. PICK f \in {"login", "signup"}, st \in {At("sign", u), At("create", u)} :
             flow' = [flow EXCEPT ![f] = st]
    BY DEF LoginSubmit, SignupSubmit
  <1>4. st \in Stands /\ st # Idle /\ f \in Flows /\ f # "logout" /\ Somebodys(st)
    BY <1>1, <1>3, StandsAre DEF Steps, Flows, Somebodys
  <1>5. loading' = TRUE /\ created' \in Callers
    BY <1>1 DEF LoginSubmit, SignupSubmit, TabTypes
  <1>6. UNCHANGED <<session, nativeLoad, user, profile, waiting, backoff, gate,
                    accounts, verified, signedOut>>
    BY DEF LoginSubmit, SignupSubmit
  <1> QED BY <1>1, <1>2, <1>3, <1>4, <1>5, <1>6, OneCallMoves DEF TabTypes

\* Whoever signs in is shown at once.
LEMMA ShowsKeepsTab ==
    ASSUME TabInv, NEW f \in {"login", "signup"}, NEW u \in Callers,
           SignedInAs(u, [flow EXCEPT ![f] = At("token", u)]),
           verified' \subseteq Users, accounts' \subseteq Users, created' \in Callers,
           UNCHANGED <<nativeLoad, gate, used>>
    PROVE  TabInv'
  <1> DEFINE fl == [flow EXCEPT ![f] = At("token", u)]
  <1>1. TabTypes
    BY TypesOneByOne DEF TabInv
  <1>2. At("token", u) \in Stands /\ At("token", u) # Idle /\ Somebodys(At("token", u))
    BY StandsAre DEF Steps, Somebodys
  <1>3. fl \in [Flows -> Stands]
    BY <1>1, <1>2 DEF TabTypes
  <1>4. /\ fl["logout"] = flow["logout"] /\ fl["signup"] \in {flow["signup"], At("token", u)}
        /\ \A g \in {"login", "signup"} : flow[g] # Idle => fl[g] # Idle
    BY <1>1, <1>2 DEF TabTypes, Flows
  <1> HIDE DEF fl
  <1>5. /\ session' \in Callers /\ user' \in Callers /\ profile' \in Callers
        /\ loading' \in BOOLEAN /\ waiting' \in Nat /\ backoff' = backoff
        /\ signedOut' = FALSE /\ flow' \in [Flows -> Stands]
        /\ \A g \in Flows \ {"profile"} : flow'[g] = fl[g]
        /\ loading' => loading /\ (waiting' = waiting \/ waiting' > 0)
    BY <1>3, SignedInSteps DEF fl
  <1>6. TabTypes'
    BY <1>1, <1>5 DEF TabTypes
  <1>7. CallsPlaced'
    BY <1>2, <1>4, <1>5 DEF TabInv, Flows, CallsPlaced
  <1>8. SpinnerHasCause'
    <2> SUFFICES ASSUME loading', waiting' = waiting PROVE waiting > 0 \/ Busy'
      BY <1>5 DEF SpinnerHasCause
    <2>1. waiting > 0 \/ Busy
      BY <1>5 DEF TabInv, SpinnerHasCause
    <2>2. \A g \in {"login", "signup", "logout"} : flow[g] # Idle => flow'[g] # Idle
      BY <1>4, <1>5 DEF Flows
    <2> QED BY <2>1, <2>2 DEF Busy
  <1> QED BY <1>5, <1>6, <1>7, <1>8, TypesOneByOne DEF TabInv

LEMMA SignInAnswerKeepsTab ==
    ASSUME TabInv, SignInAnswer
    PROVE  TabInv'
  <1> DEFINE u == flow["login"].uid
  <1>1. TabTypes /\ u \in Callers
    BY TypesOneByOne DEF TabInv, TabTypes, Flows, Stands
  <1>2. CASE /\ SignedInAs(u, [flow EXCEPT !["login"] = At("token", u)])
             /\ verified' = verified \ {u}
             /\ UNCHANGED <<nativeLoad, gate, accounts, created, used>>
    <2> HIDE DEF u
    <2> QED BY <1>1, <1>2, ShowsKeepsTab DEF TabTypes
  <1>3. CASE FlowFails("login") /\ gate' = gate /\ (Use("faults") \/ used' = used)
    <2>1. used' \in [DOMAIN Bounds -> Nat]
      BY <1>1, <1>3, Using, BoundNames DEF TabInv, TabTypes
    <2> QED BY <1>1, <1>3, <2>1, FlowFailsKeeps DEF TabTypes, Flows
  <1> QED BY <1>2, <1>3 DEF SignInAnswer

LEMMA LoginAnswerKeepsTab ==
    ASSUME TabInv, LoginAnswer
    PROVE  TabInv'
  <1>1. TabTypes
    BY TypesOneByOne DEF TabInv
  <1>2. CASE /\ FinishWithProfile("login")
             /\ UNCHANGED <<session, nativeLoad, user, waiting, accounts, verified,
                            signedOut, created, used>>
    BY <1>1, <1>2, FinishKeeps DEF TabTypes
  <1>3. CASE FlowFails("login") /\ gate' \in BOOLEAN /\ (Use("faults") \/ used' = used)
    <2>1. used' \in [DOMAIN Bounds -> Nat]
      BY <1>1, <1>3, Using, BoundNames DEF TabInv, TabTypes
    <2> QED BY <1>3, <2>1, FlowFailsKeeps DEF Flows
  <1> QED BY <1>1, <1>2, <1>3 DEF LoginAnswer, TabTypes

LEMMA CreateAnswerKeepsTab ==
    ASSUME TabInv, CreateAnswer
    PROVE  TabInv'
  <1> DEFINE u == flow["signup"].uid
  <1>1. TabTypes /\ u \in Callers
    BY TypesOneByOne DEF TabInv, TabTypes, Flows, Stands
  <1>4. flow["signup"].pc = "create" /\ u \in Users
    BY DEF CreateAnswer, TabInv, CallsPlaced, Somebodys
  <1>2. CASE /\ accounts' = accounts \cup {u} /\ created' = u
             /\ SignedInAs(u, [flow EXCEPT !["signup"] = At("token", u)])
             /\ UNCHANGED <<nativeLoad, gate, verified, used>>
    <2> HIDE DEF u
    <2> QED BY <1>1, <1>2, <1>4, ShowsKeepsTab DEF TabTypes
  <1>3. CASE Cleanup /\ gate' = gate /\ (Use("faults") \/ used' = used)
    <2>1. used' \in [DOMAIN Bounds -> Nat]
      BY <1>1, <1>3, Using, BoundNames DEF TabInv, TabTypes
    <2> QED BY <1>3, <2>1, CleanupKeeps
  <1> QED BY <1>2, <1>3 DEF CreateAnswer

LEMMA PendingAnswerKeepsTab ==
    ASSUME TabInv, PendingAnswer
    PROVE  TabInv'
  <1>1. TabTypes
    BY TypesOneByOne DEF TabInv
  <1>2. CASE /\ FinishWithProfile("signup")
             /\ UNCHANGED <<session, nativeLoad, user, waiting, accounts, verified,
                            signedOut, created, used>>
    BY <1>1, <1>2, FinishKeeps DEF TabTypes
  <1>3. CASE Use("faults") /\ Cleanup /\ UNCHANGED gate
    BY <1>3, CleanupKeeps, Using, BoundNames DEF TabInv
  <1> QED BY <1>2, <1>3 DEF PendingAnswer

LEMMA DeleteAnswerKeepsTab ==
    ASSUME TabInv, DeleteAnswer
    PROVE  TabInv'
  <1>1. TabTypes /\ "signup" \in Flows
    BY TypesOneByOne DEF TabInv, Flows
  <1>2. CASE /\ accounts' = accounts \ {flow["signup"].uid}
             /\ NoOneSignedIn /\ signedOut' = TRUE
             /\ flow' = [flow EXCEPT !["signup"] = Idle]
             /\ UNCHANGED <<nativeLoad, waiting, gate, verified, created, used>>
    BY <1>1, <1>2, SignsOut DEF TabTypes
  <1>3. CASE FlowFails("signup") /\ Use("faults") /\ UNCHANGED gate
    BY <1>1, <1>3, FlowFailsKeeps, Using, BoundNames DEF TabInv, TabTypes
  <1> QED BY <1>2, <1>3 DEF DeleteAnswer

LEMMA LogoutKeepsTab ==
    ASSUME TabInv, NEW closesGate \in BOOLEAN, Logout(closesGate)
    PROVE  TabInv'
  <1> DEFINE st == At("push", session)
  <1>1. TabTypes /\ "logout" \in Flows
    BY TypesOneByOne DEF TabInv, Flows
  <1>2. st \in Stands /\ st # Idle /\ st.pc # "await" /\ Somebodys(st)
    BY <1>1, StandsAre DEF TabTypes, Steps, Somebodys
  <1>3. used' \in [DOMAIN Bounds -> Nat]
    BY Using, BoundNames DEF Logout, TabInv
  <1>4. /\ gate' = FALSE /\ loading' = TRUE /\ flow' = [flow EXCEPT !["logout"] = st]
        /\ UNCHANGED <<session, nativeLoad, user, profile, waiting, backoff, accounts,
                       verified, signedOut, created>>
    BY DEF Logout
  <1> HIDE DEF st
  <1> QED BY <1>1, <1>2, <1>3, <1>4, OneCallMoves DEF TabTypes

LEMMA PushReleasedKeepsTab ==
    ASSUME TabInv, PushReleased
    PROVE  TabInv'
  <1>1. TabTypes /\ "logout" \in Flows
    BY TypesOneByOne DEF TabInv, Flows
  <1>2. PICK c \in Calls("backend", session) : flow' = [flow EXCEPT !["logout"] = c]
    BY DEF PushReleased
  <1>3. c \in OnItsWay /\ c \in Stands /\ c # Idle /\ c.pc # "await" /\ Somebodys(c)
    <2>1. c.pc \in {"backend", "token"}
      BY <1>2 DEF Calls, At
    <2> QED BY <1>1, <2>1, CallsAreOnTheirWay, StandsAre DEF Steps, TabTypes, Somebodys
  <1>4. UNCHANGED <<session, nativeLoad, user, profile, loading, waiting, backoff, gate,
                    accounts, verified, signedOut, created, used>>
    BY DEF PushReleased
  <1> QED BY <1>1, <1>2, <1>3, <1>4, OneCallMoves DEF TabTypes

LEMMA LogoutAnswerKeepsTab ==
    ASSUME TabInv, LogoutAnswer
    PROVE  TabInv'
  <1>1. accounts' \subseteq Users /\ "logout" \in Flows
    BY DEF LogoutAnswer, TabInv, TypeOK, Flows
  <1> QED BY <1>1, SignsOut DEF LogoutAnswer

LEMMA GateKeepsTab ==
    ASSUME TabInv, VerifyGate \/ PasskeyAnswer
    PROVE  TabInv'
  <1>1. TabTypes /\ "gate" \in Flows
    BY TypesOneByOne DEF TabInv, Flows
  <1>2. PICK st \in Stands : flow' = [flow EXCEPT !["gate"] = st] /\ Somebodys(st)
    <2>1. CASE VerifyGate
      <3>1. At("token", session) \in Stands /\ Somebodys(At("token", session))
        BY <1>1, StandsAre DEF TabTypes, Steps, Somebodys
      <3> QED BY <2>1, <3>1 DEF VerifyGate
    <2>2. CASE PasskeyAnswer
      <3>1. flow["gate"].uid \in Callers
        BY <1>1 DEF TabTypes, Stands
      <3>2. PICK ok \in BOOLEAN :
               flow' = [flow EXCEPT !["gate"] = IF ok THEN At("backend", @.uid) ELSE Idle]
        BY <2>2 DEF PasskeyAnswer
      <3> DEFINE st == IF ok THEN At("backend", flow["gate"].uid) ELSE Idle
      <3>3. st \in Stands /\ Somebodys(st)
        BY <3>1, StandsAre DEF Steps, Somebodys
      <3>4. flow' = [flow EXCEPT !["gate"] = st]
        BY <3>2
      <3> QED BY <3>3, <3>4
    <2> QED BY <2>1, <2>2
  <1>3. UNCHANGED <<session, nativeLoad, user, profile, loading, waiting, backoff, gate,
                    accounts, verified, signedOut, created, used>>
    BY DEF VerifyGate, PasskeyAnswer
  <1> QED BY <1>1, <1>2, <1>3, OneCallMoves DEF TabTypes

LEMMA GateAnswerKeepsTab ==
    ASSUME TabInv, GateAnswer
    PROVE  TabInv'
  <1>1. TabTypes /\ "gate" \in Flows
    BY TypesOneByOne DEF TabInv, Flows
  <1>2. UNCHANGED <<session, nativeLoad, user, waiting, accounts, signedOut, created, used>>
    BY DEF GateAnswer
  <1>3. CASE /\ flow["gate"].uid \in accounts
             /\ verified' = verified \cup {flow["gate"].uid}
             /\ FinishWithProfile("gate")
    <2>1. verified' \subseteq Users
      BY <1>1, <1>3 DEF TabTypes
    <2> QED BY <1>2, <1>3, <2>1, FinishKeeps
  <1>4. CASE /\ flow' = [flow EXCEPT !["gate"] = Idle]
             /\ UNCHANGED <<verified, profile, loading, gate, backoff>>
    BY <1>1, <1>2, <1>4, OneCallMoves, StandsAre DEF TabTypes
  <1> QED BY <1>3, <1>4 DEF GateAnswer

LEMMA TabInit == SessionAssumption /\ Init => TabInv
  <1> SUFFICES ASSUME SessionAssumption, Init PROVE TabInv
    OBVIOUS
  <1>1. PICK s \in Existing \cup {None}, n \in Existing \cup {None} :
         /\ session = s /\ nativeLoad = n /\ user = s
         /\ loading = (s # None)
         /\ waiting = IF s = None THEN 0 ELSE 1
         /\ \E c \in IF s = None THEN {Idle} ELSE Calls("request", s) :
                flow = [f \in Flows |-> IF f = "profile" THEN c ELSE Idle]
         /\ verified \in {{}, Mfa \cap {s}}
    BY DEF Init
  <1>2. s \in Callers /\ n \in Callers /\ None \in Callers
    BY DEF SessionAssumption, Callers
  <1>3. PICK c \in IF s = None THEN {Idle} ELSE Calls("request", s) :
                flow = [f \in Flows |-> IF f = "profile" THEN c ELSE Idle]
    BY <1>1
  <1>4. c \in Stands
    BY <1>2, <1>3, StandsAre, CallsAreOnTheirWay DEF Steps
  <1>5. flow \in [Flows -> Stands] /\ CallsPlaced
    BY <1>3, <1>4, StandsAre DEF Flows, CallsPlaced
  <1>6. /\ profile = None /\ backoff = FALSE /\ gate = FALSE /\ accounts = Existing
        /\ signedOut = FALSE /\ created = None /\ used = [x \in DOMAIN Bounds |-> 0]
    BY DEF Init
  <1>7. verified \subseteq Users /\ accounts \subseteq Users
    BY <1>1, <1>6 DEF SessionAssumption
  <1>8. loading \in BOOLEAN /\ waiting \in Nat /\ SpinnerHasCause
    <2>1. waiting \in Nat /\ (s # None => waiting > 0) /\ loading = (s # None)
      BY <1>1
    <2>2. loading \in BOOLEAN /\ (loading => s # None)
      BY <2>1, Zenon
    <2> QED BY <2>1, <2>2 DEF SpinnerHasCause
  <1>9. TabTypes
    BY <1>1, <1>2, <1>5, <1>6, <1>7, <1>8 DEF TabTypes
  <1> QED BY <1>5, <1>6, <1>8, <1>9, TypesOneByOne DEF TabInv

LEMMA TabSteps == TabInv /\ [Next]_vars => TabInv'
  <1> SUFFICES ASSUME TabInv, [Next]_vars PROVE TabInv'
    OBVIOUS
  <1>1. CASE UNCHANGED vars
    BY <1>1 DEF vars, TabInv, TypeOK, SpinnerHasCause, Busy, CallsPlaced
  <1>2. CASE Timer \/ Reload \/ NativeRestore \/ ProfileAnswer \/ BackoffOver
    BY <1>2, TimerKeepsTab, ReloadKeepsTab, RestoreKeepsTab, ProfileAnswerKeepsTab
  <1>3. CASE \E f \in Flows : Refreshed(f) \/ RefreshFailed(f)
    BY <1>3, RefreshedKeepsTab, RefreshFailedKeepsTab
  <1>4. CASE PageCall \/ PageAnswer \/ \E u \in Users : LoginSubmit(u) \/ SignupSubmit(u)
    BY <1>4, PageKeepsTab, SubmitKeepsTab
  <1>5. CASE SignInAnswer \/ LoginAnswer \/ CreateAnswer \/ PendingAnswer \/ DeleteAnswer
    BY <1>5, SignInAnswerKeepsTab, LoginAnswerKeepsTab, CreateAnswerKeepsTab,
       PendingAnswerKeepsTab, DeleteAnswerKeepsTab
  <1>6. CASE \/ \E closesGate \in BOOLEAN : Logout(closesGate)
             \/ PushReleased \/ LogoutAnswer
    BY <1>6, LogoutKeepsTab, PushReleasedKeepsTab, LogoutAnswerKeepsTab
  <1>7. CASE VerifyGate \/ PasskeyAnswer \/ GateAnswer
    BY <1>7, GateKeepsTab, GateAnswerKeepsTab
  <1> QED BY <1>1, <1>2, <1>3, <1>4, <1>5, <1>6, <1>7 DEF Next

LEMMA TabInvGives == TabInv => TypeOK /\ SignedOutStaysOut /\ SpinnerHasCause
  BY DEF TabInv, SignedOutStaysOut, Screen

--------------------------------------------------------------------------------
(* The page that links a bank.                                                *)

LinkTokens == 0..MaxLinkTokens
LinkTypes ==
    /\ linkToken \in LinkTokens /\ storedToken \in LinkTokens
    /\ bankToken \in LinkTokens /\ made \in LinkTokens
    /\ returning \in BOOLEAN /\ preparing \in BOOLEAN /\ reopened \in BOOLEAN
    /\ fetching \in {"no", "asked"} /\ expired \subseteq 1..MaxLinkTokens
    /\ linkScreen \in {"page", "modal", "link", "exchange"}
    /\ linkScreen \in {"modal", "link", "exchange"} => linkToken # 0

\* Unless Link was closed or its work is done, the page's token is the stored one,
\* and so is the one the bank's site was opened with: the page that the bank
\* opens has no token of its own to ask for.
TokenKept ==
    /\ returning => bankToken # 0
    /\ bankToken # 0 /\ ~returning => fetching = "no" /\ linkToken = 0
    /\ ~reopened /\ ~returning /\ linkToken # 0 => storedToken = linkToken
    /\ ~reopened /\ ~returning /\ bankToken # 0 => storedToken = bankToken
    /\ ~reopened /\ returning => fetching = "no" /\ linkToken = bankToken

LinkInv == LinkTypes /\ TokenKept

LEMMA NoToken0 == PlaidLinkAssumption => 0 \in LinkTokens
  BY DEF PlaidLinkAssumption, LinkTokens

LEMMA LinkInit == PlaidLinkAssumption /\ PlaidLinkInit => LinkInv
  <1> SUFFICES ASSUME PlaidLinkAssumption, PlaidLinkInit PROVE LinkInv
    OBVIOUS
  <1>1. 0 \in LinkTokens
    BY NoToken0
  <1>2. LinkTypes
    BY <1>1 DEF PlaidLinkInit, LinkTypes
  <1>3. TokenKept
    BY DEF PlaidLinkInit, TokenKept
  <1> QED BY <1>2, <1>3 DEF LinkInv

LEMMA TokenMadeKeepsLink == ASSUME PlaidLinkAssumption, LinkInv, TokenMade PROVE LinkInv'
  <1>1. made + 1 \in LinkTokens /\ made + 1 # 0
    BY DEF TokenMade, LinkInv, LinkTypes, LinkTokens, PlaidLinkAssumption
  <1>2. LinkTypes'
    BY <1>1 DEF TokenMade, LinkInv, LinkTypes
  <1>3. TokenKept'
    BY <1>1 DEF TokenMade, LinkInv, TokenKept
  <1> QED BY <1>2, <1>3 DEF LinkInv

LEMMA FromBankKeepsLink == ASSUME PlaidLinkAssumption, LinkInv, FromBank PROVE LinkInv'
  <1>1. LinkTypes'
    BY NoToken0 DEF FromBank, FetchesToken, LinkInv, LinkTypes
  <1>2. TokenKept'
    BY DEF FromBank, FetchesToken, LinkInv, TokenKept
  <1> QED BY <1>1, <1>2 DEF LinkInv

LEMMA PageReloadKeepsLink == ASSUME PlaidLinkAssumption, LinkInv, LinkPageReload PROVE LinkInv'
  <1>0. /\ linkToken' \in LinkTokens /\ preparing' \in BOOLEAN /\ fetching' \in {"no", "asked"}
        /\ returning' = FALSE /\ bankToken' = 0 /\ reopened' = FALSE /\ linkScreen' = "page"
        /\ UNCHANGED <<storedToken, made, expired>>
    BY NoToken0 DEF LinkPageReload, FetchesToken, LinkInv, LinkTypes
  <1>a. linkToken' \in LinkTokens /\ storedToken' \in LinkTokens /\ made' \in LinkTokens
    BY <1>0 DEF LinkInv, LinkTypes
  <1>b. bankToken' \in LinkTokens
    BY <1>0, NoToken0
  <1>c. expired' \subseteq 1..MaxLinkTokens
    BY <1>0 DEF LinkInv, LinkTypes
  <1>1. LinkTypes'
    <2> HIDE DEF LinkInv
    <2> QED BY <1>0, <1>a, <1>b, <1>c DEF LinkTypes
  <1>2. TokenKept'
    BY DEF LinkPageReload, FetchesToken, LinkInv, TokenKept
  <1> QED BY <1>1, <1>2 DEF LinkInv

\* Opening Link, leaving it for the bank and closing it.
LEMMA LinkScreensKeepLink ==
    ASSUME PlaidLinkAssumption, LinkInv, OpenModal \/ LeaveModal \/ LinkClosed \/ LinkSucceeds \/ Exchanged \/ ToBank
    PROVE  LinkInv'
  <1>1. CASE OpenModal \/ LeaveModal \/ LinkSucceeds
    <2>1. /\ UNCHANGED <<linkToken, storedToken, bankToken, returning, fetching, preparing>>
          /\ UNCHANGED <<made, expired, reopened>>
      BY <1>1 DEF OpenModal, LeaveModal, LinkSucceeds
    <2>2. linkScreen' \in {"page", "modal", "link", "exchange"} /\ (linkScreen' # "page" => linkToken # 0)
      BY <1>1 DEF OpenModal, LeaveModal, LinkSucceeds, LinkInv, LinkTypes
    <2>3. LinkTypes'
      BY <2>1, <2>2 DEF LinkInv, LinkTypes
    <2>4. TokenKept'
      BY <2>1 DEF LinkInv, TokenKept
    <2> QED BY <2>3, <2>4 DEF LinkInv
  <1>2. CASE LinkClosed
    <2>1. LinkTypes'
      BY <1>2, NoToken0 DEF LinkClosed, LinkInv, LinkTypes
    <2>2. TokenKept'
      BY <1>2 DEF LinkClosed, LinkInv, LinkTypes, TokenKept
    <2> QED BY <2>1, <2>2 DEF LinkInv
  <1>3. CASE Exchanged
    <2>1. LinkTypes'
      BY <1>3, NoToken0 DEF Exchanged, LinkInv, LinkTypes
    <2>2. TokenKept'
      BY <1>3 DEF Exchanged, LinkInv, LinkTypes, TokenKept
    <2> QED BY <2>1, <2>2 DEF LinkInv
  <1>4. CASE ToBank
    <2>1. LinkTypes'
      BY <1>4, NoToken0 DEF ToBank, LinkInv, LinkTypes
    <2>2. TokenKept'
      BY <1>4 DEF ToBank, LinkInv, LinkTypes, TokenKept
    <2> QED BY <2>1, <2>2 DEF LinkInv
  <1> QED BY <1>1, <1>2, <1>3, <1>4

LEMMA LinkSteps == PlaidLinkAssumption /\ LinkInv /\ [PlaidLinkNext]_linkVars => LinkInv'
  <1> SUFFICES ASSUME PlaidLinkAssumption, LinkInv, [PlaidLinkNext]_linkVars PROVE LinkInv'
    OBVIOUS
  <1>1. CASE UNCHANGED linkVars
    BY <1>1 DEF linkVars, LinkInv, LinkTypes, TokenKept
  <1>2. CASE TokenFails
    BY <1>2 DEF TokenFails, LinkInv, LinkTypes, TokenKept
  <1>3. CASE Expire
    <2>1. expired' = expired \cup {linkToken} /\ linkToken # 0
          /\ UNCHANGED <<linkToken, storedToken, bankToken, returning, fetching, preparing>>
          /\ UNCHANGED <<linkScreen, made, reopened>>
      BY <1>3 DEF Expire
    <2>2. linkToken \in 1..MaxLinkTokens
      BY <2>1 DEF LinkInv, LinkTypes, LinkTokens, PlaidLinkAssumption
    <2>3. expired' \subseteq 1..MaxLinkTokens
      BY <2>1, <2>2 DEF LinkInv, LinkTypes
    <2>4. LinkTypes'
      BY <2>1, <2>3 DEF LinkInv, LinkTypes
    <2>5. TokenKept'
      BY <2>1 DEF LinkInv, TokenKept
    <2> QED BY <2>4, <2>5 DEF LinkInv
  <1> QED BY <1>1, <1>2, <1>3, TokenMadeKeepsLink, FromBankKeepsLink, PageReloadKeepsLink,
             LinkScreensKeepLink DEF PlaidLinkNext

LEMMA LinkInvGives == LinkInv => PlaidLinkTypeOK /\ ReturnsWithItsToken
  <1>1. LinkInv => PlaidLinkTypeOK
    BY DEF LinkInv, LinkTypes, LinkTokens, PlaidLinkTypeOK
  <1>2. LinkInv => ReturnsWithItsToken
    BY DEF LinkInv, TokenKept, ReturnsWithItsToken
  <1> QED BY <1>1, <1>2
--------------------------------------------------------------------------------
(* The budget goals.  A request carries what the page asked for; at most one   *)
(* reset and one bulk change is under way, as the buttons sleep until its      *)
(* reload is over; and a hook whose last load began alone is either served by  *)
(* the one request in flight for it or shows what is stored.                   *)
Rows == [Spendings -> Goal \cup {NoGoal}]
Keys == (Scopes \cup {"none"}) \X (Options \cup {"any"})
Afters == {"none", "save", "clear", "reset", "bulk"}

GoalTypes ==
    /\ role \in {"admin", "viewer", "none"}
    /\ goals \in [{"me", "admin"} -> Rows]
    /\ data \in [Hooks -> [of : Keys, rows : Rows]]
    /\ scope \in Scopes /\ option \in Options /\ followed \subseteq Hooks
    /\ waitingFor \subseteq Hooks /\ failed \subseteq Hooks /\ sure \subseteq followed
    /\ editor # NoEditor => editor.period \in Periods

ReadOK(f) ==
    /\ f \in [hook : followed, key : Keys, n : {f.n}, after : Afters, is : BOOLEAN, rows : Rows]
    /\ f.key[1] \in Scopes
ReadsOK ==
    /\ \A f \in reads : ReadOK(f)
    /\ \A f, g \in reads : f.hook = "chart" /\ g.hook = "chart" /\ f.key = g.key => f = g

WriteOK(w) ==
    /\ w \in [n : {w.n}, kind : {"save", "clear", "reset", "bulk"}, scope : Scopes, cat : {w.cat},
              goal : {w.goal}, served : BOOLEAN]
    /\ w.kind = "save" => w.goal \in Goal
    /\ w.kind = "bulk" => w.goal.period \in Periods
WritesOK ==
    /\ \A w \in writes : WriteOK(w)
    /\ writes # {} => "budgets" \in followed

\* A write of this kind and the reload its handler waits for are one at a time.
OneAtATime(kind, busy) ==
    /\ \A v, w \in writes : v.kind = kind /\ w.kind = kind => v = w
    /\ \A f, g \in reads : f.after = kind /\ g.after = kind => f = g
    /\ \A w \in writes, f \in reads : ~(w.kind = kind /\ f.after = kind)
    /\ \A w \in writes : w.kind = kind => busy
    /\ \A f \in reads : f.after = kind => busy

OnlyLoad(f) == \A g \in reads : g.hook = f.hook => g = f
Settled(h) ==
    \/ Alone(h) /\ (data[h] = Answer(h, KeyOnScreen(h)) \/ h \in failed)
    \/ \E f \in reads : /\ f.hook = h /\ OnlyLoad(f) /\ f.key = KeyOnScreen(h)
                        /\ f.is => f.rows = Answer(h, f.key).rows
ToReload == \E w \in writes : w.served
SureOK == \A h \in sure : ~(h = "budgets" /\ ToReload) => Settled(h)

GoalsInv ==
    /\ GoalTypes /\ ReadsOK /\ WritesOK /\ SureOK
    /\ OneAtATime("reset", resetting) /\ OneAtATime("bulk", bulking)

LEMMA OwnersAre == \A s : Owner(s) \in {"me", "admin"}
  BY DEF Owner

LEMMA NoGoalsAreRows == NoGoals \in Rows
  BY DEF NoGoals, Rows

LEMMA AnswersAreRows == ASSUME GoalTypes, NEW h, NEW k PROVE Answer(h, k).rows \in Rows
  <1>1. goals[Owner(k[1])] \in Rows
    BY OwnersAre DEF GoalTypes
  <1> QED BY <1>1, NoGoalsAreRows DEF Answer

LEMMA KeysAre ==
    ASSUME NEW h, NEW s \in Scopes, NEW o \in Options
    PROVE  Key(h, s, o) \in Keys /\ Key(h, s, o)[1] = s
  BY DEF Key, Keys

\* The hooks that are followed load for another scope or option.
LEMMA LoadsKeepGoals ==
    ASSUME GoalsInv, NEW s \in Scopes, NEW o \in Options, Loads(followed, s, o),
           scope' = s, option' = o, role' = role, goals' = goals, followed' = followed,
           data' = data, writes' = writes, editor' = editor,
           resetting' = resetting, bulking' = bulking
    PROVE  GoalsInv'
  <1> DEFINE New(h) == NewRead(h, Key(h, s, o), "none")
  <1>1. ASSUME NEW f \in reads'
        PROVE  f \in reads \/ \E h \in followed : f = New(h) /\ (h = "chart" => ~InFlight(h, Key(h, s, o)))
    BY <1>1 DEF Loads
  <1>2. GoalTypes'
    BY DEF GoalsInv, GoalTypes, Loads, Reports, Hooks
  <1>a. \A h : New(h) = [hook |-> h, key |-> Key(h, s, o), n |-> Unused(h),
                         after |-> "none", is |-> FALSE, rows |-> NoGoals]
    BY DEF NewRead
  <1> HIDE DEF New
  <1>3. \A h : /\ New(h).hook = h /\ New(h).key = Key(h, s, o) /\ New(h).after = "none"
              /\ New(h).is = FALSE /\ New(h).rows = NoGoals /\ New(h).n = Unused(h)
    BY <1>a
  <1>4. ReadsOK'
    <2>1. ASSUME NEW h \in followed PROVE ReadOK(New(h))
      <3>1. Key(h, s, o) \in Keys /\ Key(h, s, o)[1] \in Scopes
        BY KeysAre
      <3> QED BY <1>a, <1>3, <3>1, NoGoalsAreRows DEF ReadOK, Afters
    <2>2. \A f \in reads' : ReadOK(f)
      BY <1>1, <2>1 DEF GoalsInv, ReadsOK
    <2>3. ASSUME NEW f \in reads', NEW g \in reads', f.hook = "chart", g.hook = "chart", f.key = g.key
          PROVE  f = g
      <3>1. CASE f \in reads /\ g \in reads
        BY <2>3, <3>1 DEF GoalsInv, ReadsOK
      <3>2. CASE f \notin reads
        <4>1. f = New("chart") /\ ~InFlight("chart", Key("chart", s, o))
          BY <1>1, <1>3, <2>3, <3>2
        <4>2. g \notin reads
          BY <4>1, <1>3, <2>3 DEF InFlight
        <4> QED BY <1>1, <1>3, <2>3, <4>1, <4>2
      <3>3. CASE g \notin reads
        <4>1. g = New("chart") /\ ~InFlight("chart", Key("chart", s, o))
          BY <1>1, <1>3, <2>3, <3>3
        <4>2. f \notin reads
          BY <4>1, <1>3, <2>3 DEF InFlight
        <4> QED BY <1>1, <1>3, <2>3, <4>1, <4>2
      <3> QED BY <3>1, <3>2, <3>3
    <2> QED BY <2>2, <2>3 DEF ReadsOK, ReadOK
  <1>5. WritesOK'
    BY DEF GoalsInv, WritesOK, WriteOK
  <1>6. ASSUME NEW f \in reads', f.after # "none" PROVE f \in reads
    BY <1>1, <1>3, <1>6
  <1>7. OneAtATime("reset", resetting)' /\ OneAtATime("bulk", bulking)'
    BY <1>6 DEF GoalsInv, OneAtATime
  <1>8. SureOK'
    <2>1. ASSUME NEW h \in sure' PROVE Settled(h)'
      <3>1. h \in followed /\ Alone(h)
        BY DEF Loads, GoalsInv, GoalTypes
      <3>2. ~InFlight(h, Key(h, s, o))
        BY <3>1 DEF Alone, InFlight
      <3>3. New(h) \in reads'
        BY <3>1, <3>2 DEF Loads, New
      <3>4. ASSUME NEW g \in reads', g.hook = h PROVE g = New(h)
        BY <1>1, <1>3, <3>1, <3>4 DEF Alone
      <3>5. New(h).key = KeyOnScreen(h)'
        BY <1>3 DEF KeyOnScreen
      <3> QED BY <1>3, <3>3, <3>4, <3>5 DEF Settled, OnlyLoad
    <2> QED BY <2>1 DEF SureOK
  <1> QED BY <1>2, <1>4, <1>5, <1>7, <1>8 DEF GoalsInv

\* The loads of a hook that a step leaves alone stay settled.
LEMMA StaysSettled ==
    ASSUME NEW h, Settled(h),
           \A f : f.hook = h => (f \in reads <=> f \in reads'),
           KeyOnScreen(h)' = KeyOnScreen(h), data'[h] = data[h], h \in failed => h \in failed',
           \A k : Answer(h, k)' = Answer(h, k)
    PROVE  Settled(h)'
  <1>1. CASE Alone(h) /\ (data[h] = Answer(h, KeyOnScreen(h)) \/ h \in failed)
    <2>1. \A f \in reads' : f.hook # h
      BY <1>1 DEF Alone
    <2>2. data'[h] = Answer(h, KeyOnScreen(h)') \/ h \in failed'
      BY <1>1
    <2>3. Answer(h, KeyOnScreen(h))' = Answer(h, KeyOnScreen(h)')
      OBVIOUS
    <2> QED BY <2>1, <2>2 DEF Settled, Alone
  <1>2. ASSUME NEW f \in reads, f.hook = h, OnlyLoad(f), f.key = KeyOnScreen(h),
               f.is => f.rows = Answer(h, f.key).rows
        PROVE  Settled(h)'
    <2>1. f \in reads' /\ \A g \in reads' : g.hook = f.hook => g = f
      BY <1>2 DEF OnlyLoad
    <2>2. f.is => f.rows = Answer(h, f.key)'.rows
      BY <1>2
    <2> QED BY <1>2, <2>1, <2>2 DEF Settled, OnlyLoad
  <1> QED BY <1>1, <1>2 DEF Settled

\* The server looks a request up.
LEMMA ReadServedKeepsGoals == ASSUME GoalsInv, ReadServed PROVE GoalsInv'
  <1>1. PICK f \in reads :
             /\ ~f.is
             /\ reads' = (reads \ {f}) \cup
                    {[f EXCEPT !.is = TRUE, !.rows = Answer(f.hook, f.key).rows]}
             /\ UNCHANGED <<data, waitingFor, failed, dialogs, sure, events>> /\ ReadRest
    BY DEF ReadServed
  <1>b. PICK found : found = [f EXCEPT !.is = TRUE, !.rows = Answer(f.hook, f.key).rows]
    OBVIOUS
  <1>2. ReadOK(f)
    BY DEF GoalsInv, ReadsOK
  <1>a. Answer(f.hook, f.key).rows \in Rows
    BY AnswersAreRows DEF GoalsInv
  <1>3. found \in [hook : followed, key : Keys, n : {f.n}, after : Afters, is : BOOLEAN, rows : Rows]
    BY <1>2, <1>a, <1>b DEF ReadOK
  <1>4. /\ found.hook = f.hook /\ found.key = f.key /\ found.n = f.n /\ found.after = f.after
        /\ found.is = TRUE /\ found.rows = Answer(f.hook, f.key).rows
    BY <1>2, <1>b DEF ReadOK
  <1>5. reads' = (reads \ {f}) \cup {found}
    BY <1>1, <1>b
  <1>6. /\ UNCHANGED <<role, goals, scope, option, followed, writes, editor>>
        /\ UNCHANGED <<data, waitingFor, failed, sure, resetting, bulking>>
    BY <1>1 DEF ReadRest, household, dialogs
  <1>7. GoalTypes'
    BY <1>6 DEF GoalsInv, GoalTypes
  <1>8. ReadsOK'
    <2>2. ReadOK(found)
      BY <1>2, <1>3, <1>4 DEF ReadOK
    <2>3. \A g \in reads' : ReadOK(g)
      BY <1>5, <2>2 DEF GoalsInv, ReadsOK
    <2>4. \A g, h \in reads' : g.hook = "chart" /\ h.hook = "chart" /\ g.key = h.key => g = h
      BY <1>4, <1>5 DEF GoalsInv, ReadsOK
    <2> QED BY <1>6, <2>3, <2>4 DEF ReadsOK, ReadOK
  <1>9. WritesOK'
    BY <1>6 DEF GoalsInv, WritesOK, WriteOK
  <1>10. OneAtATime("reset", resetting)' /\ OneAtATime("bulk", bulking)'
    BY <1>4, <1>5, <1>6 DEF GoalsInv, OneAtATime
  <1>11. \A h : KeyOnScreen(h)' = KeyOnScreen(h)
    BY <1>6 DEF KeyOnScreen, Key
  <1>12. \A h, k : Answer(h, k)' = Answer(h, k)
    BY <1>6 DEF Answer, Owner
  <1>13. SureOK'
    <2>1. ASSUME NEW h \in sure, ~(h = "budgets" /\ ToReload) PROVE Settled(h)'
      <3>1. Settled(h)
        BY <2>1 DEF GoalsInv, SureOK
      <3>2. CASE h # f.hook
        <4>1. \A g : g.hook = h => (g \in reads <=> g \in reads')
          BY <1>4, <1>5, <3>2
        <4> QED BY <1>6, <1>11, <1>12, <3>1, <4>1, StaysSettled
      <3>3. CASE h = f.hook
        <4>1. OnlyLoad(f) /\ f.key = KeyOnScreen(h)
          BY <3>1, <3>3 DEF Settled, OnlyLoad, Alone
        <4>2. found \in reads' /\ \A g \in reads' : g.hook = found.hook => g = found
          BY <1>4, <1>5, <4>1 DEF OnlyLoad
        <4>3. found.key = KeyOnScreen(h)' /\ found.rows = Answer(h, found.key)'.rows
          BY <1>4, <1>11, <1>12, <3>3, <4>1
        <4> QED BY <1>4, <3>3, <4>2, <4>3 DEF Settled, OnlyLoad
      <3> QED BY <3>2, <3>3
    <2>2. sure' = sure /\ ToReload' = ToReload
      BY <1>6 DEF ToReload
    <2> QED BY <2>1, <2>2 DEF SureOK
  <1> QED BY <1>7, <1>8, <1>9, <1>10, <1>13 DEF GoalsInv

\* A request is over: nothing but its hook's data, error and load changes.
LEMMA LoadEndsKeeps ==
    ASSUME GoalsInv, NEW f \in reads, reads' = reads \ {f}, Over(f.after),
           waitingFor' = waitingFor \ {f.hook}, failed' \subseteq Hooks, ReadRest,
           data' \in [Hooks -> [of : Keys, rows : Rows]],
           sure' \subseteq sure, failed \subseteq failed',
           \A h : h # f.hook => data'[h] = data[h],
           f.hook \in sure' /\ f.hook \notin failed'
               => f.is /\ data'[f.hook] = [of |-> f.key, rows |-> f.rows]
    PROVE  GoalsInv'
  <1>1. /\ UNCHANGED <<role, goals, scope, option, followed, writes, editor>>
        /\ resetting' = (resetting /\ f.after # "reset") /\ bulking' = (bulking /\ f.after # "bulk")
    BY DEF ReadRest, household, Over
  <1>2. GoalTypes'
    BY <1>1 DEF GoalsInv, GoalTypes
  <1>3. ReadsOK'
    BY <1>1 DEF GoalsInv, ReadsOK, ReadOK
  <1>4. WritesOK'
    BY <1>1 DEF GoalsInv, WritesOK, WriteOK
  <1>5. OneAtATime("reset", resetting)'
    BY <1>1 DEF GoalsInv, OneAtATime
  <1>6. OneAtATime("bulk", bulking)'
    BY <1>1 DEF GoalsInv, OneAtATime
  <1>7. \A h : KeyOnScreen(h)' = KeyOnScreen(h)
    BY <1>1 DEF KeyOnScreen, Key
  <1>8. \A h, k : Answer(h, k)' = Answer(h, k)
    BY <1>1 DEF Answer, Owner
  <1>9. SureOK'
    <2>1. ASSUME NEW h \in sure', ~(h = "budgets" /\ ToReload) PROVE Settled(h)'
      <3>1. Settled(h)
        BY <2>1 DEF GoalsInv, SureOK
      <3>2. CASE h # f.hook
        <4>1. \A g : g.hook = h => (g \in reads <=> g \in reads')
          BY <3>2
        <4> QED BY <1>7, <1>8, <3>1, <3>2, <4>1, StaysSettled
      <3>3. CASE h = f.hook
        <4>1. OnlyLoad(f) /\ f.key = KeyOnScreen(h) /\ (f.is => f.rows = Answer(h, f.key).rows)
          BY <3>1, <3>3 DEF Settled, OnlyLoad, Alone
        <4>2. \A g \in reads' : g.hook # h
          BY <3>3, <4>1 DEF OnlyLoad
        <4>3. Answer(h, f.key) = [of |-> f.key, rows |-> Answer(h, f.key).rows]
          BY DEF Answer
        <4>4. data'[h] = Answer(h, KeyOnScreen(h))' \/ h \in failed'
          BY <1>7, <1>8, <2>1, <3>3, <4>1, <4>3
        <4> QED BY <4>2, <4>4 DEF Settled, Alone
      <3> QED BY <3>2, <3>3
    <2>2. ToReload' = ToReload
      BY <1>1 DEF ToReload
    <2> QED BY <2>1, <2>2 DEF SureOK
  <1> QED BY <1>2, <1>3, <1>4, <1>5, <1>6, <1>9 DEF GoalsInv

LEMMA ReadAnsweredKeepsGoals == ASSUME GoalsInv, ReadAnswered PROVE GoalsInv'
  <1>1. PICK f \in reads :
             /\ f.is /\ reads' = reads \ {f}
             /\ data' = [data EXCEPT ![f.hook] = [of |-> f.key, rows |-> f.rows]]
             /\ waitingFor' = waitingFor \ {f.hook}
             /\ Over(f.after)
             /\ UNCHANGED <<failed, sure, events>> /\ ReadRest
    BY DEF ReadAnswered
  <1>2. ReadOK(f) /\ f.hook \in Hooks
    BY DEF GoalsInv, ReadsOK, ReadOK, GoalTypes
  <1>3. [of |-> f.key, rows |-> f.rows] \in [of : Keys, rows : Rows]
    BY <1>2 DEF ReadOK
  <1>4. data \in [Hooks -> [of : Keys, rows : Rows]] /\ failed \subseteq Hooks
    BY DEF GoalsInv, GoalTypes
  <1>5. data' \in [Hooks -> [of : Keys, rows : Rows]]
    BY <1>1, <1>3, <1>4
  <1>6. data'[f.hook] = [of |-> f.key, rows |-> f.rows] /\ \A h : h # f.hook => data'[h] = data[h]
    BY <1>1, <1>2, <1>4
  <1> QED BY <1>1, <1>4, <1>5, <1>6, LoadEndsKeeps

LEMMA ReadFailsKeepsGoals == ASSUME GoalsInv, NEW f \in reads, ReadFails(f) PROVE GoalsInv'
  <1>1. f.hook \in Hooks /\ failed \subseteq Hooks /\ data \in [Hooks -> [of : Keys, rows : Rows]]
    BY DEF GoalsInv, ReadsOK, ReadOK, GoalTypes
  <1>2. /\ reads' = reads \ {f} /\ waitingFor' = waitingFor \ {f.hook} /\ Over(f.after)
        /\ failed' = failed \cup ({f.hook} \ {"budgets"})
        /\ sure' = sure \ ({f.hook} \ {"history"}) /\ data' = data /\ ReadRest
    BY DEF ReadFails
  <1>3. f.hook \in sure' => f.hook \in failed'
    BY <1>2
  <1> QED BY <1>1, <1>2, <1>3, LoadEndsKeeps

\* Nothing in flight changes, and whose rows a scope means stays the same.
LEMMA QuietKeepsGoals ==
    ASSUME GoalsInv, role' \in {"admin", "viewer", "none"}, role' = "admin" <=> role = "admin",
           UNCHANGED <<goals, scope, option, followed, data, waitingFor, failed>>,
           UNCHANGED <<reads, writes, sure, resetting, bulking>>,
           editor' # NoEditor => editor'.period \in Periods
    PROVE  GoalsInv'
  <1>1. GoalTypes'
    BY DEF GoalsInv, GoalTypes
  <1>2. ReadsOK' /\ WritesOK'
    BY DEF GoalsInv, ReadsOK, ReadOK, WritesOK, WriteOK
  <1>3. OneAtATime("reset", resetting)' /\ OneAtATime("bulk", bulking)'
    BY DEF GoalsInv, OneAtATime
  <1>4. \A h : KeyOnScreen(h)' = KeyOnScreen(h)
    BY DEF KeyOnScreen, Key
  <1>5. \A h, k : Answer(h, k)' = Answer(h, k)
    BY DEF Answer, Owner
  <1>6. SureOK'
    <2>1. ASSUME NEW h \in sure, ~(h = "budgets" /\ ToReload) PROVE Settled(h)'
      <3>1. Settled(h)
        BY <2>1 DEF GoalsInv, SureOK
      <3> QED BY <1>4, <1>5, <3>1, StaysSettled
    <2>2. ToReload' = ToReload
      BY DEF ToReload
    <2> QED BY <2>1, <2>2 DEF SureOK
  <1> QED BY <1>1, <1>2, <1>3, <1>6 DEF GoalsInv

\* A button or the editor asks for a change.
LEMMA AsksKeepsGoals ==
    ASSUME GoalsInv, NEW kind \in {"save", "clear", "reset", "bulk"}, NEW c, NEW goal,
           AsksToWrite(kind, c, goal),
           kind = "save" => goal \in Goal, kind = "bulk" => goal.period \in Periods,
           kind = "reset" => ~resetting /\ resetting', resetting => resetting',
           kind = "bulk" => ~bulking /\ bulking', bulking => bulking',
           editor' # NoEditor => editor'.period \in Periods
    PROVE  GoalsInv'
  <1>1. PICK asked : asked = [n |-> NextWrite, kind |-> kind, scope |-> scope, cat |-> c,
                              goal |-> goal, served |-> FALSE]
    OBVIOUS
  <1>2. /\ asked.n = NextWrite /\ asked.kind = kind /\ asked.scope = scope /\ asked.cat = c
        /\ asked.goal = goal /\ asked.served = FALSE
    BY <1>1
  <1>3. writes' = writes \cup {asked} /\ "budgets" \in followed
    BY <1>1 DEF AsksToWrite
  <1>4. /\ UNCHANGED <<role, goals, scope, option, followed, data, waitingFor, failed>>
        /\ UNCHANGED <<reads, sure>>
    BY DEF AsksToWrite, WriteRest, household
  <1>5. GoalTypes'
    BY <1>4 DEF GoalsInv, GoalTypes
  <1>6. ReadsOK'
    BY <1>4 DEF GoalsInv, ReadsOK, ReadOK
  <1>7. WritesOK'
    <2>1. scope \in Scopes
      BY DEF GoalsInv, GoalTypes
    <2>2. asked \in [n : {asked.n}, kind : {"save", "clear", "reset", "bulk"}, scope : Scopes,
                     cat : {asked.cat}, goal : {asked.goal}, served : BOOLEAN]
      BY <1>1, <1>2, <2>1
    <2>3. WriteOK(asked)
      BY <1>2, <2>2 DEF WriteOK
    <2> QED BY <1>3, <1>4, <2>3 DEF GoalsInv, WritesOK, WriteOK
  <1>8. OneAtATime("reset", resetting)'
    BY <1>2, <1>3, <1>4 DEF GoalsInv, OneAtATime
  <1>9. OneAtATime("bulk", bulking)'
    BY <1>2, <1>3, <1>4 DEF GoalsInv, OneAtATime
  <1>10. \A h : KeyOnScreen(h)' = KeyOnScreen(h)
    BY <1>4 DEF KeyOnScreen, Key
  <1>11. \A h, k : Answer(h, k)' = Answer(h, k)
    BY <1>4 DEF Answer, Owner
  <1>12. SureOK'
    <2>1. ASSUME NEW h \in sure, ~(h = "budgets" /\ ToReload) PROVE Settled(h)'
      <3>1. Settled(h)
        BY <2>1 DEF GoalsInv, SureOK
      <3> QED BY <1>4, <1>10, <1>11, <3>1, StaysSettled
    <2>2. ToReload' = ToReload
      BY <1>2, <1>3 DEF ToReload
    <2> QED BY <1>4, <2>1, <2>2 DEF SureOK
  <1> QED BY <1>5, <1>6, <1>7, <1>8, <1>9, <1>12 DEF GoalsInv

\* The server changes the rows: the reports that show them are no longer claimed,
\* and the goals not until they are fetched again.
LEMMA WriteServedKeepsGoals == ASSUME GoalsInv, WriteServed PROVE GoalsInv'
  <1>1. PICK w \in writes :
             /\ goals' = [goals EXCEPT ![Owner(w.scope)] = Written(w)]
             /\ writes' = (writes \ {w}) \cup {[w EXCEPT !.served = TRUE]}
             /\ sure' = sure \ {"status", "history"}
             /\ UNCHANGED <<reads, dialogs, events>> /\ HandlerRest
    BY DEF WriteServed
  <1>2. WriteOK(w)
    BY DEF GoalsInv, WritesOK
  <1>3. PICK done : done = [w EXCEPT !.served = TRUE]
    OBVIOUS
  <1>4. /\ done.n = w.n /\ done.kind = w.kind /\ done.scope = w.scope /\ done.cat = w.cat
        /\ done.goal = w.goal /\ done.served = TRUE
    BY <1>2, <1>3 DEF WriteOK
  <1>5. done \in [n : {w.n}, kind : {"save", "clear", "reset", "bulk"}, scope : Scopes,
                  cat : {w.cat}, goal : {w.goal}, served : BOOLEAN]
    BY <1>2, <1>3 DEF WriteOK
  <1>6. writes' = (writes \ {w}) \cup {done}
    BY <1>1, <1>3
  <1>7. /\ UNCHANGED <<role, scope, option, followed, data, waitingFor, failed, editor>>
        /\ UNCHANGED <<reads, resetting, bulking>>
    BY <1>1 DEF HandlerRest, household, dialogs
  <1>8. Written(w) \in Rows
    <2>1. goals[Owner(w.scope)] \in Rows
      BY OwnersAre DEF GoalsInv, GoalTypes
    <2>2. ASSUME NEW c \in Spendings PROVE Written(w)[c] \in Goal \cup {NoGoal}
      <3>1. goals[Owner(w.scope)][c] \in Goal \cup {NoGoal}
        BY <2>1 DEF Rows
      <3>2. CASE w.kind = "save" /\ c = w.cat
        BY <1>2, <3>2 DEF Written, WriteOK
      <3>3. CASE w.kind = "clear" /\ c = w.cat
        BY <3>3 DEF Written
      <3>4. CASE w.kind = "reset"
        BY <3>4 DEF Written
      <3>5. CASE w.kind = "bulk" /\ goals[Owner(w.scope)][c] # NoGoal
        <4>1. Written(w)[c] = [goals[Owner(w.scope)][c] EXCEPT !.period = w.goal.period]
          BY <3>5 DEF Written
        <4> QED BY <1>2, <3>1, <3>5, <4>1 DEF WriteOK, Goal
      <3>6. CASE /\ ~(w.kind \in {"save", "clear"} /\ c = w.cat) /\ w.kind # "reset"
                 /\ ~(w.kind = "bulk" /\ goals[Owner(w.scope)][c] # NoGoal)
        BY <3>1, <3>6 DEF Written
      <3> QED BY <3>2, <3>3, <3>4, <3>5, <3>6
    <2> QED BY <2>2 DEF Written, Rows
  <1>9. GoalTypes'
    BY <1>1, <1>7, <1>8 DEF GoalsInv, GoalTypes
  <1>10. ReadsOK'
    BY <1>7 DEF GoalsInv, ReadsOK, ReadOK
  <1>11. WritesOK'
    <2>1. WriteOK(done)
      BY <1>2, <1>4, <1>5 DEF WriteOK
    <2> QED BY <1>6, <1>7, <2>1 DEF GoalsInv, WritesOK, WriteOK
  <1>12. OneAtATime("reset", resetting)' /\ OneAtATime("bulk", bulking)'
    BY <1>4, <1>6, <1>7 DEF GoalsInv, OneAtATime
  <1>13. SureOK'
    <2>1. ToReload'
      BY <1>4, <1>6 DEF ToReload
    <2>2. ASSUME NEW h \in sure', h # "budgets" PROVE Settled(h)'
      <3>1. h \in sure /\ h = "chart" /\ Settled(h)
        BY <1>1, <2>2 DEF GoalsInv, SureOK, GoalTypes, Hooks, Reports
      <3>2. \A k : Answer(h, k)' = Answer(h, k)
        BY <3>1 DEF Answer
      <3>3. KeyOnScreen(h)' = KeyOnScreen(h)
        BY <1>7 DEF KeyOnScreen, Key
      <3> QED BY <1>7, <3>1, <3>2, <3>3, StaysSettled
    <2> QED BY <2>1, <2>2 DEF SureOK
  <1> QED BY <1>9, <1>10, <1>11, <1>12, <1>13 DEF GoalsInv

\* The handler of an answered write fetches the goals of the scope it was called in.
LEMMA WriteAnsweredKeepsGoals == ASSUME GoalsInv, WriteAnswered PROVE GoalsInv'
  <1>1. PICK w \in writes :
             /\ w.served /\ writes' = writes \ {w}
             /\ reads' = reads \cup {NewRead("budgets", <<w.scope, "any">>, w.kind)}
             /\ sure' = IF w.scope = scope /\ Alone("budgets") THEN sure \cup {"budgets"}
                        ELSE sure \ {"budgets"}
             /\ UNCHANGED <<goals, dialogs, events>> /\ HandlerRest
    BY DEF WriteAnswered
  <1>2. WriteOK(w) /\ "budgets" \in followed
    BY DEF GoalsInv, WritesOK
  <1>3. PICK load : load = NewRead("budgets", <<w.scope, "any">>, w.kind)
    OBVIOUS
  <1>4. load = [hook |-> "budgets", key |-> <<w.scope, "any">>, n |-> Unused("budgets"),
                after |-> w.kind, is |-> FALSE, rows |-> NoGoals]
    BY <1>3 DEF NewRead
  <1>5. /\ load.hook = "budgets" /\ load.key = <<w.scope, "any">> /\ load.n = Unused("budgets")
        /\ load.after = w.kind /\ load.is = FALSE /\ load.rows = NoGoals
    BY <1>4
  <1>6. reads' = reads \cup {load}
    BY <1>1, <1>3
  <1>7. /\ UNCHANGED <<role, goals, scope, option, followed, data, waitingFor, failed, editor>>
        /\ UNCHANGED <<resetting, bulking>>
    BY <1>1 DEF HandlerRest, household, dialogs
  <1>8. GoalTypes'
    BY <1>1, <1>2, <1>7 DEF GoalsInv, GoalTypes
  <1>9. ReadsOK'
    <2>1. w.scope \in Scopes /\ w.kind \in Afters
      BY <1>2 DEF WriteOK, Afters
    <2>2. <<w.scope, "any">> \in Keys
      BY <2>1 DEF Keys
    <2>3. load \in [hook : followed, key : Keys, n : {load.n}, after : Afters, is : BOOLEAN, rows : Rows]
      BY <1>2, <1>4, <1>5, <2>1, <2>2, NoGoalsAreRows
    <2>4. ReadOK(load)
      BY <1>5, <2>1, <2>3 DEF ReadOK
    <2> QED BY <1>5, <1>6, <1>7, <2>4 DEF GoalsInv, ReadsOK, ReadOK
  <1>10. WritesOK'
    BY <1>1, <1>7 DEF GoalsInv, WritesOK, WriteOK
  <1>11. OneAtATime("reset", resetting)'
    BY <1>1, <1>5, <1>6, <1>7 DEF GoalsInv, OneAtATime
  <1>12. OneAtATime("bulk", bulking)'
    BY <1>1, <1>5, <1>6, <1>7 DEF GoalsInv, OneAtATime
  <1>13. \A h : KeyOnScreen(h)' = KeyOnScreen(h)
    BY <1>7 DEF KeyOnScreen, Key
  <1>14. \A h, k : Answer(h, k)' = Answer(h, k)
    BY <1>7 DEF Answer, Owner
  <1>15. SureOK'
    <2>1. ASSUME NEW h \in sure', h # "budgets" PROVE Settled(h)'
      <3>1. Settled(h)
        BY <1>1, <2>1 DEF GoalsInv, SureOK
      <3>2. \A f : f.hook = h => (f \in reads <=> f \in reads')
        BY <1>5, <1>6, <2>1
      <3> QED BY <1>7, <1>13, <1>14, <3>1, <3>2, StaysSettled
    <2>2. ASSUME "budgets" \in sure' PROVE Settled("budgets")'
      <3>1. w.scope = scope /\ Alone("budgets")
        BY <1>1, <2>2
      <3>2. load \in reads' /\ \A f \in reads' : f.hook = "budgets" => f = load
        BY <1>6, <3>1 DEF Alone
      <3>3. load.key = KeyOnScreen("budgets")'
        BY <1>5, <1>13, <3>1 DEF KeyOnScreen, Key, Reports
      <3> QED BY <1>5, <3>2, <3>3 DEF Settled, OnlyLoad
    <2> QED BY <2>1, <2>2 DEF SureOK
  <1> QED BY <1>8, <1>9, <1>10, <1>11, <1>12, <1>15 DEF GoalsInv

\* A write that is refused or lost; the goals are not claimed after a change the
\* page did not hear of.
LEMMA WriteEndsKeepsGoals ==
    ASSUME GoalsInv, NEW w \in writes, WriteEnds(w),
           sure' = IF w.served THEN sure \ {"budgets"} ELSE sure
    PROVE  GoalsInv'
  <1>1. writes' = writes \ {w}
    BY DEF WriteEnds
  <1>2. /\ UNCHANGED <<role, goals, scope, option, followed, data, waitingFor, failed, editor>>
        /\ UNCHANGED <<reads>>
        /\ resetting' = (resetting /\ w.kind # "reset") /\ bulking' = (bulking /\ w.kind # "bulk")
    BY DEF WriteEnds, HandlerRest, household, Over
  <1>3. GoalTypes'
    BY <1>2 DEF GoalsInv, GoalTypes
  <1>4. ReadsOK'
    BY <1>2 DEF GoalsInv, ReadsOK, ReadOK
  <1>5. WritesOK'
    BY <1>1, <1>2 DEF GoalsInv, WritesOK, WriteOK
  <1>6. OneAtATime("reset", resetting)'
    BY <1>1, <1>2 DEF GoalsInv, OneAtATime
  <1>7. OneAtATime("bulk", bulking)'
    BY <1>1, <1>2 DEF GoalsInv, OneAtATime
  <1>8. \A h : KeyOnScreen(h)' = KeyOnScreen(h)
    BY <1>2 DEF KeyOnScreen, Key
  <1>9. \A h, k : Answer(h, k)' = Answer(h, k)
    BY <1>2 DEF Answer, Owner
  <1>10. SureOK'
    <2>1. ASSUME NEW h \in sure', ~(h = "budgets" /\ ToReload') PROVE Settled(h)'
      <3>1. h \in sure /\ ~(h = "budgets" /\ ToReload)
        BY <1>1, <2>1 DEF ToReload
      <3>2. Settled(h)
        BY <3>1 DEF GoalsInv, SureOK
      <3> QED BY <1>2, <1>8, <1>9, <3>2, StaysSettled
    <2> QED BY <2>1 DEF SureOK
  <1> QED BY <1>3, <1>4, <1>5, <1>6, <1>7, <1>10 DEF GoalsInv

\* The visitor turns to another scope or another report, or is removed.
LEMMA ScreenKeepsGoals ==
    ASSUME GoalsInv, ToggleScope \/ ChooseOption \/ LeaveHousehold \/ ProfileRefreshed
    PROVE  GoalsInv'
  <1> USE DEF ScreenRest, household, dialogs
  <1>0. scope \in Scopes /\ option \in Options /\ (editor # NoEditor => editor.period \in Periods)
        /\ role \in {"admin", "viewer", "none"}
    BY DEF GoalsInv, GoalTypes
  <1>1. CASE ToggleScope
    <2>1. PICK s \in Scopes : scope' = s /\ Loads(followed, s, option)
      BY <1>1 DEF ToggleScope
    <2> QED BY <1>0, <1>1, <2>1, LoadsKeepGoals DEF ToggleScope
  <1>2. CASE ChooseOption
    <2>1. PICK o \in Options : option' = o /\ Loads(followed, scope, o)
      BY <1>2 DEF ChooseOption
    <2> QED BY <1>0, <1>2, <2>1, LoadsKeepGoals DEF ChooseOption
  <1>3. CASE LeaveHousehold
    BY <1>0, <1>3, QuietKeepsGoals DEF LeaveHousehold
  <1>4. CASE ProfileRefreshed /\ scope = "household"
    <2>1. scope' = "personal" /\ "personal" \in Scopes
      BY <1>4 DEF ProfileRefreshed, Scopes
    <2>2. Loads(followed, "personal", option)
      BY <1>4 DEF ProfileRefreshed
    <2> QED BY <1>0, <1>4, <2>1, <2>2, LoadsKeepGoals DEF ProfileRefreshed
  <1>5. CASE ProfileRefreshed /\ scope # "household"
    <2>1. scope' = scope
      BY <1>0, <1>5 DEF ProfileRefreshed, Scopes
    <2> QED BY <1>0, <1>5, <2>1, QuietKeepsGoals DEF ProfileRefreshed
  <1> QED BY <1>1, <1>2, <1>3, <1>4, <1>5

\* The editor and the dialog open and close.
LEMMA EditingKeepsGoals ==
    ASSUME BudgetGoalsAssumption, GoalsInv, HandleEdit \/ OpenReset \/ CloseReset
    PROVE  GoalsInv'
  <1> USE DEF WriteRest, household, dialogs
  <1>0. (editor # NoEditor => editor.period \in Periods) /\ role \in {"admin", "viewer", "none"}
    BY DEF GoalsInv, GoalTypes
  <1>1. CASE HandleEdit
    <2>1. PICK c \in Spendings : editor' = [cat |-> c, period |-> OwnPeriod(c)]
      BY <1>1 DEF HandleEdit
    <2>2. GoalsShown[c] \in Goal \cup {NoGoal}
      BY DEF GoalsInv, GoalTypes, GoalsShown, Hooks, Rows
    <2>3. OwnPeriod(c) \in Periods
      BY <2>2 DEF OwnPeriod, Goal, BudgetGoalsAssumption
    <2>4. editor'.period \in Periods
      BY <2>1, <2>3
    <2> QED BY <1>0, <1>1, <2>4, QuietKeepsGoals DEF HandleEdit
  <1>2. CASE OpenReset \/ CloseReset
    BY <1>0, <1>2, QuietKeepsGoals DEF OpenReset, CloseReset
  <1> QED BY <1>1, <1>2

\* A save, a clear, the reset and a bulk change are asked for.
LEMMA WritingKeepsGoals ==
    ASSUME GoalsInv, HandleSave \/ ClearGoal \/ ConfirmReset \/ BulkSetPeriod
    PROVE  GoalsInv'
  <1> USE DEF dialogs
  <1>0. editor # NoEditor => editor.period \in Periods
    BY DEF GoalsInv, GoalTypes
  <1>1. CASE HandleSave
    <2>1. ASSUME NEW amount \in Amounts,
                 AsksToWrite("save", editor.cat, [amount |-> amount, period |-> editor.period])
          PROVE  GoalsInv'
      <3>1. [amount |-> amount, period |-> editor.period] \in Goal
        BY <1>0, <1>1 DEF HandleSave, Goal
      <3> QED BY <1>1, <2>1, <3>1, AsksKeepsGoals DEF HandleSave
    <2>2. CASE AsksToWrite("clear", editor.cat, NoGoal)
      BY <1>1, <2>2, AsksKeepsGoals DEF HandleSave
    <2> QED BY <1>1, <2>1, <2>2 DEF HandleSave
  <1>2. CASE ClearGoal
    <2>1. PICK c \in Spendings : AsksToWrite("clear", c, NoGoal) /\ UNCHANGED <<editor, dialogs>>
      BY <1>2 DEF ClearGoal
    <2> QED BY <1>0, <2>1, AsksKeepsGoals
  <1>3. CASE ConfirmReset
    BY <1>0, <1>3, AsksKeepsGoals DEF ConfirmReset
  <1>4. CASE BulkSetPeriod
    <2>1. PICK p \in Periods : AsksToWrite("bulk", "none", [NoGoal EXCEPT !.period = p])
      BY <1>4 DEF BulkSetPeriod
    <2>2. PICK goal : goal = [NoGoal EXCEPT !.period = p]
      OBVIOUS
    <2>3. goal.period \in Periods
      BY <2>2 DEF NoGoal
    <2>4. ~bulking /\ bulking' /\ resetting' = resetting /\ editor' = editor
      BY <1>4 DEF BulkSetPeriod
    <2>5. AsksToWrite("bulk", "none", goal)
      BY <2>1, <2>2
    <2> QED BY <1>0, <2>3, <2>4, <2>5, AsksKeepsGoals
  <1> QED BY <1>1, <1>2, <1>3, <1>4

LEMMA GoalsSteps == BudgetGoalsAssumption /\ GoalsInv /\ [BudgetGoalsNext]_bgVars => GoalsInv'
  <1> SUFFICES ASSUME BudgetGoalsAssumption, GoalsInv, [BudgetGoalsNext]_bgVars PROVE GoalsInv'
    OBVIOUS
  <1>1. CASE UNCHANGED bgVars
    BY <1>1, QuietKeepsGoals DEF bgVars, GoalsInv, GoalTypes
  <1>2. CASE ReadRefused
    BY <1>2, ReadFailsKeepsGoals DEF ReadRefused
  <1>3. CASE ReadLost
    BY <1>3, ReadFailsKeepsGoals DEF ReadLost
  <1>4. CASE WriteRefused
    BY <1>4, WriteEndsKeepsGoals DEF WriteRefused
  <1>5. CASE WriteLost
    BY <1>5, WriteEndsKeepsGoals DEF WriteLost
  <1> QED BY <1>1, <1>2, <1>3, <1>4, <1>5, ReadServedKeepsGoals, ReadAnsweredKeepsGoals,
             ScreenKeepsGoals, EditingKeepsGoals, WritingKeepsGoals, WriteServedKeepsGoals,
             WriteAnsweredKeepsGoals DEF BudgetGoalsNext

LEMMA GoalsInit == BudgetGoalsAssumption /\ BudgetGoalsInit => GoalsInv
  <1> SUFFICES ASSUME BudgetGoalsAssumption, BudgetGoalsInit PROVE GoalsInv
    OBVIOUS
  <1>1. followed \subseteq Hooks
    BY DEF BudgetGoalsInit, BudgetGoalsAssumption, Hooks, Reports
  <1>2. option \in Options
    BY DEF BudgetGoalsInit, BudgetGoalsAssumption
  <1>3. goals \in [{"me", "admin"} -> Rows]
    <2>1. PICK amount \in Amounts, theirs \in BOOLEAN :
               LET some == [c \in Spendings |-> [amount |-> amount, period |-> "monthly"]]
               IN goals = [o \in {"me", "admin"} |->
                             IF theirs <=> o = "admin" THEN some ELSE NoGoals]
      BY DEF BudgetGoalsInit
    <2>2. [c \in Spendings |-> [amount |-> amount, period |-> "monthly"]] \in Rows
      BY DEF Rows, Goal, BudgetGoalsAssumption
    <2> QED BY <2>1, <2>2, NoGoalsAreRows
  <1>4. data \in [Hooks -> [of : Keys, rows : Rows]]
    BY NoGoalsAreRows DEF BudgetGoalsInit, Keys
  <1>5. GoalTypes
    BY <1>1, <1>2, <1>3, <1>4 DEF BudgetGoalsInit, GoalTypes, Scopes, Reports
  <1> DEFINE Load(h) == [hook |-> h, key |-> KeyOnScreen(h), n |-> 0, after |-> "none",
                         is |-> FALSE, rows |-> NoGoals]
  <1>6. reads = {Load(h) : h \in followed}
    BY DEF BudgetGoalsInit
  <1>7. \A h : /\ Load(h).hook = h /\ Load(h).key = KeyOnScreen(h) /\ Load(h).n = 0
               /\ Load(h).after = "none" /\ Load(h).is = FALSE /\ Load(h).rows = NoGoals
    OBVIOUS
  <1>8. ASSUME NEW h \in followed PROVE ReadOK(Load(h))
    <2>1. scope \in Scopes
      BY <1>5 DEF GoalTypes
    <2>2. KeyOnScreen(h) \in Keys /\ KeyOnScreen(h)[1] \in Scopes
      BY <1>2, <2>1 DEF KeyOnScreen, Key, Keys
    <2> QED BY <1>7, <2>2, NoGoalsAreRows DEF ReadOK, Afters
  <1> HIDE DEF Load
  <1>9. ReadsOK
    BY <1>6, <1>7, <1>8 DEF ReadsOK
  <1>10. WritesOK
    BY DEF BudgetGoalsInit, WritesOK
  <1>11. \A f \in reads : f.after = "none"
    BY <1>6, <1>7
  <1>12. OneAtATime("reset", resetting) /\ OneAtATime("bulk", bulking)
    BY <1>11 DEF BudgetGoalsInit, OneAtATime
  <1>13. SureOK
    <2>1. ASSUME NEW h \in followed PROVE Settled(h)
      <3>1. Load(h) \in reads /\ \A f \in reads : f.hook = h => f = Load(h)
        BY <1>6, <1>7
      <3> QED BY <1>7, <3>1 DEF Settled, OnlyLoad
    <2> QED BY <2>1 DEF SureOK, BudgetGoalsInit
  <1> QED BY <1>5, <1>9, <1>10, <1>12, <1>13 DEF GoalsInv

LEMMA AtMostOne ==
    ASSUME NEW S, \A v, w \in S : v = w
    PROVE  Cardinality(S) \in {0, 1}
  <1>1. CASE S = {}
    BY <1>1, FS_EmptySet
  <1>2. CASE \E w : w \in S
    <2>1. PICK w : S = {w}
      BY <1>2
    <2> QED BY <2>1, FS_Singleton
  <1> QED BY <1>1, <1>2

LEMMA GoalsInvGives == GoalsInv => BudgetGoalsTypeOK /\ GoalsCurrent
  <1> SUFFICES ASSUME GoalsInv PROVE BudgetGoalsTypeOK /\ GoalsCurrent
    OBVIOUS
  <1> DEFINE Asked(kind) == {w \in writes : w.kind = kind}
  <1>1. Cardinality(Asked("reset")) \in {0, 1} /\ Cardinality(Asked("bulk")) \in {0, 1}
    <2>1. \A v, w \in Asked("reset") : v = w
      BY DEF GoalsInv, OneAtATime
    <2>2. \A v, w \in Asked("bulk") : v = w
      BY DEF GoalsInv, OneAtATime
    <2> QED BY <2>1, <2>2, AtMostOne
  <1>2. Cardinality(Asked("reset")) + Cardinality(Asked("bulk")) <= 2
    <2> HIDE DEF Asked
    <2> QED BY <1>1
  <1>3. goals \in [{"me", "admin"} -> [Spendings -> Goal \cup {NoGoal}]] /\ scope \in Scopes
        /\ option \in Options /\ {waitingFor, failed, sure} \subseteq SUBSET Hooks
    BY DEF GoalsInv, GoalTypes, Rows
  <1>4. \A f \in reads : f.hook \in followed /\ f.after \in {"none", "save", "clear", "reset", "bulk"}
    BY DEF GoalsInv, ReadsOK, ReadOK, Afters
  <1>5. BudgetGoalsTypeOK
    BY <1>2, <1>3, <1>4 DEF GoalsInv, ReadsOK, BudgetGoalsTypeOK
  <1>6. GoalsCurrent
    BY DEF GoalsInv, SureOK, ToReload, Settled, GoalsCurrent
  <1> QED BY <1>5, <1>6
--------------------------------------------------------------------------------
ClientsInv == TabInv /\ PhoneInv /\ LinkInv /\ GoalsInv

LEMMA ClientsKeep == SessionSpec => []ClientsInv
  <1> USE SessionAssumption, PushAssumption, PlaidLinkAssumption, BudgetGoalsAssumption
  <1>1. SessionInit => ClientsInv
    BY TabInit, PhoneInit, LinkInit, GoalsInit DEF SessionInit, ClientsInv
  <1>2. ClientsInv /\ [SessionNext]_<<client, vars, pushVars, linkVars, bgVars>> => ClientsInv'
    <2> SUFFICES ASSUME ClientsInv, [SessionNext]_<<client, vars, pushVars, linkVars, bgVars>>
                 PROVE  ClientsInv'
      OBVIOUS
    <2>1. [Next]_vars /\ [PushNext]_pushVars /\ [PlaidLinkNext]_linkVars /\ [BudgetGoalsNext]_bgVars
      BY DEF SessionNext
    <2> QED BY <2>1, TabSteps, PhoneSteps, LinkSteps, GoalsSteps DEF ClientsInv
  <1> QED BY <1>1, <1>2, PTL DEF SessionSpec

(* Every part's state keeps its form.  What is more than a type: Plaid Link is *)
(* open with a token only, one load of a chart is in flight per scope and      *)
(* option, and at most one reset and one bulk change of the goals.             *)
THEOREM ClientsAreTyped == SessionSpec => []ClientsTypeOK
  <1>1. ClientsInv => ClientsTypeOK
    BY TabInvGives, PhoneInvGives, LinkInvGives, GoalsInvGives DEF ClientsInv, ClientsTypeOK
  <1> QED BY <1>1, ClientsKeep, PTL

(* After a logout the tab shows the spinner or the login until the next        *)
(* sign-in, whatever was in flight and answers (useAuth.tsx); and a phone      *)
(* nobody is signed in on gets nobody's messages when every request succeeded, *)
(* however tokens were renewed between sign-ins (pushTokenLifecycle.ts).       *)
THEOREM SignedOutIsForGood == SessionSpec => []SignedOutForGood
  <1>1. ClientsInv => SignedOutForGood
    BY TabInvGives, PhoneInvGives DEF ClientsInv, SignedOutForGood
  <1> QED BY <1>1, ClientsKeep, PTL

(* While the spinner is up, a listener with its timer is there to end it, or a *)
(* login, signup or logout that does (useAuth.tsx).                            *)
THEOREM SpinnerNeverAlone == SessionSpec => []SpinnerHasCause
  <1>1. ClientsInv => SpinnerHasCause
    BY TabInvGives DEF ClientsInv
  <1> QED BY <1>1, ClientsKeep, PTL

(* The page a bank returns to goes on with the token the bank was opened with, *)
(* unless Link had been closed on the page that led there                      *)
(* (PlaidLinkButton.tsx).                                                      *)
THEOREM BankGetsItsToken == SessionSpec => []ReturnsWithItsToken
  <1>1. ClientsInv => ReturnsWithItsToken
    BY LinkInvGives DEF ClientsInv
  <1> QED BY <1>1, ClientsKeep, PTL

(* With nothing in flight, the goals and reports that are claimed are those the*)
(* server holds for what is on screen, for any number of changes, categories   *)
(* and overlapping requests (FinancialAnalysis.tsx, useBudget.ts).             *)
THEOREM GoalsOnScreenAreStored == SessionSpec => []GoalsCurrent
  <1>1. ClientsInv => GoalsCurrent
    BY GoalsInvGives DEF ClientsInv
  <1> QED BY <1>1, ClientsKeep, PTL
================================================================================
