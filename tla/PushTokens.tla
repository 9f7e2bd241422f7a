------------------------------ MODULE PushTokens -------------------------------
(* The push token of a phone (services/pushTokenLifecycle.ts) and the sign-ins*)
(* and logouts of hooks/useAuth.tsx that drive it. Everything the lifecycle   *)
(* does goes through one promise queue; its state survives in localStorage,   *)
(* the queue does not. Its requests carry the token of whoever is signed in.  *)
EXTENDS Naturals, Sequences, FiniteSets

CONSTANTS People, NoPerson,
          PhoneTokens, NoToken,
          MaxPushSignIns, MaxTokens, MaxPushFaults, MaxKills

ASSUME PushAssumption ==
    /\ NoPerson \notin People /\ NoToken \notin PhoneTokens
    /\ {MaxPushSignIns, MaxTokens, MaxPushFaults, MaxKills} \subseteq Nat

VARIABLES
    sessionOf,   \* the session of the application
    loggingOut,  \* logout: "no", "release", "reset", or "sign out"
    queue,       \* syncQueue: operations [op, uid, token], the head is running
    running,     \* the request the head awaits: "none", "deactivate", "register"
    observed, synced, activeUid,  \* observedToken, syncedByUid, activeUid
    devices,     \* active devices at the backend: <<person, token>>
    unsettled,   \* history: a request failed, or the application was killed
    pushBudget

pushVars == <<sessionOf, loggingOut, queue, running, observed, synced, activeUid,
              devices, unsettled, pushBudget>>

Op(op, u, t) == [op |-> op, uid |-> u, token |-> t]
Draw(b) == pushBudget[b] > 0 /\ pushBudget' = [pushBudget EXCEPT ![b] = @ - 1]

PushInit ==
    /\ sessionOf = NoPerson /\ loggingOut = "no"
    /\ queue = <<Op("set", NoPerson, NoToken)>> /\ running = "none"
    /\ observed = NoToken /\ activeUid = NoPerson
    /\ synced = [u \in People |-> NoToken]
    /\ devices = {} /\ unsettled = FALSE
    /\ pushBudget = [signIns |-> MaxPushSignIns, tokens |-> MaxTokens,
                     faults |-> MaxPushFaults, kills |-> MaxKills]
--------------------------------------------------------------------------------
(* enqueue                                                                    *)
Enqueue(o) == queue' = Append(queue, o)
Head1 == Head(queue)

(* The end of the running operation. logout goes on when the ones it awaits   *)
(* end: after the release it enqueues the reset, after the reset it signs out.*)
Done ==
    LET awaited == \/ Head1.op = "release" /\ loggingOut = "release"
                   \/ Head1 = Op("set", NoPerson, NoToken) /\ loggingOut = "reset"
    IN /\ running' = "none"
       /\ queue' = IF awaited /\ loggingOut = "release"
                   THEN Append(Tail(queue), Op("set", NoPerson, NoToken)) ELSE Tail(queue)
       /\ loggingOut' = IF ~awaited THEN loggingOut
                        ELSE IF loggingOut = "release" THEN "reset" ELSE "sign out"

(* The effect on user?.uid enqueues setAuthenticatedUid.                      *)
PushSignIn ==
    /\ sessionOf = NoPerson /\ Draw("signIns")
    /\ \E u \in People : sessionOf' = u /\ Enqueue(Op("set", u, NoToken))
    /\ UNCHANGED <<loggingOut, running, observed, synced, activeUid, devices, unsettled>>

(* logout: release the token, then reset the lifecycle, each awaited, then the*)
(* session ends; the effect on user?.uid resets once more.                    *)
LogoutPressed ==
    /\ sessionOf # NoPerson /\ loggingOut = "no"
    /\ loggingOut' = "release"
    /\ Enqueue(Op("release", sessionOf, NoToken))
    /\ UNCHANGED <<sessionOf, running, observed, synced, activeUid, devices, unsettled,
                   pushBudget>>

SessionEnds ==
    /\ loggingOut = "sign out"
    /\ loggingOut' = "no" /\ sessionOf' = NoPerson
    /\ Enqueue(Op("set", NoPerson, NoToken))
    /\ UNCHANGED <<running, observed, synced, activeUid, devices, unsettled, pushBudget>>

(* The phone reports a token: at registration, or because it was renewed.     *)
TokenArrives ==
    /\ Draw("tokens")
    /\ \E t \in PhoneTokens : Enqueue(Op("token", NoPerson, t))
    /\ UNCHANGED <<sessionOf, loggingOut, running, observed, synced, activeUid, devices, unsettled>>
--------------------------------------------------------------------------------
(* syncTokenForActiveUser, once activeUid and observedToken are set: release  *)
(* the previous token, register the next, remember it.                        *)
SyncingUnchecked(u, t) ==
    IF u = NoPerson THEN "none"
    ELSE IF synced[u] \notin {NoToken, t} THEN "deactivate" ELSE "register"

SyncingOnSetOnly(u, t) ==
    IF u = NoPerson \/ t = NoToken \/ Head1.op = "token" THEN "none"
    ELSE IF synced[u] \notin {NoToken, t} THEN "deactivate" ELSE "register"

Syncing(u, t) ==
    IF u = NoPerson \/ t = NoToken THEN "none"
    ELSE IF synced[u] \notin {NoToken, t} THEN "deactivate" ELSE "register"

Begin ==
    /\ queue # <<>> /\ running = "none"
    /\ activeUid' = IF Head1.op = "set" THEN Head1.uid ELSE activeUid
    /\ observed' = IF Head1.op = "token" THEN Head1.token ELSE observed
    /\ LET next == IF Head1.op = "release"
                     THEN IF synced[Head1.uid] = NoToken THEN "none" ELSE "deactivate"
                     ELSE Syncing(activeUid', observed')
       IN IF next = "none" /\ Head1.op # "release"
            THEN Done
            ELSE /\ running' = IF next = "none" THEN "forget" ELSE next
                 /\ UNCHANGED <<queue, loggingOut>>
    /\ UNCHANGED <<sessionOf, synced, devices, unsettled, pushBudget>>

(* deactivateDevice and registerDevice reach the backend as the user signed in.*)
WithoutDevice(u, t) == devices \ {<<u, t>>}
WithDevice(u, t) == devices \cup {<<u, t>>}

RequestFailsUncaught ==
    /\ running \in {"deactivate", "register"} /\ Draw("faults")
    /\ unsettled' = TRUE
    /\ queue' = Tail(queue) /\ running' = "none"
    /\ UNCHANGED <<sessionOf, loggingOut, observed, synced, activeUid, devices>>

(* The request fails: a failed release or registration abandons the operation,*)
(* a failed deactivation of a replaced token is passed over.                  *)
RequestFails ==
    /\ running \in {"deactivate", "register"} /\ Draw("faults")
    /\ unsettled' = TRUE
    /\ IF running = "deactivate" /\ Head1.op # "release"
         THEN running' = "register" /\ UNCHANGED <<queue, loggingOut>>
         ELSE Done
    /\ UNCHANGED <<sessionOf, observed, synced, activeUid, devices>>

StaleDeactivated ==
    /\ running = "deactivate" /\ Head1.op # "release"
    /\ devices' = WithoutDevice(sessionOf, synced[activeUid])
    /\ running' = "register"
    /\ UNCHANGED <<sessionOf, loggingOut, queue, observed, synced, activeUid, unsettled,
                   pushBudget>>

Registered ==
    /\ running = "register"
    /\ devices' = WithDevice(sessionOf, observed)
    /\ synced' = [synced EXCEPT ![activeUid] = observed]
    /\ Done
    /\ UNCHANGED <<sessionOf, observed, activeUid, unsettled, pushBudget>>

ReleasedOnThePhone ==
    /\ running \in {"deactivate", "forget"} /\ Head1.op = "release"
    /\ synced' = [synced EXCEPT ![Head1.uid] = NoToken]
    /\ activeUid' = IF activeUid = Head1.uid THEN NoPerson ELSE activeUid
    /\ Done
    /\ UNCHANGED <<sessionOf, observed, devices, unsettled, pushBudget>>

(* deactivateSyncedTokenForUid                                                *)
Released ==
    /\ running \in {"deactivate", "forget"} /\ Head1.op = "release"
    /\ devices' = IF running = "deactivate" THEN WithoutDevice(sessionOf, synced[Head1.uid])
                  ELSE devices
    /\ synced' = [synced EXCEPT ![Head1.uid] = NoToken]
    /\ activeUid' = IF activeUid = Head1.uid THEN NoPerson ELSE activeUid
    /\ Done
    /\ UNCHANGED <<sessionOf, observed, unsettled, pushBudget>>

(* The application is killed and started again: the effect sets the restored  *)
(* user. A request under way may have reached the backend.                    *)
Killed ==
    /\ Draw("kills")
    /\ queue' = <<Op("set", sessionOf, NoToken)>> /\ running' = "none" /\ loggingOut' = "no"
    /\ activeUid' = NoPerson
    /\ devices' \in {devices} \cup
          (IF running = "register" THEN {WithDevice(sessionOf, observed)} ELSE {})
    /\ unsettled' = (unsettled \/ running # "none")
    /\ UNCHANGED <<sessionOf, observed, synced>>
--------------------------------------------------------------------------------
PushNext ==
    \/ PushSignIn \/ LogoutPressed \/ SessionEnds \/ TokenArrives
    \/ Begin \/ RequestFails \/ StaleDeactivated \/ Registered \/ Released \/ Killed

PushFairness ==
    /\ WF_pushVars(Begin \/ StaleDeactivated \/ Registered \/ Released \/ RequestFails)
    /\ WF_pushVars(SessionEnds)
PushSpec == PushInit /\ [][PushNext]_pushVars /\ PushFairness
--------------------------------------------------------------------------------
PushTypeOK ==
    /\ {sessionOf, activeUid} \subseteq People \cup {NoPerson}
    /\ loggingOut \in {"no", "release", "reset", "sign out"}
    /\ \A i \in 1..Len(queue) : /\ queue[i].op \in {"set", "release", "token"}
                                /\ queue[i].uid \in People \cup {NoPerson}
    /\ running \in {"none", "deactivate", "register", "forget"}
    /\ running # "none" => queue # <<>>
    /\ observed \in PhoneTokens \cup {NoToken}
    /\ synced \in [People -> PhoneTokens \cup {NoToken}]
    /\ devices \subseteq People \X PhoneTokens /\ unsettled \in BOOLEAN

(* When every request succeeded, a phone nobody is signed in on gets nobody's *)
(* pushes, however tokens were renewed between sign-ins and logouts.          *)
SignedOutIsSilent == sessionOf = NoPerson /\ ~unsettled => devices = {}

(* A person who stays signed in on a phone with a token gets pushes there.    *)
TokenReachesBackend ==
    \A u \in People, t \in PhoneTokens :
        (sessionOf = u /\ observed = t)
            ~> (<<u, t>> \in devices \/ sessionOf # u \/ loggingOut # "no" \/ observed # t
                  \/ unsettled)

(* A logout ends the session although a clean-up request failed.              *)
LogoutEnds == (loggingOut # "no") ~> (loggingOut = "no")
================================================================================
