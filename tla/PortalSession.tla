----------------------------- MODULE PortalSession -----------------------------
(* The session of the support portal, services/gcp_auth_driver.ts, with its    *)
(* login page, the route that guards the dashboard and the interceptor that    *)
(* gives each request its token. The session is kept in memory and in          *)
(* localStorage; a refresh that is under way saves what it brings back, even   *)
(* when the agent has signed out or another has signed in meanwhile.           *)
EXTENDS Naturals, FiniteSets

CONSTANTS People, MaxSignIns, MaxSignOuts, MaxCalls, MaxReloads, MaxPortalFaults

ASSUME PortalAssumption ==
    /\ "nobody" \notin People
    /\ {MaxSignIns, MaxSignOuts, MaxCalls, MaxReloads, MaxPortalFaults} \subseteq Nat

VARIABLES
    session,   \* in memory: whose tokens they are, and the email beside them
    kept,      \* localStorage: the same
    fresh,     \* the token is not close to expiring
    routeUser, \* what the listener of ProtectedRoute was told
    page,      \* "login", "waiting" (the route has not been told) or "dashboard"
    signIns,   \* sign-ins the identity service is asked: who
    calls,     \* requests: [id, at, whose], waiting for a refresh or sent
    portalBudget

portalVars == <<session, kept, fresh, routeUser, page, signIns, calls, portalBudget>>

NoOne == [uid |-> "nobody", email |-> "nobody"]
SessionOf(p) == [uid |-> p, email |-> p]
PayFor(b) == portalBudget[b] > 0 /\ portalBudget' = [portalBudget EXCEPT ![b] = @ - 1]

PortalInit ==
    /\ session = NoOne /\ kept = NoOne /\ fresh = FALSE
    /\ routeUser = FALSE /\ page = "waiting"
    /\ signIns = {} /\ calls = {}
    /\ portalBudget = [signIns |-> MaxSignIns, signOuts |-> MaxSignOuts, calls |-> MaxCalls,
                       reloads |-> MaxReloads, faults |-> MaxPortalFaults]
--------------------------------------------------------------------------------
(* notifyListeners: the route is told while it is mounted, and is mounted where*)
(* the dashboard is shown.                                                     *)
NotifyListeners(s) ==
    IF page = "login" THEN UNCHANGED <<routeUser, page>>
    ELSE /\ routeUser' = (s # NoOne)
         /\ page' = IF s = NoOne THEN "login" ELSE "dashboard"

SaveSession(s) == session' = s /\ kept' = s /\ fresh' = TRUE /\ NotifyListeners(s)
ClearSessionKeepsEmail ==
    /\ session' = [session EXCEPT !.uid = "nobody"] /\ kept' = session'
    /\ fresh' = FALSE /\ NotifyListeners(NoOne)
ClearSessionQuietly ==
    /\ session' = NoOne /\ kept' = NoOne /\ fresh' = FALSE
    /\ UNCHANGED <<routeUser, page>>
ClearSession == session' = NoOne /\ kept' = NoOne /\ fresh' = FALSE /\ NotifyListeners(NoOne)

(* The route is mounted and told the current user at once.                     *)
MountRoute ==
    /\ page = "waiting"
    /\ NotifyListeners(session)
    /\ UNCHANGED <<session, kept, fresh, signIns, calls, portalBudget>>

(* handleLogin; the button is not off while a sign-in is under way.            *)
HandleLogin ==
    /\ page = "login" /\ PayFor("signIns")
    /\ \E p \in People \ signIns : signIns' = signIns \cup {p}
    /\ UNCHANGED <<session, kept, fresh, routeUser, page, calls>>

(* signInWithEmailAndPassword answered: the session is saved, which tells the  *)
(* listeners, then the handler goes to the dashboard, whose route is mounted.  *)
LoginAnswered ==
    \E p \in signIns :
        /\ signIns' = signIns \ {p}
        /\ \/ /\ session' = SessionOf(p) /\ kept' = SessionOf(p) /\ fresh' = TRUE
              /\ routeUser' = TRUE /\ page' = "dashboard"
              /\ UNCHANGED portalBudget
           \/ PayFor("faults") /\ UNCHANGED <<session, kept, fresh, routeUser, page>>
        /\ UNCHANGED calls

SignOut ==
    /\ page = "dashboard" /\ PayFor("signOuts")
    /\ ClearSession
    /\ UNCHANGED <<signIns, calls>>
--------------------------------------------------------------------------------
Expires ==
    /\ fresh /\ fresh' = FALSE
    /\ UNCHANGED <<session, kept, routeUser, page, signIns, calls, portalBudget>>

NewCall(at) == [at |-> at, whose |-> session.uid,
                id |-> CHOOSE n \in 1..Cardinality(calls) + 1 : \A c \in calls : c.id # n]

(* The interceptor: a request of the dashboard takes the token, or refreshes it*)
(* first; each request refreshes on its own.                                   *)
Call ==
    /\ page = "dashboard" /\ session # NoOne /\ PayFor("calls")
    /\ calls' = calls \cup {NewCall(IF fresh THEN "sent" ELSE "refreshing")}
    /\ UNCHANGED <<session, kept, fresh, routeUser, page, signIns>>

(* refreshAuthToken was answered: it saves the uid that came back, under the   *)
(* email of whoever is signed in now. A refused refresh ends the session; one  *)
(* that did not reach the service leaves it.                                   *)
Refreshed(c) ==
    /\ SaveSession([uid |-> c.whose, email |-> session.email])
    /\ calls' = (calls \ {c}) \cup {[c EXCEPT !.at = "sent"]}
    /\ UNCHANGED portalBudget

Refused(c) ==
    /\ PayFor("faults")
    /\ ClearSession \/ UNCHANGED <<session, kept, fresh, routeUser, page>>
    /\ calls' = calls \ {c}

RefreshEnds ==
    \E c \in calls :
        /\ c.at = "refreshing"
        /\ Refreshed(c) \/ Refused(c)
        /\ UNCHANGED signIns

CallAnswered ==
    \E c \in calls :
        /\ c.at = "sent" /\ calls' = calls \ {c}
        /\ UNCHANGED <<session, kept, fresh, routeUser, page, signIns, portalBudget>>

(* The portal is opened again at its first page: restoreSession runs as the    *)
(* module is loaded; nothing under way survives.                               *)
RestoreSession ==
    /\ PayFor("reloads")
    /\ session' = kept
    /\ page' = "waiting" /\ routeUser' = FALSE
    /\ signIns' = {} /\ calls' = {}
    /\ UNCHANGED <<kept, fresh>>

PortalNext ==
    \/ MountRoute \/ HandleLogin \/ LoginAnswered \/ SignOut \/ Expires
    \/ Call \/ RefreshEnds \/ CallAnswered \/ RestoreSession

PortalSpec == PortalInit /\ [][PortalNext]_portalVars
--------------------------------------------------------------------------------
PortalTypeOK ==
    /\ {session, kept} \subseteq [uid : People \cup {"nobody"}, email : People \cup {"nobody"}]
    /\ {fresh, routeUser} \subseteq BOOLEAN
    /\ \A s \in {session, kept} : s.uid = "nobody" => s = NoOne
    /\ page \in {"login", "waiting", "dashboard"}
    /\ signIns \subseteq People
    /\ \A c \in calls : c.at \in {"refreshing", "sent"} /\ c.whose \in People \cup {"nobody"}

(* The dashboard is shown to no one but a user with a session, however sign-ins,*)
(* refused refreshes and reloads fall together: who loses it is at the login    *)
(* page. And what memory holds is what a reload would restore.                  *)
DashboardNeedsSession ==
    /\ page = "dashboard" => routeUser /\ session # NoOne
    /\ session = kept

(* Not ensured: after signing out, nobody is signed in but by signing in.       *)
SignOutIsFinal ==
    [][session = NoOne /\ session' # NoOne => signIns' # signIns \/ page' = "waiting"]_portalVars

(* Not ensured: the email beside the tokens is their user's.                    *)
OneIdentity == session.uid = session.email
================================================================================
