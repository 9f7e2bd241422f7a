------------------------------ MODULE WebSession -------------------------------
(* The signed-in session of one browser tab of frontend-app: the identity     *)
(* driver (services/gcp_auth_driver.ts), the calls of services/auth.ts and the*)
(* AuthProvider of hooks/useAuth.tsx. JavaScript runs to completion between   *)
(* two awaits, so an action is the code from one awaited answer to the next.  *)
(* The driver sets its user, both tokens and localStorage together and always *)
(* to one account: `session` is that account.                                 *)
EXTENDS Naturals, FiniteSets

CONSTANTS Users, None,
          Existing,  \* accounts the identity provider knows at first
          Mfa,       \* accounts with a second factor
          MaxSignIns, MaxLogouts, MaxPageCalls, MaxFaults

ASSUME SessionAssumption ==
    /\ None \notin Users
    /\ Existing \subseteq Users /\ Mfa \subseteq Users
    /\ {MaxSignIns, MaxLogouts, MaxPageCalls, MaxFaults} \subseteq Nat

VARIABLES
    session,             \* account of currentUser, the tokens and localStorage
    nativeLoad,          \* payload the native store is about to return at start
    user, profile, loading, waiting, backoff, gate,  \* AuthProvider
    flow,                \* where each asynchronous call stands, and for which account
    accounts, verified,  \* provider and backend
    signedOut, created,  \* history
    used                 \* how much of each bound is used

vars == <<session, nativeLoad, user, profile, loading, waiting, backoff, gate,
          flow, accounts, verified, signedOut, created, used>>

Flows == {"login", "signup", "logout", "gate", "profile", "page"}
Bounds == [signIns |-> MaxSignIns, logouts |-> MaxLogouts,
           pages |-> MaxPageCalls, faults |-> MaxFaults]
Steps == {"idle", "sign", "create", "token", "deleteToken", "pending", "delete",
          "push", "passkey", "backend", "request", "await"}

At(step, u) == [pc |-> step, uid |-> u]
Idle == At("idle", None)
Use(bound) == /\ used[bound] < Bounds[bound]
              /\ used' = [used EXCEPT ![bound] = @ + 1]

--------------------------------------------------------------------------------
(* services/auth.ts: a call with the session's token, which getIdToken first  *)
(* refreshes if it is about to expire; without a session it has no token.     *)
Calls(step, s) ==
    {At(step, s)} \cup (IF s = None THEN {} ELSE {At("token", s)})

(* refetchProfile joins the fetch in flight, waits out a 404 or 429, or starts*)
(* /auth/profile with the session s.                                          *)
CannotFetch == flow["profile"] = Idle /\ backoff
Fetching(fl, s) ==
    IF flow["profile"] # Idle THEN {fl}
    ELSE {[fl EXCEPT !["profile"] = c] : c \in Calls("request", s)}

(* The listener of onAuthStateChanged. It runs inside notifyListeners.        *)
NoOneSignedIn ==
    /\ session' = None /\ user' = None /\ profile' = None
    /\ backoff' = FALSE /\ loading' = FALSE

SignedInAs(u, fl) ==
    /\ session' = u /\ user' = u /\ signedOut' = FALSE
    /\ IF profile = u
         THEN loading' = FALSE /\ flow' = fl /\ UNCHANGED <<profile, waiting>>
         ELSE /\ profile' = None
              /\ IF CannotFetch
                   THEN loading' = FALSE /\ flow' = fl /\ UNCHANGED waiting
                   ELSE /\ waiting' = waiting + 1
                        /\ flow' \in Fetching(fl, u)
                        /\ UNCHANGED loading
    /\ UNCHANGED backoff

(* The five seconds some listener races its profile fetch with are over.      *)
TimerIgnored ==
    /\ waiting > 0
    /\ waiting' = waiting - 1
    /\ UNCHANGED <<session, nativeLoad, user, profile, loading, backoff, gate, flow,
                   accounts, verified, signedOut, created, used>>

Timer ==
    /\ waiting > 0
    /\ waiting' = waiting - 1 /\ loading' = FALSE
    /\ UNCHANGED <<session, nativeLoad, user, profile, backoff, gate, flow,
                   accounts, verified, signedOut, created, used>>

(* The mount effect calls the listener with the restored user.                *)
Mounted(s, fl) ==
    /\ session' = s /\ user' = s /\ profile' = None /\ backoff' = FALSE
    /\ gate' = FALSE /\ loading' = (s # None)
    /\ waiting' = (IF s = None THEN 0 ELSE 1)
    /\ flow' \in (IF s = None THEN {fl}
                  ELSE {[fl EXCEPT !["profile"] = c] : c \in Calls("request", s)})

Reload ==
    /\ Use("pages")
    /\ Mounted(session, [f \in Flows |-> Idle])
    /\ signedOut' = (session = None)
    /\ created' = None
    /\ UNCHANGED <<nativeLoad, accounts, verified>>

(* localStorage was evicted: the native store answers, maybe after a sign-in. *)
NativeRestore ==
    /\ nativeLoad # None
    /\ nativeLoad' = None
    /\ SignedInAs(nativeLoad, flow)
    /\ UNCHANGED <<gate, accounts, verified, created, used>>
--------------------------------------------------------------------------------
(* The end of a profile fetch resumes whoever awaits it.                      *)
Awaits(f) == flow[f].pc = "await"

EndFetchOfOne(asksMfa) ==
    /\ flow' = [f \in Flows |-> IF f = "profile" \/ Awaits(f) THEN Idle ELSE flow[f]]
    /\ waiting' = waiting - 1
    /\ gate' = ((gate \/ asksMfa) /\ ~Awaits("gate"))

EndFetch(asksMfa) ==
    /\ flow' = [f \in Flows |-> IF f = "profile" \/ Awaits(f) THEN Idle ELSE flow[f]]
    /\ waiting' = 0
    /\ gate' = ((gate \/ asksMfa) /\ ~Awaits("gate"))

DoneLoading == loading /\ waiting = 0 /\ ~Awaits("login") /\ ~Awaits("signup")

ProfileAnswer ==
    /\ flow["profile"].pc = "request"
    /\ LET u == flow["profile"].uid
           known == u \in accounts
           asksMfa == known /\ u \in Mfa \ verified
       IN /\ EndFetch(asksMfa /\ session # None)
          /\ \/ /\ known /\ ~asksMfa
                /\ profile' = u /\ backoff' = FALSE /\ UNCHANGED used
             \/ /\ ~known \/ asksMfa
                /\ backoff' = FALSE /\ UNCHANGED <<profile, used>>
             \/ /\ Use("faults")
                /\ backoff' \in BOOLEAN /\ UNCHANGED profile
    /\ loading' = DoneLoading
    /\ UNCHANGED <<session, nativeLoad, user, accounts, verified, signedOut, created>>

(* PROFILE_RETRY_DELAY_MS has passed.                                         *)
BackoffOver ==
    /\ backoff
    /\ backoff' = FALSE
    /\ UNCHANGED <<session, nativeLoad, user, profile, loading, waiting, gate, flow,
                   accounts, verified, signedOut, created, used>>

(* `await refetchProfile()` at the end of a flow.                             *)
FinishWithProfile(f) ==
    IF session = None \/ CannotFetch
    THEN /\ flow' = [flow EXCEPT ![f] = Idle]
         /\ loading' = (loading /\ f = "gate")
         /\ gate' = (gate /\ f # "gate")
         /\ profile' = IF session = None THEN None ELSE profile
         /\ backoff' = (backoff /\ session # None)
    ELSE /\ flow' \in Fetching([flow EXCEPT ![f] = At("await", None)], session)
         /\ UNCHANGED <<loading, gate, profile, backoff>>
--------------------------------------------------------------------------------
(* refreshAuthToken: the answer belongs to the account whose refresh token was*)
(* sent, whatever the session is by now, and saveSession stores it silently.  *)
AfterToken == [login |-> {"backend"}, signup |-> {"pending"}, logout |-> {"backend"},
               gate |-> {"backend", "passkey"}, profile |-> {"request"}, page |-> {"request"}]

RefreshedLoudly(f) ==
    /\ flow[f].pc \in {"token", "deleteToken"}
    /\ flow[f].uid \in accounts
    /\ session' = flow[f].uid /\ user' = flow[f].uid
    /\ \E step \in (IF flow[f].pc = "token" THEN AfterToken[f] ELSE {"delete"}) :
           flow' = [flow EXCEPT ![f].pc = step]
    /\ UNCHANGED <<nativeLoad, profile, loading, waiting, backoff, gate,
                   accounts, verified, signedOut, created, used>>

Refreshed(f) ==
    /\ flow[f].pc \in {"token", "deleteToken"}
    /\ flow[f].uid \in accounts
    /\ session' = flow[f].uid
    /\ \E step \in (IF flow[f].pc = "token" THEN AfterToken[f] ELSE {"delete"}) :
           flow' = [flow EXCEPT ![f].pc = step]
    /\ UNCHANGED <<nativeLoad, user, profile, loading, waiting, backoff, gate,
                   accounts, verified, signedOut, created, used>>

RefreshFailed(f) ==
    /\ flow[f].pc \in {"token", "deleteToken"}
    /\ IF flow[f].uid \in accounts THEN Use("faults") ELSE UNCHANGED used
    /\ NoOneSignedIn
    /\ IF f = "profile"
         THEN EndFetch(FALSE)
         ELSE flow' = [flow EXCEPT ![f] = Idle] /\ UNCHANGED <<waiting, gate>>
    /\ signedOut' = TRUE
    /\ UNCHANGED <<nativeLoad, accounts, verified, created>>

(* A page's own call through apiFetch; only the refresh and the 403 matter.   *)
PageCall ==
    /\ flow["page"] = Idle /\ session # None
    /\ Use("pages")
    /\ \E c \in Calls("request", session) : flow' = [flow EXCEPT !["page"] = c]
    /\ UNCHANGED <<session, nativeLoad, user, profile, loading, waiting, backoff,
                   gate, accounts, verified, signedOut, created>>

PageAnswer ==
    /\ flow["page"].pc = "request"
    /\ flow' = [flow EXCEPT !["page"] = Idle]
    /\ gate' = (gate \/ (session # None /\ flow["page"].uid \in Mfa \ verified))
    /\ UNCHANGED <<session, nativeLoad, user, profile, loading, waiting, backoff,
                   accounts, verified, signedOut, created, used>>
--------------------------------------------------------------------------------
(* login of useAuth.tsx: sign in, refresh, tell the backend, load the profile.*)
LoginSubmit(u) ==
    /\ flow["login"] = Idle
    /\ Use("signIns")
    /\ flow' = [flow EXCEPT !["login"] = At("sign", u)]
    /\ loading' = TRUE
    /\ UNCHANGED <<session, nativeLoad, user, profile, waiting, backoff, gate,
                   accounts, verified, signedOut, created>>

FlowFailsWithoutFinally(f) ==
    /\ flow' = [flow EXCEPT ![f] = Idle]
    /\ UNCHANGED <<session, nativeLoad, user, profile, loading, waiting, backoff,
                   accounts, verified, signedOut, created>>

FlowFails(f) ==
    /\ flow' = [flow EXCEPT ![f] = Idle]
    /\ loading' = FALSE
    /\ UNCHANGED <<session, nativeLoad, user, profile, waiting, backoff, accounts,
                   verified, signedOut, created>>

SignInAnswer ==
    LET u == flow["login"].uid IN
    /\ flow["login"].pc = "sign"
    /\ \/ /\ u \in accounts
          /\ SignedInAs(u, [flow EXCEPT !["login"] = At("token", u)])
          /\ verified' = verified \ {u}
          /\ UNCHANGED <<nativeLoad, gate, accounts, created, used>>
       \/ /\ FlowFails("login")
          /\ IF u \in accounts THEN Use("faults") ELSE UNCHANGED used
          /\ UNCHANGED gate

LoginAnswer ==
    LET u == flow["login"].uid IN
    /\ flow["login"].pc = "backend"
    /\ \/ /\ u \in accounts \ Mfa
          /\ FinishWithProfile("login")
          /\ UNCHANGED <<session, nativeLoad, user, waiting, accounts, verified,
                         signedOut, created, used>>
       \/ /\ u \in Mfa \/ u \notin accounts
          /\ FlowFails("login")
          /\ gate' = (gate \/ (u \in Mfa /\ session # None))
          /\ UNCHANGED used
       \/ /\ FlowFails("login") /\ Use("faults") /\ UNCHANGED gate
--------------------------------------------------------------------------------
(* signup: create the account, store the pending signup, and on any error     *)
(* delete whoever is signed in.                                               *)
SignupSubmit(u) ==
    /\ flow["signup"] = Idle
    /\ Use("signIns")
    /\ flow' = [flow EXCEPT !["signup"] = At("create", u)]
    /\ loading' = TRUE /\ created' = None
    /\ UNCHANGED <<session, nativeLoad, user, profile, waiting, backoff, gate,
                   accounts, verified, signedOut>>

Cleanup ==
    IF session = None
    THEN FlowFails("signup")
    ELSE /\ \E c \in {At("delete", session), At("deleteToken", session)} :
                flow' = [flow EXCEPT !["signup"] = c]
         /\ UNCHANGED <<session, nativeLoad, user, profile, loading, waiting, backoff,
                        accounts, verified, signedOut, created>>

CreateAnswer ==
    LET u == flow["signup"].uid IN
    /\ flow["signup"].pc = "create"
    /\ \/ /\ u \notin accounts
          /\ accounts' = accounts \cup {u}
          /\ created' = u
          /\ SignedInAs(u, [flow EXCEPT !["signup"] = At("token", u)])
          /\ UNCHANGED <<nativeLoad, gate, verified, used>>
       \/ /\ IF u \in accounts THEN UNCHANGED used ELSE Use("faults")
          /\ Cleanup /\ UNCHANGED gate

PendingAnswer ==
    /\ flow["signup"].pc = "pending"
    /\ \/ /\ FinishWithProfile("signup")
          /\ UNCHANGED <<session, nativeLoad, user, waiting, accounts, verified,
                         signedOut, created, used>>
       \/ Use("faults") /\ Cleanup /\ UNCHANGED gate

DeleteAnswer ==
    /\ flow["signup"].pc = "delete"
    /\ \/ /\ accounts' = accounts \ {flow["signup"].uid}
          /\ NoOneSignedIn
          /\ signedOut' = TRUE
          /\ flow' = [flow EXCEPT !["signup"] = Idle]
          /\ UNCHANGED <<nativeLoad, waiting, gate, verified, created, used>>
       \/ FlowFails("signup") /\ Use("faults") /\ UNCHANGED gate
--------------------------------------------------------------------------------
(* logout: release the push token, tell the backend, drop the session.        *)
Logout(closesGate) ==
    /\ flow["logout"] = Idle /\ Use("logouts")
    /\ IF closesGate THEN gate /\ flow["gate"] = Idle ELSE user # None /\ ~gate
    /\ gate' = FALSE /\ loading' = TRUE
    /\ flow' = [flow EXCEPT !["logout"] = At("push", session)]
    /\ UNCHANGED <<session, nativeLoad, user, profile, waiting, backoff, accounts,
                   verified, signedOut, created>>

PushReleased ==
    /\ flow["logout"].pc = "push"
    /\ \E c \in Calls("backend", session) : flow' = [flow EXCEPT !["logout"] = c]
    /\ UNCHANGED <<session, nativeLoad, user, profile, loading, waiting, backoff, gate,
                   accounts, verified, signedOut, created, used>>

LogoutAnswer ==
    /\ flow["logout"].pc = "backend"
    /\ NoOneSignedIn
    /\ signedOut' = TRUE
    /\ flow' = [flow EXCEPT !["logout"] = Idle]
    /\ UNCHANGED <<nativeLoad, waiting, gate, accounts, verified, created, used>>
--------------------------------------------------------------------------------
(* completeMfaGate: the modal that any 403 for a missing second factor opens. *)
VerifyGate ==
    /\ gate /\ flow["gate"] = Idle /\ session # None
    /\ flow' = [flow EXCEPT !["gate"] = At("token", session)]
    /\ UNCHANGED <<session, nativeLoad, user, profile, loading, waiting, backoff, gate,
                   accounts, verified, signedOut, created, used>>

PasskeyAnswer ==
    /\ flow["gate"].pc = "passkey"
    /\ \E ok \in BOOLEAN :
           flow' = [flow EXCEPT !["gate"] = IF ok THEN At("backend", @.uid) ELSE Idle]
    /\ UNCHANGED <<session, nativeLoad, user, profile, loading, waiting, backoff, gate,
                   accounts, verified, signedOut, created, used>>

GateAnswer ==
    /\ flow["gate"].pc = "backend"
    /\ \/ /\ flow["gate"].uid \in accounts
          /\ verified' = verified \cup {flow["gate"].uid}
          /\ FinishWithProfile("gate")
       \/ /\ flow' = [flow EXCEPT !["gate"] = Idle]     \* wrong code, or an error
          /\ UNCHANGED <<verified, profile, loading, gate, backoff>>
    /\ UNCHANGED <<session, nativeLoad, user, waiting, accounts, signedOut, created, used>>
--------------------------------------------------------------------------------
Init ==
    /\ \E s \in Existing \cup {None}, n \in Existing \cup {None} :
         /\ n # None => s = None
         /\ session = s /\ nativeLoad = n /\ user = s
         /\ loading = (s # None)
         /\ waiting = IF s = None THEN 0 ELSE 1
         /\ \E c \in IF s = None THEN {Idle} ELSE Calls("request", s) :
                flow = [f \in Flows |-> IF f = "profile" THEN c ELSE Idle]
         /\ verified \in {{}, Mfa \cap {s}}
    /\ profile = None /\ backoff = FALSE /\ gate = FALSE
    /\ accounts = Existing
    /\ signedOut = FALSE /\ created = None
    /\ used = [b \in DOMAIN Bounds |-> 0]

Next ==
    \/ Timer \/ Reload \/ NativeRestore \/ ProfileAnswer \/ BackoffOver
    \/ \E f \in Flows : Refreshed(f) \/ RefreshFailed(f)
    \/ PageCall \/ PageAnswer
    \/ \E u \in Users : LoginSubmit(u) \/ SignupSubmit(u)
    \/ SignInAnswer \/ LoginAnswer
    \/ CreateAnswer \/ PendingAnswer \/ DeleteAnswer
    \/ \E closesGate \in BOOLEAN : Logout(closesGate)
    \/ PushReleased \/ LogoutAnswer
    \/ VerifyGate \/ PasskeyAnswer \/ GateAnswer

(* Only the browser's timer is sure to happen; no request need be answered.   *)
Spec == Init /\ [][Next]_vars /\ WF_vars(Timer)
--------------------------------------------------------------------------------
(* What ProtectedRoute.tsx shows.                                             *)
Screen == IF loading THEN "spinner"
          ELSE IF user = None THEN "login"
          ELSE IF profile = None THEN "no profile" ELSE "page"

Busy == \E f \in {"login", "signup", "logout"} : flow[f] # Idle

TypeOK ==
    /\ {session, nativeLoad, user, profile, created} \subseteq Users \cup {None}
    /\ {loading, backoff, gate, signedOut} \subseteq BOOLEAN
    /\ waiting \in Nat
    /\ flow \in [Flows -> [pc : Steps, uid : Users \cup {None}]]
    /\ accounts \subseteq Users /\ verified \subseteq Users
    /\ used \in [DOMAIN Bounds -> Nat]

(* After a logout (or a failed refresh) the application stays closed until the*)
(* next sign-in, although a token refresh or a profile fetch that was in      *)
(* flight still answers, and the refresh even stores a session.               *)
SignedOutStaysOut == signedOut => Screen \in {"spinner", "login"}

(* The spinner never turns alone: some listener with its timer, or a login,   *)
(* signup or logout that ends it, is behind it.                               *)
SpinnerHasCause == loading => waiting > 0 \/ Busy

(* gcp cannot hang the application: the spinner of a page load ends after five*)
(* seconds whether or not any request is answered (useAuth.tsx:269).          *)
LoadEnds == Screen = "spinner" ~> Screen # "spinner" \/ Busy

(* "Best effort cleanup if backend fails after user creation" (auth.ts:136):  *)
(* a failed signup deletes no account but the one it created.                 *)
CleanupDeletesItsOwn ==
    [][\A u \in accounts \ accounts' : u = created]_vars
================================================================================
