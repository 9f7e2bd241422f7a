------------------------------ MODULE Onboarding -------------------------------
(* How a visitor of frontend-app gets from a link to the application: signing *)
(* up or in, verifying the e-mail address, choosing a plan, Stripe's checkout *)
(* and household invitations (pages/Signup, Login, VerifyEmail, PlanSelection,*)
(* CheckoutStart, CheckoutSuccess, JoinHousehold, PricingRedirect,            *)
(* developers/DeveloperAuth, components/ProtectedRoute).                      *)
(* An address is the sequence of its page and of the returnUrl it carries,    *)
(* which is an address again.                                                 *)
EXTENDS Naturals, Sequences, SequencesExt

CONSTANTS Entries,     \* addresses of the links that lead into the application
          SameOrigin,  \* marketing and application share an origin
          MaxLoads,    \* page loads and deep links the visitor makes
          MaxFaults    \* requests that fail

ASSUME OnboardingAssumption ==
    /\ Entries \subseteq Seq({"signup", "devSignup", "join", "start", "pricing"}) \ {<<>>}
    /\ SameOrigin \in BOOLEAN /\ MaxLoads \in Nat /\ MaxFaults \in Nat

VARIABLES
    url,                      \* address shown
    signedIn, profile, lost,  \* AuthProvider: profile's status; a fetch failed
    call,                     \* the handler of each page, and where it began
    server, paid, invite, joined,  \* account status, checkout, invitation
    loads, faults

onVars == <<url, signedIn, profile, lost, call, server, paid, invite, joined, loads, faults>>
client == <<url, signedIn, profile, lost, call, loads>>
backend == <<server, paid, invite, joined>>

Protected == {"app", "start", "success"}
Screens == Protected \cup {"login", "signup", "devSignup", "verify", "plan", "join",
                           "pricing", "marketing", "stripe"}
Statuses == {"unverified", "unplanned", "active"}
Handlers == {"login", "signup", "code", "pick", "start", "payment", "join"}

NotRunning == [pc |-> "idle", at |-> <<>>]
NoCalls == [h \in Handlers |-> NotRunning]
page == Head(url)
Return(u) == IF Tail(u) = <<>> THEN <<"app">> ELSE Tail(u)
HasInvite(u) == "join" \in ToSet(u)
Fault == faults < MaxFaults /\ faults' = faults + 1
--------------------------------------------------------------------------------
(* ProtectedRoute around the pages of the application.                        *)
RouteGuard ==
    IF ~signedIn THEN <<"login">> \o url
    ELSE IF profile = "unverified" THEN <<"verify">> \o url
    ELSE IF profile = "unplanned" /\ page # "success" THEN <<"plan">> \o url
    ELSE url

(* Mutant: whoever has a plan or needs none yet is sent on.                   *)
VerifyEmailLetsThrough ==
    IF HasInvite(Tail(url)) THEN Tail(url)
    ELSE IF profile = "unplanned" THEN <<"plan">> \o Tail(url)
    ELSE Return(url)

VerifyEmailEffect ==
    IF HasInvite(Tail(url)) THEN Tail(url)
    ELSE IF profile = "unplanned" THEN <<"plan">> \o Tail(url)
    ELSE IF profile = "active" THEN Return(url) ELSE url

PlanSelectionEffect ==
    IF ~signedIn THEN <<"signup">> \o url
    ELSE IF profile = "unverified" THEN <<"verify">> \o url
    ELSE IF profile = "active" THEN Return(url) ELSE url

(* Whether the invitee has an account is known to the backend.                *)
JoinEffect ==
    IF signedIn \/ invite # "open" THEN url
    ELSE <<IF server = "none" THEN "signup" ELSE "login">> \o <<"join">>

(* A returnUrl to /checkout/start is replaced by the one nested in it.        *)
PricingEffect ==
    IF SameOrigin
    THEN Return(IF Len(url) > 1 /\ url[2] = "start" THEN Tail(url) ELSE url)
    ELSE <<"marketing">>

Target == CASE page \in Protected -> RouteGuard
            [] page = "verify" -> VerifyEmailEffect
            [] page = "plan" -> PlanSelectionEffect
            [] page = "join" -> JoinEffect
            [] page = "pricing" -> PricingEffect
            [] OTHER -> url

Settled == Target = url
(* Only the marketing site is another page load: the handlers are dropped.    *)
Redirect == /\ ~Settled /\ url' = Target
            /\ call' = IF url' = <<"marketing">> THEN NoCalls ELSE call
            /\ UNCHANGED <<signedIn, profile, lost, loads, faults, backend>>
--------------------------------------------------------------------------------
(* A page load drops every handler and fetches the profile anew.              *)
FetchProfile ==
    IF ~signedIn THEN profile' = "none" /\ UNCHANGED <<lost, faults>>
    ELSE \/ profile' = server /\ lost' = FALSE /\ UNCHANGED faults
         \/ profile' = "none" /\ lost' = TRUE /\ Fault

Load(u) == /\ url' = u
           /\ call' = NoCalls
           /\ FetchProfile
           /\ UNCHANGED signedIn

OpenLink(u) == /\ Settled /\ loads < MaxLoads /\ loads' = loads + 1
               /\ Load(u) /\ UNCHANGED backend

(* NativeDeepLinkHandler navigates inside the running application.            *)
DeepLink(u) == /\ Settled /\ loads < MaxLoads /\ loads' = loads + 1
               /\ url' = u
               /\ UNCHANGED <<signedIn, profile, lost, call, faults, backend>>

(* The links between the forms; the one of Signup drops the returnUrl.        *)
FollowLink ==
    /\ Settled
    /\ \/ page = "login" /\ url' = <<"signup">> \o Tail(url)
       \/ page = "signup" /\ url' = <<"login">>
       \/ page = "success" /\ call["payment"].pc = "error" /\ url' \in {<<"pricing">>, <<"app">>}
       \/ /\ page = "join" /\ url' = <<"app">>
          /\ call["join"].pc = "error" \/ (call["join"].pc = "idle" /\ invite # "open")
    /\ UNCHANGED <<signedIn, profile, lost, call, loads, faults, backend>>

(* The links of the marketing site into the application carry no returnUrl.   *)
LeaveMarketing ==
    /\ page = "marketing"
    /\ \E p \in {"signup", "login"} : Load(<<p>>)
    /\ UNCHANGED <<loads, backend>>
--------------------------------------------------------------------------------
Begins(h, p) == /\ page = p /\ Settled /\ call[h].pc \in {"idle", "error"}
                /\ call' = [call EXCEPT ![h] = [pc |-> "request", at |-> url]]
                /\ UNCHANGED <<url, signedIn, profile, lost, loads, faults, backend>>
Answers(h, pc) == call[h].pc = pc
Continues(h, pc) == call' = [call EXCEPT ![h].pc = pc]
(* Mutant: a handler that ends is not ready for another click.                *)
EndsDone(h) == call' = [call EXCEPT ![h].pc = "done"]
Ends(h) == call' = [call EXCEPT ![h] = NotRunning]

Fails(h) == /\ Answers(h, "request") /\ Fault
            /\ Continues(h, "error")
            /\ UNCHANGED <<url, signedIn, profile, lost, loads, backend>>

(* Mutant: the profile's answer is not awaited.                               *)
RefetchNotAwaited == UNCHANGED <<profile, lost, faults>>

(* `await refetchProfile()`; it resolves without a profile when it failed.    *)
Refetch == \/ profile' = server /\ lost' = FALSE /\ UNCHANGED faults
           \/ lost' = TRUE /\ UNCHANGED profile /\ Fault

SignIn(h, status, u) ==
    /\ Ends(h) /\ url' = u /\ signedIn' = TRUE
    /\ \/ profile' = status /\ lost' = FALSE /\ UNCHANGED faults
       \/ profile' = "none" /\ lost' = TRUE /\ Fault
    /\ UNCHANGED loads

LoginSubmitted == Begins("login", "login")
LoginAnswered ==
    /\ Answers("login", "request") /\ server # "none"
    /\ SignIn("login", server, Return(call["login"].at))
    /\ UNCHANGED backend

SignupSubmitted == Begins("signup", "signup")
DevSignupSubmitted == Begins("signup", "devSignup")
(* Mutant: verifying the e-mail forgets where the visitor was going.          *)
SignupForgets ==
    /\ Answers("signup", "request") /\ server = "none"
    /\ server' = "unverified"
    /\ SignIn("signup", "unverified", <<"verify">>)
    /\ UNCHANGED <<paid, invite, joined>>

SignupAnswered ==
    LET from == call["signup"].at IN
    /\ Answers("signup", "request") /\ server = "none"
    /\ server' = "unverified"
    /\ SignIn("signup", "unverified",
              IF Head(from) = "devSignup" THEN <<"app">> ELSE <<"verify">> \o Tail(from))
    /\ UNCHANGED <<paid, invite, joined>>

CodeSubmitted == signedIn /\ Begins("code", "verify")
CodeAnswered ==
    \/ /\ Answers("code", "request")
       /\ Continues("code", "refetch")
       /\ server' = IF server = "unverified" THEN "unplanned" ELSE server
       /\ UNCHANGED <<url, signedIn, profile, lost, loads, faults, paid, invite, joined>>
    \/ /\ Answers("code", "refetch")
       /\ Refetch /\ Ends("code")
       /\ UNCHANGED <<url, signedIn, loads, backend>>
--------------------------------------------------------------------------------
ToStripe(from) == Load(<<"stripe", "success">> \o Tail(from))

(* handleSelectPlan: the free plan, or a checkout session.                    *)
PlanPicked == signedIn /\ profile # "none" /\ Begins("pick", "plan")

PlanAnswered ==
    \/ /\ Answers("pick", "request")
       /\ server' = "active" /\ Continues("pick", "refetch")
       /\ UNCHANGED <<url, signedIn, profile, lost, loads, faults, paid, invite, joined>>
    \/ /\ Answers("pick", "refetch")
       /\ Refetch /\ Ends("pick") /\ url' = Return(call["pick"].at)
       /\ UNCHANGED <<signedIn, loads, backend>>
    \/ /\ Answers("pick", "request")
       /\ ToStripe(call["pick"].at)
       /\ UNCHANGED <<loads, backend>>

(* CheckoutStart's effect; a failure makes it run again.                      *)
CheckoutBegins == profile # "none" /\ Begins("start", "start")
CheckoutAnswered ==
    /\ Answers("start", "request")
    /\ \/ ToStripe(call["start"].at) /\ UNCHANGED <<loads, backend>>
       \/ /\ Ends("start")                                  \* the free plan
          /\ url' = LET to == Return(call["start"].at)
                    IN IF Head(to) = "start" THEN <<"app">> ELSE to
          /\ server' = "active"
          /\ UNCHANGED <<signedIn, profile, lost, loads, faults, paid, invite, joined>>

(* Stripe sends the buyer back, paid or not; its webhook comes when it comes. *)
StripeReturns ==
    /\ page = "stripe"
    /\ paid' \in {paid, TRUE}
    /\ Load(Tail(url))
    /\ UNCHANGED <<server, invite, joined, loads>>
StripeWebhook ==
    /\ paid /\ server = "unplanned" /\ server' = "active"
    /\ UNCHANGED <<client, faults, paid, invite, joined>>

PaymentBegins == signedIn /\ profile # "none" /\ call["payment"].pc # "error"
                 /\ Begins("payment", "success")

PaymentUnverified ==
    /\ Answers("payment", "request") /\ ~paid
    /\ Continues("payment", "error")
    /\ UNCHANGED <<url, signedIn, profile, lost, loads, faults, backend>>

PaymentAnswered ==
    \/ /\ Answers("payment", "request") /\ paid
       /\ server' = "active" /\ Continues("payment", "refetch")
       /\ UNCHANGED <<url, signedIn, profile, lost, loads, faults, paid, invite, joined>>
    \/ /\ Answers("payment", "refetch")
       /\ Refetch /\ Continues("payment", "timer")
       /\ UNCHANGED <<url, signedIn, loads, backend>>
    \/ /\ Answers("payment", "timer")
       /\ Ends("payment") /\ url' = Return(call["payment"].at)
       /\ UNCHANGED <<signedIn, profile, lost, loads, faults, backend>>

(* JoinHousehold: accept, announce, and go to the dashboard after 2 seconds.  *)
JoinSubmitted == signedIn /\ invite = "open" /\ Begins("join", "join")

JoinAnswered ==
    \/ /\ Answers("join", "request") /\ invite = "open"
       /\ invite' = "used" /\ joined' = TRUE
       /\ server' = IF server = "unplanned" THEN "active" ELSE server
       /\ Continues("join", "timer")
       /\ UNCHANGED <<url, signedIn, profile, lost, loads, faults, paid>>
    \/ /\ Answers("join", "timer")
       /\ Ends("join") /\ url' = <<"app">>
       /\ UNCHANGED <<signedIn, profile, lost, loads, faults, backend>>
--------------------------------------------------------------------------------
OnboardingInit ==
    /\ url \in {<<p>> : p \in {"signup", "join", "start"}}
    /\ server \in {"none"} \cup Statuses
    /\ signedIn = FALSE /\ profile = "none" /\ lost = FALSE
    /\ call = NoCalls
    /\ paid = FALSE /\ invite = "open" /\ joined = FALSE
    /\ loads = 0 /\ faults = 0

OnboardingNext ==
    \/ Redirect \/ FollowLink
    \/ \E u \in Entries : OpenLink(u) \/ DeepLink(u)
    \/ \E h \in Handlers : Fails(h)
    \/ LeaveMarketing \/ LoginSubmitted \/ LoginAnswered
    \/ SignupSubmitted \/ DevSignupSubmitted \/ SignupAnswered
    \/ CodeSubmitted \/ CodeAnswered \/ PlanPicked \/ PlanAnswered
    \/ CheckoutBegins \/ CheckoutAnswered \/ StripeReturns \/ StripeWebhook
    \/ PaymentBegins \/ PaymentUnverified \/ PaymentAnswered
    \/ JoinSubmitted \/ JoinAnswered

(* An effect runs after the render that changed what it depends on.           *)
OnboardingSpec == OnboardingInit /\ [][OnboardingNext]_onVars /\ WF_onVars(Redirect)
--------------------------------------------------------------------------------
OnboardingTypeOK ==
    /\ url \in Seq(Screens) \ {<<>>}
    /\ {signedIn, lost, paid, joined} \subseteq BOOLEAN
    /\ {profile, server} \subseteq Statuses \cup {"none"}
    /\ call \in [Handlers -> [pc : {"idle", "request", "refetch", "timer", "error"},
                              at : Seq(Screens)]]
    /\ invite \in {"open", "used"}
    /\ loads \in 0 .. MaxLoads /\ faults \in 0 .. MaxFaults

(* The redirects of the pages and of ProtectedRoute, each written on its own, *)
(* never send a visitor round in circles.                                     *)
RedirectsSettle == ~Settled ~> Settled

(* Leaving the plan selection with the free plan, or the checkout with a      *)
(* confirmed payment, the application knows that the account is active unless *)
(* the profile could not be loaded: nobody is asked for a plan a second time. *)
ReturnsActive ==
    [][\A h \in {"pick", "payment"} :
          /\ call[h].pc \in {"refetch", "timer"}
          /\ call'[h].pc = "idle" /\ loads' = loads /\ url' # <<"marketing">>
          => profile' = "active" \/ lost']_onVars

(* An invitation someone follows is not lost on the way through signing up,   *)
(* signing in and verifying the address.                                      *)
InviteKept ==
    [][/\ invite = "open"
       /\ \/ HasInvite(url) /\ Redirect
          \/ HasInvite(call["login"].at) /\ LoginAnswered
          \/ HasInvite(call["signup"].at) /\ SignupAnswered
       => HasInvite(url')]_onVars

(* The household service makes the account active so that new members are not *)
(* "redirected to pricing" (household_service.py:311) after joining.          *)
JoinedSkipsPlans == joined /\ ~lost /\ server = "active" => page # "plan"
================================================================================
