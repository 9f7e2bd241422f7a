----------------------------- MODULE HouseholdPage -----------------------------
(* pages/Household/HouseholdPage.tsx: a user creates a household, joins one    *)
(* with an invite token, invites others to it or leaves it. The page shows what*)
(* the last answer to arrive said: the household, or the two forms for a user  *)
(* who has none, which is also what it makes of a failed load.                 *)
EXTENDS Naturals, FiniteSets

CONSTANTS MaxHouseholdPresses, MaxHouseholdFaults, MaxHouseholdElsewhere

ASSUME HouseholdPageAssumption ==
    {MaxHouseholdPresses, MaxHouseholdFaults, MaxHouseholdElsewhere} \subseteq Nat

VARIABLES
    belongs,         \* at the backend: the user's household, or None
    household,       \* on the page
    householdLoading,\* loading
    actionLoading,   \* one flag for the four handlers
    inviteOpen,      \* showInviteModal
    fetches,         \* requests for the household: [id, at, seen]
    deeds,           \* the handlers under way: [id, what, at]
    unsureHousehold, \* history: the page need not show what is stored
    householdBudget

householdPageVars == <<belongs, household, householdLoading, actionLoading, inviteOpen, fetches,
                       deeds, unsureHousehold, householdBudget>>

None == [in |-> FALSE, invites |-> 0]
Created == [in |-> TRUE, invites |-> 0]
Disburse(b) == householdBudget[b] > 0 /\ householdBudget' = [householdBudget EXCEPT ![b] = @ - 1]

HouseholdPageInit ==
    /\ belongs \in {None, Created} /\ household = None
    /\ householdLoading = FALSE /\ actionLoading = FALSE /\ inviteOpen = FALSE
    /\ fetches = {} /\ deeds = {}
    /\ unsureHousehold = TRUE
    /\ householdBudget = [visits |-> 1, presses |-> MaxHouseholdPresses,
                          faults |-> MaxHouseholdFaults, elsewhere |-> MaxHouseholdElsewhere]
--------------------------------------------------------------------------------
(* fetchHousehold: the page is hidden until it is answered.                    *)
FetchHousehold(others) ==
    /\ fetches' = fetches \cup {[at |-> "sent", seen |-> None,
                                 id |-> CHOOSE n \in 1..Cardinality(fetches) + 1 :
                                            \A f \in fetches : f.id # n]}
    /\ householdLoading' = TRUE
    /\ unsureHousehold' = (others # {} \/ fetches # {})

VisitHousehold ==
    /\ Disburse("visits")
    /\ FetchHousehold({})
    /\ UNCHANGED <<belongs, household, actionLoading, inviteOpen, deeds>>

HouseholdRead ==
    \E f \in fetches :
        /\ f.at = "sent"
        /\ fetches' = (fetches \ {f}) \cup {[f EXCEPT !.at = "read", !.seen = belongs]}
        /\ UNCHANGED <<belongs, household, householdLoading, actionLoading, inviteOpen, deeds,
                       unsureHousehold, householdBudget>>

HouseholdAnswered ==
    \E f \in fetches :
        /\ fetches' = fetches \ {f}
        /\ householdLoading' = FALSE
        /\ \/ f.at = "read" /\ household' = f.seen /\ UNCHANGED <<unsureHousehold, householdBudget>>
           \/ Disburse("faults") /\ household' = None /\ unsureHousehold' = TRUE
        /\ UNCHANGED <<belongs, actionLoading, inviteOpen, deeds>>
--------------------------------------------------------------------------------
Visible == householdBudget["visits"] = 0 /\ ~householdLoading
Outside == Visible /\ ~household.in /\ ~actionLoading
Inside == Visible /\ household.in

(* A handler sends its request. Only Leave does not look at actionLoading.     *)
Begin(what) ==
    /\ Disburse("presses")
    /\ deeds' = deeds \cup {[what |-> what, at |-> "sent", id |-> householdBudget["presses"]]}
    /\ actionLoading' = TRUE
    /\ unsureHousehold' = (unsureHousehold \/ deeds # {} \/ fetches # {})
    /\ UNCHANGED <<belongs, household, householdLoading, inviteOpen, fetches>>

HandleCreate == Outside /\ Begin("create")
HandleAcceptInvite == Outside /\ Begin("accept")
HandleInvite == Inside /\ inviteOpen /\ ~actionLoading /\ Begin("invite")
HandleLeave == Inside /\ ~inviteOpen /\ Begin("leave")

ToggleInviteModal ==
    /\ Inside /\ inviteOpen' = ~inviteOpen
    /\ UNCHANGED <<belongs, household, householdLoading, actionLoading, fetches, deeds,
                   unsureHousehold, householdBudget>>

Accepts(d) == belongs.in <=> d.what \in {"invite", "leave"}
AfterKeepsInvites(d) == CASE d.what \in {"create", "accept"} -> Created
                           [] d.what = "invite" -> [belongs EXCEPT !.invites = @ + 1]
                           [] d.what = "leave" -> [belongs EXCEPT !.in = FALSE]
After(d) == CASE d.what \in {"create", "accept"} -> Created
              [] d.what = "invite" -> [belongs EXCEPT !.invites = @ + 1]
              [] d.what = "leave" -> None

(* The backend does it, or refuses: always when it does not apply.             *)
DeedHandled ==
    \E d \in deeds :
        /\ d.at = "sent"
        /\ \/ Accepts(d) /\ belongs' = After(d)
              /\ deeds' = (deeds \ {d}) \cup {[d EXCEPT !.at = "stored"]}
           \/ UNCHANGED belongs
              /\ deeds' = (deeds \ {d}) \cup {[d EXCEPT !.at = "refused"]}
        /\ UNCHANGED <<household, householdLoading, actionLoading, inviteOpen, fetches,
                       unsureHousehold, householdBudget>>

(* What a handler does with its answer: show the household created, or none    *)
(* after leaving; load it anew after an invitation was sent or accepted. All   *)
(* but an invitation then wait for the profile.                                *)
ReloadsNone(d) == FALSE
Reloads(d) == d.what \in {"invite", "accept"}

Follow(d) ==
    IF Reloads(d) THEN FetchHousehold(deeds \ {d}) /\ UNCHANGED household
    ELSE /\ household' = CASE d.what = "create" -> Created
                           [] d.what = "leave" -> None
                           [] OTHER -> household
         /\ UNCHANGED <<fetches, householdLoading, unsureHousehold>>

DeedAnswered ==
    \E d \in deeds :
        /\ \/ /\ d.at = "stored" /\ Follow(d)
              /\ deeds' = (deeds \ {d}) \cup (IF d.what = "invite" THEN {}
                                              ELSE {[d EXCEPT !.at = "profile"]})
              /\ actionLoading' = (actionLoading /\ d.what # "invite")
              /\ inviteOpen' = (inviteOpen /\ d.what # "invite")
              /\ UNCHANGED householdBudget
           \/ /\ (d.at = "refused" /\ UNCHANGED householdBudget)
                 \/ (d.at \in {"sent", "stored"} /\ Disburse("faults"))
              /\ deeds' = deeds \ {d} /\ actionLoading' = FALSE
              /\ unsureHousehold' = (unsureHousehold \/ d.at = "stored")
              /\ UNCHANGED <<household, householdLoading, inviteOpen, fetches>>
        /\ UNCHANGED belongs

ProfileAnsweredAndIgnored ==
    \E d \in deeds :
        /\ d.at = "profile"
        /\ deeds' = deeds \ {d}
        /\ UNCHANGED <<belongs, household, householdLoading, actionLoading, inviteOpen, fetches,
                       unsureHousehold, householdBudget>>

(* refetchProfile was answered, or failed: the handler ends.                   *)
ProfileAnswered ==
    \E d \in deeds :
        /\ d.at = "profile"
        /\ deeds' = deeds \ {d} /\ actionLoading' = FALSE
        /\ UNCHANGED <<belongs, household, householdLoading, inviteOpen, fetches,
                       unsureHousehold, householdBudget>>

(* The owner removes the user, or another member's invite is accepted.         *)
HouseholdElsewhere ==
    /\ Disburse("elsewhere")
    /\ belongs.in /\ belongs' \in {None, Created}
    /\ unsureHousehold' = TRUE
    /\ UNCHANGED <<household, householdLoading, actionLoading, inviteOpen, fetches, deeds>>

HouseholdPageNext ==
    \/ VisitHousehold \/ HouseholdRead \/ HouseholdAnswered
    \/ HandleCreate \/ HandleAcceptInvite \/ HandleInvite \/ HandleLeave \/ ToggleInviteModal
    \/ DeedHandled \/ DeedAnswered \/ ProfileAnswered \/ HouseholdElsewhere

HouseholdPageFairness ==
    WF_householdPageVars(HouseholdRead \/ HouseholdAnswered \/ DeedHandled \/ DeedAnswered
                            \/ ProfileAnswered)
HouseholdPageSpec ==
    HouseholdPageInit /\ [][HouseholdPageNext]_householdPageVars /\ HouseholdPageFairness
--------------------------------------------------------------------------------
HouseholdPageTypeOK ==
    /\ {belongs, household} \subseteq
           {None} \cup [in : {TRUE}, invites : 0..MaxHouseholdPresses]
    /\ {householdLoading, actionLoading, inviteOpen, unsureHousehold} \subseteq BOOLEAN
    /\ \A f \in fetches : f.at \in {"sent", "read"}
    /\ \A d \in deeds : /\ d.what \in {"create", "accept", "invite", "leave"}
                        /\ d.at \in {"sent", "stored", "refused", "profile"}

(* When nothing is under way the page shows the user's household, or that they *)
(* have none, with the invitations sent: unless requests overlapped, one failed*)
(* or it was changed elsewhere.                                                *)
HouseholdIsStored ==
    ~unsureHousehold /\ fetches = {} /\ (\A d \in deeds : d.at = "profile")
        => household = belongs

(* The page comes back, and so do its buttons.                                 *)
HouseholdPageSettles ==
    /\ householdLoading ~> ~householdLoading
    /\ actionLoading ~> ~actionLoading
================================================================================
