------------------------------- MODULE MCSession -------------------------------
(* A client and its session: the tab of a browser two people share, the push  *)
(* token of a phone, the page that links a bank, or the page of the budget    *)
(* goals.  Their state is apart, so a behaviour is about one of them and the  *)
(* others stay as they are.                                                   *)
EXTENDS WebSession, PushTokens, PlaidLink, BudgetGoals

CONSTANTS a, b
MCUsers == {a, b}
MCOne == {a}   \* who has an account, and a second factor

VARIABLE client   \* which of the four a behaviour is about

(* One initial state of a part stands for them all while it is not watched.    *)
SessionInit ==
    /\ client \in {"tab", "phone", "link", "goals"}
    /\ Init /\ PushInit /\ PlaidLinkInit /\ BudgetGoalsInit
    /\ client # "tab" => session = None /\ nativeLoad = None /\ verified = {}
    /\ client # "goals" => role = "admin" /\ goals["me"] = NoGoals /\ followed = {"budgets"}

SessionNext ==
    \/ client = "tab" /\ Next /\ UNCHANGED <<client, pushVars, linkVars, bgVars>>
    \/ client = "phone" /\ PushNext /\ UNCHANGED <<client, vars, linkVars, bgVars>>
    \/ client = "link" /\ PlaidLinkNext /\ UNCHANGED <<client, vars, pushVars, bgVars>>
    \/ client = "goals" /\ BudgetGoalsNext /\ UNCHANGED <<client, vars, pushVars, linkVars>>

(* The fairness of each part's own specification.                             *)
SessionFairness ==
    /\ WF_vars(client = "tab" /\ Timer)
    /\ WF_pushVars(client = "phone"
                   /\ (Begin \/ StaleDeactivated \/ Registered \/ Released \/ RequestFails))
    /\ WF_pushVars(client = "phone" /\ SessionEnds)
    /\ WF_linkVars(client = "link" /\ (TokenMade \/ TokenFails))
    /\ WF_bgVars(client = "goals" /\ RequestEnds)

SessionSpec == SessionInit /\ [][SessionNext]_<<client, vars, pushVars, linkVars, bgVars>>
               /\ SessionFairness

ClientsTypeOK == TypeOK /\ PushTypeOK /\ PlaidLinkTypeOK /\ BudgetGoalsTypeOK

(* Signing out is for good: no answer that was on its way shows the account    *)
(* again, and the phone stops receiving the account's messages.                *)
SignedOutForGood == SignedOutStaysOut /\ SignedOutIsSilent

(* What the user waits for ends, whatever hangs, fails or is repeated: the load*)
(* of the profile, a logout of the phone, the "Preparing..." of Plaid Link, the*)
(* goals' dialog and buttons, and the reports.                                 *)
ClientsSettle ==
    /\ LoadEnds /\ LogoutEnds
    /\ client = "link" /\ preparing ~> ~preparing
    /\ client = "goals" /\ GoalsBusy ~> ~GoalsBusy
================================================================================
