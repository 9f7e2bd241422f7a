---------------------------- MODULE MCAccountPages -----------------------------
(* The settings page, the household page and the two sides of the support desk,*)
(* one visit to one of them at a time: they share no state but the tickets, so *)
(* a behaviour uses one of them and the others stay as they are.               *)
EXTENDS Preferences, MfaSettings, SettingsLists, HouseholdPage, PortalSession,
        SupportDesk, TicketPage

VARIABLE visit   \* the part that is used

(* One switch of each kind; the others are handled by the same code.          *)
TriedSwitches == {<<"email", "lowBalance">>, <<"sms", "lowBalance">>,
                  <<"push", "lowBalance">>, <<"inApp", "lowBalance">>,
                  <<"privacy", "dataSharing">>}

Visits == {"preferences", "mfa", "lists", "household", "portal", "desk", "ticket"}

AccountInit ==
    /\ visit \in Visits
    /\ PreferencesInit /\ MfaInit /\ ListsInit /\ HouseholdPageInit /\ PortalInit
    /\ TicketsInit /\ DeskInit /\ TicketPageInit
    /\ \A k \in Tried : storedSwitch[k] = (k[1] # "push")
    /\ belongs.in => visit = "household"

settingsVars == <<preferencesVars, mfaVars, listVars, householdPageVars, portalVars>>
supportVars == <<ticketVars, deskVars, ticketPageVars>>

(* Others act on the tickets while the customer reads theirs; the agent of the*)
(* desk is overtaken by their own presses.                                    *)
DeskVisit ==
    \/ (HandlerReads \/ HandlerCommits \/ HandlerRefuses) /\ UNCHANGED deskVars
    \/ DeskNext
TicketVisit == \/ TicketsNext /\ UNCHANGED ticketPageVars
               \/ TicketPageNext

AccountNext ==
    /\ UNCHANGED visit
    /\ \/ /\ visit = "preferences" /\ PreferencesNext
          /\ UNCHANGED <<mfaVars, listVars, householdPageVars, portalVars, supportVars>>
       \/ /\ visit = "mfa" /\ MfaNext
          /\ UNCHANGED <<preferencesVars, listVars, householdPageVars, portalVars, supportVars>>
       \/ /\ visit = "lists" /\ ListsNext
          /\ UNCHANGED <<preferencesVars, mfaVars, householdPageVars, portalVars, supportVars>>
       \/ /\ visit = "household" /\ HouseholdPageNext
          /\ UNCHANGED <<preferencesVars, mfaVars, listVars, portalVars, supportVars>>
       \/ /\ visit = "portal" /\ PortalNext
          /\ UNCHANGED <<preferencesVars, mfaVars, listVars, householdPageVars, supportVars>>
       \/ visit = "desk" /\ DeskVisit /\ UNCHANGED <<settingsVars, ticketPageVars>>
       \/ visit = "ticket" /\ TicketVisit /\ UNCHANGED <<settingsVars, deskVars>>

(* None of the fair steps of a part that is not used is ever enabled.         *)
accountVars == <<visit, settingsVars, supportVars>>
AccountSpec ==
    /\ AccountInit /\ [][AccountNext]_accountVars
    /\ PreferencesFairness /\ MfaFairness /\ ListsFairness /\ HouseholdPageFairness
    /\ TicketsFairness /\ DeskFairness /\ TicketPageFairness

AccountTypeOK ==
    /\ PreferencesTypeOK /\ MfaTypeOK /\ ListsTypeOK /\ HouseholdPageTypeOK /\ PortalTypeOK
    /\ TicketsTypeOK /\ DeskTypeOK /\ TicketPageTypeOK

(* The switches and the forms show what is stored when nothing is under way,   *)
(* except where the page has been told it cannot know.                         *)
SettingsAgree == SwitchesAgree /\ FormsAgree

(* The user can pass their second factor: the primary one is set up, and the   *)
(* secret on screen is the one a code will be checked against.                 *)
FactorsAgree == PrimaryUsable /\ SecretIsLive

(* Every button and every page comes back, whatever fails or overlaps.         *)
AccountPagesSettle ==
    /\ SavingsEnd /\ PressesEnd /\ RowsAreGivenBack
    /\ HouseholdPageSettles /\ DeskSettles /\ TicketPageSettles

(* The colleague may also delete their account.                               *)
DeletionSpec == AccountInit /\ [][\/ AccountNext
                                  \/ /\ visit = "ticket" /\ ColleagueDeleted
                                     /\ UNCHANGED <<visit, settingsVars, deskVars, ticketPageVars>>]_accountVars
================================================================================
