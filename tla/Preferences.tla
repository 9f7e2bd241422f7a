------------------------------ MODULE Preferences ------------------------------
(* The profile, notification and privacy tabs of pages/Settings.tsx: switches *)
(* that are written one by one as they are flipped, and three forms (profile, *)
(* alert thresholds, digest) that are written when their button is pressed.   *)
(* One load, of four requests, fills everything but the profile form.         *)
EXTENDS Naturals, FiniteSets

CONSTANTS Tried,  \* the switches somebody flips
          MaxSettingsMoves, MaxUnanswered

Events == {"lowBalance", "largeTransaction", "budgetThreshold", "recurringBill",
           "syncFailure", "supportUpdates", "subscriptionUpdates"}

(* The switches each section of the page shows.                               *)
EmailSwitches == {"email"} \X Events
SmsSwitches == {"sms"} \X Events
PushSwitches == {"push"} \X Events
InAppSwitches == {"inApp"} \X Events
PrivacySwitches == {"privacy"} \X {"dataSharing", "marketingEmails"}
Switches == EmailSwitches \cup SmsSwitches \cup PushSwitches \cup InAppSwitches
              \cup PrivacySwitches

ASSUME PreferencesAssumption ==
    /\ Tried \subseteq Switches
    /\ {MaxSettingsMoves, MaxUnanswered} \subseteq Nat

VARIABLES
    shownSwitch, storedSwitch,  \* settings of the page, rows of the backend
    flips,              \* the requests the flips sent: [id, key, to, at]
    settingsLoad,       \* loadSettings: what it has read so far
    typed, storedForm,  \* each form's fields, and the backend's
    saving,             \* the request each form's button sent
    unsure,             \* history: switches the page cannot be sure of
    doubtful,           \* history: forms it cannot be sure of
    budget

preferencesVars == <<shownSwitch, storedSwitch, flips, settingsLoad, typed,
                     storedForm, saving, unsure, doubtful, budget>>

Forms == {"profile", "limits", "digest"}
Values == {"old", "new", "default", "cleared", "none"}
NotSaving == [at |-> "idle", value |-> "none"]

(* getDefaultSettings                                                         *)
DefaultSwitch == [k \in Tried |-> k # <<"privacy", "dataSharing">>]
DefaultTyped == [profile |-> "old", limits |-> "default", digest |-> "none"]

Spend(b) == budget[b] > 0 /\ budget' = [budget EXCEPT ![b] = @ - 1]

PreferencesInit ==
    /\ shownSwitch = DefaultSwitch
    /\ storedSwitch \in [Tried -> BOOLEAN]
    /\ flips = {}
    /\ settingsLoad = [at |-> "asked", read |-> {}, switches |-> DefaultSwitch,
                       limits |-> "none", digest |-> "none"]
    /\ typed = DefaultTyped
    /\ storedForm = [f \in Forms |-> "old"]
    /\ saving = [f \in Forms |-> NotSaving]
    /\ unsure = {} /\ doubtful = {}
    /\ budget = [moves |-> MaxSettingsMoves, lost |-> MaxUnanswered]
--------------------------------------------------------------------------------
Loaded == settingsLoad.at = "done"

PartsButDigest == {"preferences", "user", "limits"}
Parts == {"preferences", "user", "limits", "digest"}

(* The backend answers one of the four requests of the load.                  *)
LoadReads(part) ==
    /\ settingsLoad.at = "asked" /\ part \notin settingsLoad.read
    /\ settingsLoad' = [settingsLoad EXCEPT
           !.read = @ \cup {part},
           !.switches = [k \in Tried |->
               CASE part = "preferences" /\ k # <<"privacy", "dataSharing">> -> storedSwitch[k]
                 [] part = "user" /\ k = <<"privacy", "dataSharing">> -> storedSwitch[k]
                 [] OTHER -> @[k]],
           !.limits = IF part = "limits" THEN storedForm["limits"] ELSE @,
           !.digest = IF part = "digest" THEN storedForm["digest"] ELSE @]
    /\ UNCHANGED <<shownSwitch, storedSwitch, flips, typed, storedForm, saving,
                   unsure, doubtful, budget>>

(* Promise.all is fulfilled: everything on the page is replaced. If one request*)
(* fails it keeps the defaults, and no digest.                                *)
SettingsLoadEnds ==
    /\ settingsLoad.at = "asked"
    /\ \/ /\ settingsLoad.read = Parts
          /\ settingsLoad' = [settingsLoad EXCEPT !.at = "done"]
          /\ shownSwitch' = settingsLoad.switches
          /\ typed' = [typed EXCEPT !["limits"] = settingsLoad.limits,
                                    !["digest"] = settingsLoad.digest]
          /\ UNCHANGED budget
       \/ /\ Spend("lost")
          /\ settingsLoad' = [settingsLoad EXCEPT !.at = "failed"]
          /\ UNCHANGED <<shownSwitch, typed>>
    /\ UNCHANGED <<storedSwitch, flips, storedForm, saving, unsure, doubtful>>
--------------------------------------------------------------------------------
(* The five toggle handlers: show the new value, send it, and on failure show *)
(* the negation of what was asked. Nothing stops a second flip meanwhile.     *)
Waits(k) == \E w \in flips : w.key = k

Flip(k) ==
    /\ k \in Tried
    /\ Spend("moves")
    /\ shownSwitch' = [shownSwitch EXCEPT ![k] = ~@]
    /\ flips' = flips \cup {[id |-> budget["moves"], key |-> k,
                             to |-> ~shownSwitch[k], at |-> "sent"]}
    /\ unsure' = IF Loaded /\ ~Waits(k) THEN unsure ELSE unsure \cup {k}
    /\ UNCHANGED <<storedSwitch, settingsLoad, typed, storedForm, saving, doubtful>>

EmailToggle == \E k \in EmailSwitches : Flip(k)
SmsToggle == \E k \in SmsSwitches : Flip(k)
PushToggle == \E k \in PushSwitches : Flip(k)
InAppToggle == \E k \in InAppSwitches : Flip(k)
PrivacyToggle == \E k \in PrivacySwitches : Flip(k)

(* The backend stores a flip. Requests overtake one another.                  *)
FlipStored ==
    \E w \in flips :
        /\ w.at = "sent"
        /\ storedSwitch' = [storedSwitch EXCEPT ![w.key] = w.to]
        /\ flips' = (flips \ {w}) \cup {[w EXCEPT !.at = "stored"]}
        /\ UNCHANGED <<shownSwitch, settingsLoad, typed, storedForm, saving,
                       unsure, doubtful, budget>>

(* Its answer, or none: the request or the answer to it was lost.             *)
ShownAfterFailureKept(w) == shownSwitch
ShownAfterFailure(w) == [shownSwitch EXCEPT ![w.key] = ~w.to]

FlipAnswered ==
    \E w \in flips :
        /\ flips' = flips \ {w}
        /\ \/ w.at = "stored" /\ UNCHANGED <<shownSwitch, unsure, budget>>
           \/ /\ Spend("lost")
              /\ shownSwitch' = ShownAfterFailure(w)
              /\ unsure' = IF w.at = "stored" THEN unsure \cup {w.key} ELSE unsure
        /\ UNCHANGED <<storedSwitch, settingsLoad, typed, storedForm, saving, doubtful>>
--------------------------------------------------------------------------------
Field(f) == {"new", "old"} \cup (IF f = "digest" THEN {} ELSE {"cleared"})

Type(f) ==
    /\ Spend("moves")
    /\ f = "digest" => typed[f] # "none"
    /\ \E v \in Field(f) \ {typed[f]} : typed' = [typed EXCEPT ![f] = v]
    /\ doubtful' = doubtful \cup {f}
    /\ UNCHANGED <<shownSwitch, storedSwitch, flips, settingsLoad, storedForm, saving,
                   unsure>>

TypeProfile == Type("profile")
TypeThreshold == Type("limits")
TypeDigest == Type("digest")

(* handleSubmit of the profile form, handleNotificationSave, handleDigestSave.*)
CanSave(f) == saving[f] = NotSaving /\ typed[f] # "none"

SaveForm(f) ==
    /\ Spend("moves")
    /\ CanSave(f)
    /\ saving' = [saving EXCEPT ![f] = [at |-> "sent", value |-> typed[f]]]
    /\ doubtful' = IF f = "profile" \/ Loaded THEN doubtful \ {f} ELSE doubtful \cup {f}
    /\ UNCHANGED <<shownSwitch, storedSwitch, flips, settingsLoad, typed, storedForm,
                   unsure>>

ProfileSubmit == SaveForm("profile")
NotificationSave == SaveForm("limits")
DigestSave == SaveForm("digest")

(* An emptied threshold is sent as null and an emptied user name not at all;  *)
(* the backend leaves the stored one.                                         *)
SaveStored(f) ==
    /\ saving[f].at = "sent"
    /\ saving' = [saving EXCEPT ![f].at = "stored"]
    /\ storedForm' = IF saving[f].value = "cleared" THEN storedForm
                     ELSE [storedForm EXCEPT ![f] = saving[f].value]
    /\ UNCHANGED <<shownSwitch, storedSwitch, flips, settingsLoad, typed, unsure, doubtful, budget>>

(* The profile is fetched again and its effect refills the form; the digest   *)
(* form takes the answer; the thresholds stay as typed.                       *)
TypedAfterKept(f) == typed
TypedAfter(f) == IF f = "limits" THEN typed ELSE [typed EXCEPT ![f] = storedForm[f]]

SavingAfterFailureStuck(f) == [saving EXCEPT ![f].at = "idle"]
SavingAfterFailure(f) == [saving EXCEPT ![f] = NotSaving]

SaveAnswered(f) ==
    /\ saving[f].at \in {"sent", "stored"}
    /\ \/ /\ saving[f].at = "stored"
          /\ saving' = [saving EXCEPT ![f] = NotSaving]
          /\ typed' = TypedAfter(f)
          /\ UNCHANGED <<doubtful, budget>>
       \/ /\ Spend("lost")
          /\ saving' = SavingAfterFailure(f)
          /\ doubtful' = doubtful \cup {f}
          /\ UNCHANGED typed
    /\ UNCHANGED <<shownSwitch, storedSwitch, flips, settingsLoad, storedForm, unsure>>

(* Somebody else's refetch brings a new profile object: what was typed is lost.*)
ProfileArrives ==
    /\ typed["profile"] # storedForm["profile"]
    /\ typed' = [typed EXCEPT !["profile"] = storedForm["profile"]]
    /\ UNCHANGED <<shownSwitch, storedSwitch, flips, settingsLoad, storedForm, saving,
                   unsure, doubtful, budget>>
--------------------------------------------------------------------------------
PreferencesNext ==
    \/ \E part \in Parts : LoadReads(part)
    \/ SettingsLoadEnds
    \/ EmailToggle \/ SmsToggle \/ PushToggle \/ InAppToggle \/ PrivacyToggle
    \/ FlipStored \/ FlipAnswered
    \/ TypeProfile \/ TypeThreshold \/ TypeDigest
    \/ \E f \in Forms : SaveStored(f) \/ SaveAnswered(f)
    \/ ProfileSubmit \/ NotificationSave \/ DigestSave
    \/ ProfileArrives

PreferencesFairness ==
    \A f \in Forms : WF_preferencesVars(SaveStored(f) \/ SaveAnswered(f))
PreferencesSpec == PreferencesInit /\ [][PreferencesNext]_preferencesVars
                     /\ PreferencesFairness
--------------------------------------------------------------------------------
PreferencesTypeOK ==
    /\ {shownSwitch, storedSwitch, settingsLoad.switches} \subseteq [Tried -> BOOLEAN]
    /\ \A w \in flips : w.key \in Tried /\ w.to \in BOOLEAN /\ w.at \in {"sent", "stored"}
    /\ settingsLoad.at \in {"asked", "done", "failed"} /\ settingsLoad.read \subseteq Parts
    /\ {settingsLoad.limits, settingsLoad.digest} \subseteq Values
    /\ {typed, storedForm} \subseteq [Forms -> Values]
    /\ \A f \in Forms : /\ saving[f].at \in {"idle", "sent", "stored"}
                        /\ saving[f].value \in Values
    /\ Loaded => {typed[f] : f \in Forms} \subseteq Values \ {"none"}
    /\ unsure \subseteq Tried /\ doubtful \subseteq Forms

(* Once the settings are loaded and a switch waits for no answer, it shows what*)
(* the backend stores, also after refused requests, unless it was flipped     *)
(* before the load ended or twice at a time, or a stored flip's answer was lost.*)
SwitchesAgree ==
    Loaded => \A k \in Tried \ unsure : ~Waits(k) => shownSwitch[k] = storedSwitch[k]

(* A form nobody has typed into since its button was pressed shows, when the  *)
(* answer is in, what the backend stores, emptied thresholds excepted.        *)
FormsAgree ==
    Loaded => \A f \in Forms \ doubtful :
                 saving[f] = NotSaving /\ ~(f = "limits" /\ typed[f] = "cleared")
                   => typed[f] = storedForm[f]

(* After "Notification settings updated" the thresholds on the page are those *)
(* that alerts are sent by. Violated: an emptied threshold stays in force.    *)
UpdatedMeansStored ==
    Loaded /\ "limits" \notin doubtful /\ saving["limits"] = NotSaving
        => typed["limits"] = storedForm["limits"]

(* Every save button is given back to the user.                               *)
SavingsEnd == \A f \in Forms : (saving[f] # NotSaving) ~> (saving[f] = NotSaving)
================================================================================
