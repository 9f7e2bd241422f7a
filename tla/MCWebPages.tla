------------------------------ MODULE MCWebPages -------------------------------
(* Four parts of frontend-app, one visit at a time: they share no state in the*)
(* browser, so a behaviour opens one of them and the others stay as they are. *)
EXTENDS Onboarding, LinkedAccounts, AiChat, TransactionsPage

VARIABLE visit   \* the part that is open

(* Links the site, its mails and its pricing page give out.                   *)
Links == {<<"signup">>, <<"devSignup">>, <<"join">>, <<"start">>, <<"pricing", "start">>}
(* A checkout whose returnUrl is an invitation.                               *)
NestedLinks == Links \cup {<<"start", "join">>}

(* One initial state of a part stands for them all while it is not open.      *)
Fixed ==
    /\ visit # "onboarding" => url = <<"signup">> /\ server = "none"
    /\ visit # "assistant" => agreed
    /\ \A t \in Posted : book[t] = CHOOSE c \in Categories : TRUE

PagesInit ==
    /\ visit \in {"onboarding", "accounts", "assistant", "transactions"}
    /\ OnboardingInit /\ LinkedAccountsInit /\ AiChatInit /\ TransactionsPageInit
    /\ Fixed

PagesNext ==
    \/ /\ visit = "onboarding" /\ OnboardingNext
       /\ UNCHANGED <<visit, laVars, acVars, tpVars>>
    \/ /\ visit = "accounts" /\ LinkedAccountsNext
       /\ UNCHANGED <<visit, onVars, acVars, tpVars>>
    \/ /\ visit = "assistant" /\ AiChatNext
       /\ UNCHANGED <<visit, onVars, laVars, tpVars>>
    \/ /\ visit = "transactions" /\ TransactionsPageNext
       /\ UNCHANGED <<visit, onVars, laVars, acVars>>

(* The fairness of each part's own specification.                             *)
PagesFairness ==
    /\ WF_onVars(visit = "onboarding" /\ Redirect)
    /\ WF_laVars(visit = "accounts" /\ FetchServed)
    /\ WF_laVars(visit = "accounts" /\ FetchAnswered)
    /\ WF_laVars(visit = "accounts" /\ Applied)
    /\ WF_laVars(visit = "accounts" /\ RequestFailed)
    /\ WF_laVars(visit = "accounts" /\ Reload)
    /\ WF_laVars(visit = "accounts" /\ ActionEnds)
    /\ WF_acVars(visit = "assistant" /\ AnswerEnds)
    /\ WF_tpVars(visit = "transactions" /\ GetServed)
    /\ WF_tpVars(visit = "transactions" /\ GetAnswered)

PagesSpec == PagesInit /\ [][PagesNext]_<<visit, onVars, laVars, acVars, tpVars>>
             /\ PagesFairness

PagesTypeOK == OnboardingTypeOK /\ LinkedAccountsTypeOK /\ AiChatTypeOK /\ TransactionsPageTypeOK

(* The assistant's threads and their copies agree: what is listed is stored,   *)
(* and no answer is shown to a question that was withdrawn.                    *)
ThreadsAgree == ListIsStored /\ NoGhost

(* No spinner turns for ever: those of the linked accounts, of the assistant's *)
(* answer, and of the transactions, whose query on screen gets a list or an    *)
(* error, whatever was fetched, edited or left meanwhile.                      *)
PagesSettle ==
    /\ SpinnersStop /\ TypingEnds
    /\ visit = "transactions" /\ Loading ~> ~Loading
================================================================================
