------------------------------- MODULE PlaidLink -------------------------------
(* The "Connect with Plaid" button (components/PlaidLinkButton.tsx): a link   *)
(* token is made when the page mounts and kept in sessionStorage, because a   *)
(* bank that signs in on its own site ends on a new page, which must open Link*)
(* with the token the bank was opened with.                                   *)
EXTENDS Naturals, FiniteSets

CONSTANTS MaxLinkTokens, MaxLinkFaults

ASSUME PlaidLinkAssumption == {MaxLinkTokens, MaxLinkFaults} \subseteq Nat

VARIABLES
    linkToken,    \* the page's token, 0 for none
    storedToken,  \* the one in sessionStorage
    bankToken,    \* the token the bank's site was opened with, 0 when not there
    returning,    \* the page was opened by the bank: receivedRedirectUri is set
    fetching,     \* POST /plaid/link-token: "no" or "asked"
    preparing,    \* loading
    linkScreen,   \* "page", "modal", "link", "exchange"
    made,         \* tokens made so far
    expired,      \* tokens Plaid no longer takes
    reopened,     \* history: Link was closed and opened again on this page
    linkFaults

linkVars == <<linkToken, storedToken, bankToken, returning, fetching, preparing,
              linkScreen, made, expired, reopened, linkFaults>>

LinkFault == linkFaults < MaxLinkFaults /\ linkFaults' = linkFaults + 1

(* fetchLinkToken: on the page the bank returns to, the stored token if there *)
(* is one; else a new one is asked of the backend.                            *)
FetchesToken(cached) ==
    IF cached /\ returning' /\ storedToken # 0
    THEN linkToken' = storedToken /\ preparing' = FALSE /\ fetching' = "no"
    ELSE linkToken' = 0 /\ preparing' = TRUE /\ fetching' = "asked"

PlaidLinkInit ==
    /\ linkToken = 0 /\ storedToken = 0 /\ bankToken = 0 /\ returning = FALSE
    /\ fetching = "asked" /\ preparing = TRUE /\ linkScreen = "page"
    /\ made = 0 /\ expired = {} /\ reopened = FALSE /\ linkFaults = 0

(* The token arrives before the eight seconds are over, or they are over first*)
(* or the request fails; a late answer is dropped.                            *)
TokenMadeUnsaved ==
    /\ fetching = "asked" /\ made < MaxLinkTokens
    /\ made' = made + 1 /\ linkToken' = made + 1
    /\ fetching' = "no" /\ preparing' = FALSE
    /\ UNCHANGED <<bankToken, returning, linkScreen, expired, reopened, linkFaults,
                   storedToken>>

TokenMade ==
    /\ fetching = "asked" /\ made < MaxLinkTokens
    /\ made' = made + 1 /\ linkToken' = made + 1 /\ storedToken' = made + 1
    /\ fetching' = "no" /\ preparing' = FALSE
    /\ UNCHANGED <<bankToken, returning, linkScreen, expired, reopened, linkFaults>>

TokenFailsStuck ==
    /\ fetching = "asked"
    /\ IF made = MaxLinkTokens THEN UNCHANGED linkFaults ELSE LinkFault
    /\ fetching' = "no"
    /\ UNCHANGED <<linkToken, storedToken, bankToken, returning, linkScreen, made,
                   expired, reopened, preparing>>

TokenFails ==
    /\ fetching = "asked"
    /\ IF made = MaxLinkTokens THEN UNCHANGED linkFaults ELSE LinkFault
    /\ fetching' = "no" /\ preparing' = FALSE
    /\ UNCHANGED <<linkToken, storedToken, bankToken, returning, linkScreen, made,
                   expired, reopened>>
--------------------------------------------------------------------------------
OpenModalEarly ==
    /\ linkScreen = "page" /\ ~preparing
    /\ linkScreen' = "modal"
    /\ UNCHANGED <<linkToken, storedToken, bankToken, returning, fetching, preparing,
                   made, expired, reopened, linkFaults>>

(* handleOpenModal, handleConfirm, and the modal's Cancel.                    *)
OpenModal ==
    /\ linkScreen = "page" /\ linkToken # 0 /\ ~preparing
    /\ linkScreen' = "modal"
    /\ UNCHANGED <<linkToken, storedToken, bankToken, returning, fetching, preparing,
                   made, expired, reopened, linkFaults>>

LeaveModal ==
    /\ linkScreen = "modal"
    /\ linkScreen' \in {"page", "link"}
    /\ UNCHANGED <<linkToken, storedToken, bankToken, returning, fetching, preparing,
                   made, expired, reopened, linkFaults>>

(* onExit: the stored token is dropped, the page's stays; a token Plaid no    *)
(* longer takes is replaced.                                                  *)
LinkClosed ==
    /\ linkScreen = "link"
    /\ linkScreen' = "page" /\ reopened' = TRUE
    /\ storedToken' = 0
    /\ \/ linkToken \notin expired
          /\ UNCHANGED <<linkToken, fetching, preparing>>
       \/ linkToken \in expired
          /\ fetching' = "asked" /\ preparing' = TRUE /\ UNCHANGED linkToken
    /\ UNCHANGED <<bankToken, returning, made, expired, linkFaults>>

(* onSuccess: the public token is exchanged; only then the stored one dropped.*)
LinkSucceeds ==
    /\ linkScreen = "link" /\ linkToken \notin expired
    /\ linkScreen' = "exchange"
    /\ UNCHANGED <<linkToken, storedToken, bankToken, returning, fetching, preparing,
                   made, expired, reopened, linkFaults>>

Exchanged ==
    /\ linkScreen = "exchange"
    /\ linkScreen' = "page"
    /\ \/ storedToken' = 0 /\ reopened' = TRUE /\ UNCHANGED linkFaults
       \/ LinkFault /\ UNCHANGED <<storedToken, reopened>>
    /\ UNCHANGED <<linkToken, bankToken, returning, fetching, preparing, made, expired>>

(* The bank's own site takes over the tab, and comes back to a new page.      *)
ToBank ==
    /\ linkScreen = "link" /\ linkToken \notin expired /\ ~returning
    /\ bankToken' = linkToken
    /\ linkScreen' = "page" /\ linkToken' = 0 /\ fetching' = "no" /\ preparing' = FALSE
    /\ UNCHANGED <<storedToken, returning, made, expired, reopened, linkFaults>>

FromBank ==
    /\ bankToken # 0 /\ ~returning
    /\ returning' = TRUE /\ linkScreen' = "page"
    /\ FetchesToken(TRUE)
    /\ UNCHANGED <<storedToken, bankToken, made, expired, reopened, linkFaults>>

(* The page is opened again without the bank's parameters.                    *)
LinkPageReload ==
    /\ linkScreen = "page" /\ fetching = "no" /\ made < MaxLinkTokens /\ (bankToken = 0 \/ returning)
    /\ returning' = FALSE /\ bankToken' = 0 /\ reopened' = FALSE
    /\ linkScreen' = "page"
    /\ FetchesToken(TRUE)
    /\ UNCHANGED <<storedToken, made, expired, linkFaults>>

Expire ==
    /\ linkToken # 0 /\ expired' = expired \cup {linkToken} /\ expired' # expired
    /\ UNCHANGED <<linkToken, storedToken, bankToken, returning, fetching, preparing,
                   linkScreen, made, reopened, linkFaults>>
--------------------------------------------------------------------------------
PlaidLinkNext ==
    \/ TokenMade \/ TokenFails \/ OpenModal \/ LeaveModal \/ LinkClosed
    \/ LinkSucceeds \/ Exchanged \/ ToBank \/ FromBank \/ LinkPageReload \/ Expire

PlaidLinkSpec == PlaidLinkInit /\ [][PlaidLinkNext]_linkVars
                   /\ WF_linkVars(TokenMade \/ TokenFails)
--------------------------------------------------------------------------------
PlaidLinkTypeOK ==
    /\ {linkToken, storedToken, bankToken, made} \subseteq 0..MaxLinkTokens
    /\ returning \in BOOLEAN /\ preparing \in BOOLEAN /\ reopened \in BOOLEAN
    /\ fetching \in {"no", "asked"} /\ expired \subseteq 1..MaxLinkTokens
    /\ linkScreen \in {"page", "modal", "link", "exchange"}
    /\ linkScreen \in {"modal", "link", "exchange"} => linkToken # 0

(* After the bank's site, Link goes on with the token it was opened with: so it*)
(* does whenever Link was not closed before on the page that led there.       *)
ReturnsWithItsToken ==
    returning /\ ~reopened /\ linkToken # 0 => linkToken = bankToken

(* The same for every way to the bank. Violated: closing Link drops the stored*)
(* token but keeps the page's, so a second opening is not remembered.         *)
AlwaysReturnsWithItsToken ==
    returning /\ linkScreen = "link" /\ linkToken \notin expired => linkToken = bankToken

(* "Preparing..." ends.                                                       *)
PreparingEnds == preparing ~> ~preparing
================================================================================
