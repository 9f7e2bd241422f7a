------------------------------ MODULE MfaSettings ------------------------------
(* The second-factor card of the security tab of pages/Settings.tsx, over the *)
(* /auth/mfa endpoints. An authenticator app is set up in two steps (a secret *)
(* is drawn and shown, a code made from it is sent back), a passkey in one    *)
(* handler. One field holds both the code that ends a set-up and the current  *)
(* code a change asks for. Other devices of the user change the account too.  *)
EXTENDS Naturals, FiniteSets

CONSTANTS MaxSecrets,  \* secrets the backend draws
          MaxPresses, MaxElsewhere, MaxMfaFaults

ASSUME MfaAssumption ==
    {MaxSecrets, MaxPresses, MaxElsewhere, MaxMfaFaults} \subseteq Nat

VARIABLES
    account,     \* backend: [enabled, method, totp, pending, passkey]
    mfaProfile,  \* the page's copy of what the profile says of it
    secret,      \* authenticatorSecret, 0 when none is shown
    code,        \* securityCode: 0, or the secret whose code was typed
    codeFor,     \* history: the secret on screen when it was typed
    entry,       \* showTotpCodeEntry
    tried,       \* lastAutoVerifyCodeRef
    candidate,   \* primaryMfaCandidate
    handler,     \* the press being handled, mfaLoading: [kind, at, code]
    prompt,      \* mfaLabelModalOpen and mfaLabelMethod
    labelAsked,  \* sessionStorage: methods the user was prompted to label
    unseen,      \* history: the account may differ from what the page was told
    left         \* how much of each bound is left

mfaVars == <<account, mfaProfile, secret, code, codeFor, entry, tried, candidate,
             handler, prompt, labelAsked, unseen, left>>

Methods == {"totp", "passkey"}
Kinds == {"setup", "verify", "passkey", "disableByPasskey", "disableByCode", "primary"}
Ready == [kind |-> "none", at |-> "idle", code |-> 0]
NoFactor == [enabled |-> FALSE, method |-> "none", totp |-> 0, passkey |-> FALSE,
             pending |-> 0]
Working == handler # Ready
Take(b) == left[b] > 0 /\ left' = [left EXCEPT ![b] = @ - 1]

MfaInit ==
    /\ account = NoFactor /\ mfaProfile = NoFactor
    /\ secret = 0 /\ code = 0 /\ codeFor = 0 /\ entry = FALSE /\ tried = 0
    /\ candidate = "totp" /\ handler = Ready
    /\ prompt = "none" /\ labelAsked = {} /\ unseen = FALSE
    /\ left = [secrets |-> MaxSecrets, presses |-> MaxPresses,
               elsewhere |-> MaxElsewhere, faults |-> MaxMfaFaults]
--------------------------------------------------------------------------------
(* The account after each endpoint, when it accepts the request.              *)
Enabled(a, m) == [a EXCEPT !.enabled = TRUE, !.method = IF a.enabled THEN @ ELSE m]
WithTotp(a) == Enabled([a EXCEPT !.totp = a.pending, !.pending = 0], "totp")
WithPasskey(a) == Enabled([a EXCEPT !.passkey = TRUE], "passkey")
WithPrimary(a, m) == [a EXCEPT !.enabled = TRUE, !.method = m]

(* _verify_any_mfa, for a proof that is a passkey assertion or a code made from*)
(* secret c. No proof is asked while 2FA is off.                              *)
Proves(a, byPasskey, c) ==
    ~a.enabled \/ (IF byPasskey THEN a.passkey ELSE c # 0 /\ c = a.totp)

(* What the request of this press does, or that the backend refuses it. The   *)
(* endpoint of "disable" answers that 2FA is already off when it is.          *)
ByPasskey == mfaProfile.enabled /\ mfaProfile.method = "passkey"
AcceptedUnproved(a, h) ==
    CASE h.kind = "verify" -> a.pending # 0 /\ h.code = a.pending
      [] h.kind = "primary" /\ candidate = "totp" -> h.code # 0
      [] OTHER -> TRUE

Accepted(a, h) ==
    CASE h.kind = "setup" -> Proves(a, ByPasskey, h.code)
      [] h.kind = "verify" -> a.pending # 0 /\ h.code = a.pending
      [] h.kind = "passkey" -> Proves(a, ByPasskey, h.code)
      [] h.kind = "disableByPasskey" -> a.passkey
      [] h.kind = "disableByCode" -> Proves(a, FALSE, h.code)
      [] h.kind = "primary" -> IF candidate = "passkey" THEN a.passkey
                               ELSE a.totp # 0 /\ h.code = a.totp

Changed(a, h) ==
    CASE h.kind = "setup" -> [a EXCEPT !.pending = MaxSecrets - left["secrets"] + 1]
      [] h.kind = "verify" -> WithTotp(a)
      [] h.kind = "passkey" -> WithPasskey(a)
      [] h.kind \in {"disableByPasskey", "disableByCode"} -> IF a.enabled THEN NoFactor ELSE a
      [] h.kind = "primary" -> WithPrimary(a, candidate)
--------------------------------------------------------------------------------
(* The buttons the card shows; all are disabled while a handler runs.         *)
TotpOn == mfaProfile.totp # 0
EntryShown == secret # 0 \/ (TotpOn /\ entry)

Offered(kind) ==
    CASE kind = "setup" -> ~TotpOn
      [] kind = "verify" -> secret # 0
      [] kind = "passkey" -> ~mfaProfile.passkey
      [] kind = "disableByPasskey" -> mfaProfile.enabled /\ mfaProfile.passkey
      [] kind = "disableByCode" -> mfaProfile.enabled /\ TotpOn
      [] kind = "primary" -> /\ TotpOn /\ mfaProfile.passkey
                             /\ candidate # mfaProfile.method

(* A press that needs the current code opens the entry when there is none.    *)
NeedsCode(kind) ==
    CASE kind \in {"setup", "passkey"} -> mfaProfile.enabled /\ ~ByPasskey
      [] kind = "primary" -> candidate = "totp"
      [] kind \in {"verify", "disableByCode"} -> TRUE
      [] OTHER -> FALSE

Starts(kind) == handler' = [kind |-> kind, at |-> "asked", code |-> code]

Press(kind) ==
    /\ Take("presses")
    /\ ~Working /\ Offered(kind) /\ prompt = "none"
    /\ kind = "setup" => left["secrets"] > 0
    /\ IF NeedsCode(kind) /\ code = 0
         THEN entry' = (entry \/ kind # "verify") /\ UNCHANGED handler
         ELSE Starts(kind) /\ UNCHANGED entry
    /\ UNCHANGED <<account, mfaProfile, secret, code, codeFor, tried, candidate,
                   prompt, labelAsked, unseen>>

EnableAuthenticator == Press("setup")
VerifyAuthenticator == Press("verify")
EnablePasskey == Press("passkey")
DisableMfaWithPasskey == Press("disableByPasskey")
DisableMfaWithCode == Press("disableByCode")
SetPrimaryMfa == Press("primary")

(* Six digits are typed: the code of some secret the user's app holds.        *)
TypeCode ==
    /\ EntryShown /\ prompt = "none" /\ Take("presses")
    /\ \E c \in {account.totp, secret} \ {0, code} : code' = c
    /\ codeFor' = secret
    /\ UNCHANGED <<account, mfaProfile, secret, entry, tried, candidate, handler,
                   prompt, labelAsked, unseen>>

(* The effect that verifies by itself once a set-up's code has six digits.    *)
AutoVerify ==
    /\ secret # 0 /\ code # 0 /\ ~Working /\ tried # code
    /\ tried' = code
    /\ Starts("verify")
    /\ UNCHANGED <<account, mfaProfile, secret, code, codeFor, entry, candidate,
                   prompt, labelAsked, unseen, left>>

ChooseCandidate ==
    /\ TotpOn /\ mfaProfile.passkey /\ ~Working /\ prompt = "none" /\ Take("presses")
    /\ candidate' \in Methods \ {candidate}
    /\ UNCHANGED <<account, mfaProfile, secret, code, codeFor, entry, tried, handler,
                   prompt, labelAsked, unseen>>
--------------------------------------------------------------------------------
(* The backend handles the request of the press.                              *)
MfaRequest ==
    /\ handler.at = "asked"
    /\ IF Accepted(account, handler)
         THEN /\ IF handler.kind = "setup" THEN Take("secrets") ELSE UNCHANGED left
              /\ account' = Changed(account, handler)
              /\ handler' = [handler EXCEPT !.at = "done"]
         ELSE handler' = [handler EXCEPT !.at = "refused"] /\ UNCHANGED <<account, left>>
    /\ UNCHANGED <<mfaProfile, secret, code, codeFor, entry, tried, candidate, prompt,
                   labelAsked, unseen>>

(* A refusal, or a lost answer: a verification empties the field.             *)
HandlerOverEarly == UNCHANGED handler
HandlerOver == handler' = Ready

MfaFails ==
    /\ \/ handler.at = "refused" /\ UNCHANGED <<left, unseen>>
       \/ /\ handler.at \in {"asked", "done"} /\ Take("faults")
          /\ unseen' = TRUE
    /\ HandlerOver
    /\ IF handler.kind = "verify"
         THEN code' = 0 /\ codeFor' = 0 /\ tried' = 0
         ELSE UNCHANGED <<code, codeFor, tried>>
    /\ UNCHANGED <<account, mfaProfile, secret, entry, candidate, prompt, labelAsked>>

SetupAnsweredUnopened ==
    /\ handler.kind = "setup" /\ handler.at = "done"
    /\ secret' = account.pending
    /\ HandlerOver
    /\ UNCHANGED <<account, mfaProfile, code, codeFor, entry, tried, candidate, prompt,
                   labelAsked, unseen, left>>

(* The setup's answer: the secret is shown. The code is left in its field.    *)
SetupAnswered ==
    /\ handler.kind = "setup" /\ handler.at = "done"
    /\ secret' = account.pending /\ entry' = TRUE
    /\ HandlerOver
    /\ UNCHANGED <<account, mfaProfile, code, codeFor, tried, candidate, prompt, labelAsked,
                   unseen, left>>

(* The other answers: forms are emptied, then refetchProfile, which may fail  *)
(* and then leaves the profile as it was; a new method is asked a label.      *)
ClearsSecretOnCode(kind) == kind \in {"verify", "passkey", "disableByCode"}
ClearsSecret(kind) == kind # "primary"
ClearsEntry(kind) == kind # "disableByPasskey"
NewMethod(kind) == CASE kind = "verify" -> "totp" [] kind = "passkey" -> "passkey"
                     [] OTHER -> "none"

MfaAnswered ==
    /\ handler.kind # "setup" /\ handler.at = "done"
    /\ secret' = IF ClearsSecret(handler.kind) THEN 0 ELSE secret
    /\ \/ mfaProfile' = account /\ unseen' = (unseen /\ secret' # 0) /\ UNCHANGED left
       \/ UNCHANGED mfaProfile /\ unseen' = TRUE /\ Take("faults")
    /\ code' = 0 /\ codeFor' = 0
    /\ tried' = IF handler.kind = "verify" THEN 0 ELSE tried
    /\ entry' = (secret' # 0 \/ (entry /\ ~ClearsEntry(handler.kind)))
    /\ candidate' = IF mfaProfile'.method # mfaProfile.method
                    THEN IF mfaProfile'.method = "passkey" THEN "passkey" ELSE "totp"
                    ELSE candidate
    /\ prompt' = IF NewMethod(handler.kind) = "none" THEN prompt ELSE NewMethod(handler.kind)
    /\ HandlerOver
    /\ UNCHANGED <<account, labelAsked>>

(* The label dialog: saved or skipped, it closes; the effect opens it once per*)
(* tab for a method without a label. Labels themselves are left out.          *)
LabelDone ==
    /\ prompt # "none"
    /\ prompt' = "none" /\ labelAsked' = labelAsked \cup {prompt}
    /\ UNCHANGED <<account, mfaProfile, secret, code, codeFor, entry, tried, candidate,
                   handler, unseen, left>>

LabelPrompt ==
    /\ prompt = "none" /\ mfaProfile.enabled
    /\ \E m \in Methods \ labelAsked :
          /\ IF m = "totp" THEN TotpOn ELSE mfaProfile.passkey
          /\ prompt' = m /\ labelAsked' = labelAsked \cup {m}
    /\ UNCHANGED <<account, mfaProfile, secret, code, codeFor, entry, tried, candidate,
                   handler, unseen, left>>

(* Another device of the user: starts a set-up, ends one, or turns 2FA off.   *)
Elsewhere ==
    /\ Take("elsewhere")
    /\ \/ account.totp = 0 /\ account' = [account EXCEPT !.pending = MaxSecrets + 1]
       \/ account.pending # 0 /\ account' = WithTotp(account)
       \/ account.enabled /\ account' = NoFactor
    /\ unseen' = TRUE
    /\ UNCHANGED <<mfaProfile, secret, code, codeFor, entry, tried, candidate, handler,
                   prompt, labelAsked>>

(* A refetch from another part of the application.                            *)
MfaProfileArrives ==
    /\ mfaProfile # account /\ ~Working
    /\ mfaProfile' = account
    /\ candidate' = IF account.method # mfaProfile.method
                    THEN IF account.method = "passkey" THEN "passkey" ELSE "totp"
                    ELSE candidate
    /\ entry' = (secret # 0 \/ (entry /\ ((account.totp # 0) = TotpOn)))
    /\ UNCHANGED <<account, secret, code, codeFor, tried, handler, prompt, labelAsked,
                   unseen, left>>
--------------------------------------------------------------------------------
MfaNext ==
    \/ EnableAuthenticator \/ VerifyAuthenticator \/ EnablePasskey
    \/ DisableMfaWithPasskey \/ DisableMfaWithCode \/ SetPrimaryMfa
    \/ TypeCode \/ AutoVerify \/ ChooseCandidate
    \/ MfaRequest \/ MfaFails \/ SetupAnswered \/ MfaAnswered
    \/ LabelDone \/ LabelPrompt \/ Elsewhere \/ MfaProfileArrives

MfaFairness ==
    WF_mfaVars(MfaRequest \/ MfaFails \/ SetupAnswered \/ MfaAnswered)
MfaSpec == MfaInit /\ [][MfaNext]_mfaVars /\ MfaFairness
--------------------------------------------------------------------------------
Factors == [enabled : BOOLEAN, method : Methods \cup {"none"}, totp : 0..MaxSecrets + 1,
            passkey : BOOLEAN, pending : 0..MaxSecrets + 1]

MfaTypeOK ==
    /\ {account, mfaProfile} \subseteq Factors
    /\ {secret, code, codeFor, tried} \subseteq 0..MaxSecrets + 1
    /\ entry \in BOOLEAN /\ unseen \in BOOLEAN /\ candidate \in Methods
    /\ handler = Ready \/ (handler.kind \in Kinds /\ handler.at \in {"asked", "done", "refused"})
    /\ prompt \in Methods \cup {"none"} /\ labelAsked \subseteq Methods
    /\ secret # 0 => entry

(* Sign-in asks for the primary method: whatever the two devices do in whatever*)
(* order, it is one the account has, so nobody locks himself out.             *)
PrimaryUsable ==
    account.enabled => CASE account.method = "totp" -> account.totp # 0
                         [] account.method = "passkey" -> account.passkey
                         [] OTHER -> FALSE

(* The secret and QR code on screen can still be confirmed: the backend awaits*)
(* it, or has it. Unless another device or a lost answer changed the account. *)
SecretIsLive ==
    secret # 0 /\ ~unseen /\ ~Working => secret \in {account.pending, account.totp}

(* The effect verifies by itself "when the user enters the 6th digit during   *)
(* setup". Violated: the answer of a set-up leaves the field as it is, and a  *)
(* code typed before that secret was shown is sent, and refused, by itself.   *)
AutoVerifiesSetupCode ==
    [][AutoVerify => codeFor = secret]_mfaVars

(* The buttons of the card come back after every press.                       *)
PressesEnd == Working ~> ~Working
================================================================================
