--------------------------- MODULE ListPages_proofs ----------------------------
(* The lists of the web pages that the visitor changes: linked accounts and   *)
(* transactions, as parts of the visits of MCWebPages.                        *)
EXTENDS MCWebPages, SequenceTheorems, FiniteSetTheorems, TLAPS

pagesVars == <<visit, onVars, laVars, acVars, tpVars>>

--------------------------------------------------------------------------------
(* The linked accounts.                                                       *)

Fetches == [by : Nat, reply : Lists \cup {NoCopy}, current : BOOLEAN]
RequestKinds == Forms \cup {"limits", "edit", "sync", "remove"}
Requests ==
    [id : Nat, kind : RequestKinds, acct : Accounts \cup {""},
     pc : {"sent", "served", "reload", "reloaded", "refetch"},
     rest : Seq(Linked), spins : BOOLEAN]
DialogKinds == Forms \cup {"closed", "edit", "refresh", "remove"}
Dialogs == [kind : DialogKinds, acct : Accounts \cup {""}]

\* A request is about an account, but the one for the limits; what is synced is
\* a linked account.
RequestTyped(r) ==
    /\ r \in Requests
    /\ r.kind # "limits" => r.acct \in Accounts
    /\ r.kind = "sync" => r.acct \in Linked
    /\ r.spins => r.kind = "sync"

LinkedTypes ==
    /\ held \in Lists /\ listed \in Lists /\ kept \in Lists \cup {NoCopy}
    /\ fetches \subseteq Fetches
    /\ \A r \in requests : RequestTyped(r)
    /\ dialog \in Dialogs /\ (dialog # Closed => dialog.acct \in Accounts)
    /\ dialog.kind = "refresh" => dialog.acct \in Linked
    /\ syncing \subseteq Linked
    /\ leaving \in {"no", "soon", "gone"}
    /\ limits \in {"unknown", "room", "full"}
    /\ submits \in Nat /\ lostReplies \in Nat

\* At most one fetch is current.
OneCurrent == \A f, g \in fetches : f.current /\ g.current => f = g

\* The answer of the current fetch is what the server holds, but for an account
\* whose link or removal waits for its own answer.
Timely ==
    lostReplies = 0 =>
        \A f \in fetches : f.current /\ f.reply # NoCopy =>
            \A a \in Accounts :
                /\ f.reply[a] = 0 /\ held[a] # 0 => Linking(a)
                /\ f.reply[a] # 0 /\ held[a] = 0 => Removing(a)

LinkedInv == LinkedTypes /\ OneCurrent /\ Timely

\* What a step may do to the list of accounts.
GoneStep ==
    \A a \in Accounts :
        listed[a] = 0 /\ listed'[a] # 0 => held[a] # 0 \/ Removing(a) \/ lostReplies' # 0
ShowStep ==
    lostReplies' = 0 /\ leaving' # "gone" =>
        \A a \in Accounts : WillShow(a) => WillShow(a)' \/ EditAnswered

LEMMA OutdatedIs ==
  ASSUME LinkedTypes
  PROVE  /\ Outdated(fetches) \subseteq Fetches
         /\ \A f \in Outdated(fetches) : ~f.current
BY DEF LinkedTypes, Fetches, Outdated

\* A fetch that starts is the current one, and will list whatever is held.
LEMMA FetchStarts ==
  ASSUME LinkedTypes, NEW n \in Nat, Fetch(n)
  PROVE  fetches' \subseteq Fetches /\ OneCurrent' /\ Timely' /\ \A a \in Accounts : WillShow(a)'
<1> DEFINE new == [by |-> n, reply |-> NoCopy, current |-> TRUE]
<1>1. fetches' = Outdated(fetches) \cup {new}
  BY DEF Fetch
<1>2. new \in Fetches /\ new.current /\ new.reply = NoCopy
  BY DEF Fetches
<1>3. \A f \in fetches' : f.current => f = new
  BY <1>1, OutdatedIs
<1> HIDE DEF new
<1>4. fetches' \subseteq Fetches
  BY <1>1, <1>2, OutdatedIs
<1>5. OneCurrent'
  BY <1>3 DEF OneCurrent
<1>6. Timely'
  BY <1>2, <1>3 DEF Timely
<1>7. \A a \in Accounts : WillShow(a)'
  BY <1>1, <1>2 DEF WillShow
<1> QED BY <1>4, <1>5, <1>6, <1>7

\* A step that leaves the accounts and the fetches alone, and ends no link and
\* no removal unless a request fails.
LEMMA QuietStep ==
  ASSUME LinkedInv, UNCHANGED <<held, listed, fetches>>,
         lostReplies' \in Nat, lostReplies' >= lostReplies,
         lostReplies' = 0 => \A a \in Accounts :
            /\ Linking(a) => Linking(a)'
            /\ Removing(a) => Removing(a)'
  PROVE  OneCurrent' /\ Timely' /\ GoneStep /\ ShowStep
<1>1. OneCurrent'
  BY DEF LinkedInv, OneCurrent
<1>2. lostReplies' = 0 => lostReplies = 0
  BY DEF LinkedInv, LinkedTypes
<1>3. Timely'
  BY <1>2 DEF LinkedInv, Timely
<1>4. GoneStep
  BY DEF GoneStep
<1>5. ShowStep
  BY DEF ShowStep, WillShow
<1> QED BY <1>1, <1>3, <1>4, <1>5

\* A request is added, or one that is no link and no removal leaves.
LEMMA RequestsMove ==
  ASSUME NEW out, NEW in, requests' = (requests \ out) \cup in,
         \A r \in out : ~(r.kind \in Forms \cup {"remove"} /\ r.pc = "served")
  PROVE  \A a \in Accounts : /\ Linking(a) => Linking(a)'
                             /\ Removing(a) => Removing(a)'
BY DEF Linking, Removing

LEMMA LoseReplyIs ==
  ASSUME LinkedTypes, LoseReply \/ UNCHANGED lostReplies
  PROVE  lostReplies' \in Nat /\ lostReplies' >= lostReplies /\ (LoseReply => lostReplies' # 0)
BY DEF LinkedTypes, LoseReply

\* The dialogs.
LEMMA DialogSteps ==
  ASSUME LinkedInv, Connect \/ OpenRowDialog \/ CloseDialog
  PROVE  LinkedInv' /\ GoneStep /\ ShowStep
<1>1. UNCHANGED <<held, listed, kept, fetches, requests, syncing, limits, submits, lostReplies>>
  BY DEF Connect, OpenRowDialog, CloseDialog, bounds
<1>2. LinkedTypes
  BY DEF LinkedInv
<1>3. OneCurrent' /\ Timely' /\ GoneStep /\ ShowStep
  <2>1. \A a \in Accounts : (Linking(a) => Linking(a)') /\ (Removing(a) => Removing(a)')
    BY <1>1 DEF Linking, Removing
  <2> QED BY <1>1, <1>2, <2>1, QuietStep DEF LinkedTypes
<1>4. leaving' \in {"no", "soon", "gone"}
  BY <1>2 DEF LinkedTypes, Connect, OpenRowDialog, CloseDialog
<1>5. /\ dialog' \in Dialogs /\ (dialog' # Closed => dialog'.acct \in Accounts)
      /\ dialog'.kind = "refresh" => dialog'.acct \in Linked
  <2>1. CASE Connect
    <3>1. PICK n \in NewAccounts, k \in Forms :
             dialog' = dialog \/ dialog' = [kind |-> k, acct |-> n]
      BY <2>1 DEF Connect
    <3>2. CASE dialog' = dialog
      BY <1>1, <1>2, <3>2 DEF LinkedTypes
    <3>3. CASE dialog' = [kind |-> k, acct |-> n]
      <4>1. dialog' \in Dialogs /\ dialog'.acct \in Accounts
        BY <3>3 DEF Dialogs, DialogKinds, Accounts
      <4>2. dialog'.kind # "refresh"
        BY <3>3 DEF Forms
      <4> QED BY <4>1, <4>2
    <3> QED BY <3>1, <3>2, <3>3
  <2>2. CASE OpenRowDialog
    <3>1. PICK a \in Present(listed), k \in {"edit", "refresh", "remove"} :
             /\ k = "refresh" => a \in Linked
             /\ dialog' = [kind |-> k, acct |-> a]
      BY <2>2 DEF OpenRowDialog
    <3>2. a \in Accounts
      BY DEF Present
    <3> QED BY <3>1, <3>2 DEF Dialogs, DialogKinds
  <2>3. CASE CloseDialog
    BY <1>2, <2>3 DEF LinkedTypes, CloseDialog, Dialogs, DialogKinds, Forms, Closed
  <2> QED BY <2>1, <2>2, <2>3
<1>6. LinkedTypes'
  <2>1. \A r \in requests' : RequestTyped(r)'
    BY <1>1, <1>2 DEF LinkedTypes, RequestTyped
  <2> QED BY <1>1, <1>2, <1>4, <1>5, <2>1 DEF LinkedTypes
<1> QED BY <1>3, <1>6 DEF LinkedInv

LEMMA LimitsStep ==
  ASSUME LinkedInv, LimitsAnswered
  PROVE  LinkedInv' /\ GoneStep /\ ShowStep
<1>1. PICK r \in requests : /\ r.kind = "limits" /\ requests' = requests \ {r}
                            /\ LoseReply \/ UNCHANGED lostReplies
  BY DEF LimitsAnswered
<1>2. UNCHANGED <<held, listed, kept, fetches, dialog, syncing, leaving, submits>>
      /\ limits' \in {"unknown", "room", "full"}
  BY DEF LimitsAnswered, LinkedInv, LinkedTypes
<1>3. requests' = (requests \ {r}) \cup {}
  BY <1>1
<1>4. \A a \in Accounts : (Linking(a) => Linking(a)') /\ (Removing(a) => Removing(a)')
  BY <1>1, <1>3, RequestsMove DEF Forms
<1>5. LinkedTypes
  BY DEF LinkedInv
<1>6. OneCurrent' /\ Timely' /\ GoneStep /\ ShowStep
  BY <1>1, <1>2, <1>4, <1>5, QuietStep, LoseReplyIs
<1>7. LinkedTypes'
  <2>1. \A q \in requests' : RequestTyped(q)'
    BY <1>1, <1>2, <1>5 DEF LinkedTypes, RequestTyped
  <2> QED BY <1>1, <1>2, <1>5, <2>1, LoseReplyIs DEF LinkedTypes
<1> QED BY <1>6, <1>7 DEF LinkedInv

\* A button is pressed: a request starts.
LEMMA RequestStarts ==
  ASSUME LinkedInv, NEW r, RequestTyped(r), r.pc = "sent",
         requests' = requests \cup {r}, submits' = submits + 1,
         syncing' \subseteq Linked,
         UNCHANGED <<held, listed, kept, fetches, dialog, limits, leaving, lostReplies>>
  PROVE  LinkedInv' /\ GoneStep /\ ShowStep
<1>1. LinkedTypes
  BY DEF LinkedInv
<1>3. \A a \in Accounts : (Linking(a) => Linking(a)') /\ (Removing(a) => Removing(a)')
  BY DEF Linking, Removing
<1>4. OneCurrent' /\ Timely' /\ GoneStep /\ ShowStep
  BY <1>1, <1>3, QuietStep DEF LinkedTypes
<1>5. LinkedTypes'
  <2>1. \A q \in requests' : RequestTyped(q)'
    BY <1>1 DEF LinkedTypes, RequestTyped
  <2> QED BY <1>1, <2>1 DEF LinkedTypes
<1> QED BY <1>4, <1>5 DEF LinkedInv

LEMMA RequestIs ==
  ASSUME LinkedTypes, NEW k \in RequestKinds \ {"limits"}, NEW a \in Accounts, NEW q \in Seq(Linked),
         k = "sync" => a \in Linked
  PROVE  /\ RequestTyped(Request(k, a, q)) /\ Request(k, a, q).pc = "sent"
         /\ RequestTyped([Request(k, a, q) EXCEPT !.spins = FALSE])
         /\ [Request(k, a, q) EXCEPT !.spins = FALSE].pc = "sent"
<1>1. PICK x : x = Request(k, a, q)
  OBVIOUS
<1>2. x \in Requests /\ x.kind = k /\ x.acct = a /\ x.pc = "sent" /\ (x.spins => k = "sync")
  <2>1. submits + 1 \in Nat /\ (k = "sync") \in BOOLEAN
    BY DEF LinkedTypes
  <2>2. x = [id |-> submits + 1, kind |-> k, acct |-> a, pc |-> "sent", rest |-> q,
             spins |-> (k = "sync")]
    BY <1>1 DEF Request
  <2>3. x \in [id : Nat, kind : {k}, acct : {a}, pc : {"sent"}, rest : Seq(Linked), spins : BOOLEAN]
    BY <2>1, <2>2
  <2>4. x.spins => k = "sync"
    BY <2>2
  <2> QED BY <2>3, <2>4 DEF Requests
<1>3. PICK y : y = [x EXCEPT !.spins = FALSE]
  OBVIOUS
<1>4. y \in Requests /\ y.kind = k /\ y.acct = a /\ y.pc = "sent" /\ ~y.spins
  BY <1>2, <1>3 DEF Requests
<1> QED BY <1>1, <1>2, <1>3, <1>4 DEF RequestTyped

LEMMA SubmitSteps ==
  ASSUME LinkedInv,
         \/ SubmitWallet \/ SubmitExchange \/ SubmitManual \/ SubmitEdit \/ Confirm
  PROVE  LinkedInv' /\ GoneStep /\ ShowStep
<1>1. LinkedTypes
  BY DEF LinkedInv
<1>2. <<>> \in Seq(Linked)
  OBVIOUS
<1>3. PICK k \in RequestKinds \ {"limits"} :
         /\ dialog.acct \in Accounts /\ (k = "sync" => dialog.acct \in Linked)
         /\ \/ Submit(Request(k, dialog.acct, <<>>))
            \/ Submit([Request(k, dialog.acct, <<>>) EXCEPT !.spins = FALSE])
  <2>0. dialog.kind # "closed" => dialog # Closed
    <3>1. Closed.kind = "closed"
      BY DEF Closed
    <3> QED BY <3>1
  <2>1. CASE SubmitWallet \/ SubmitExchange \/ SubmitManual
    <3>1. PICK k \in Forms : dialog.kind = k /\ Submit(Request(k, dialog.acct, <<>>))
      BY <2>1 DEF SubmitWallet, SubmitExchange, SubmitManual, SubmitAdd, Forms
    <3>2. k \in RequestKinds \ {"limits"} /\ k # "sync" /\ k # "closed"
      BY DEF RequestKinds, Forms
    <3> QED BY <1>1, <2>0, <3>1, <3>2 DEF LinkedTypes
  <2>2. CASE SubmitEdit
    <3>1. dialog.kind = "edit" /\ Submit(Request("edit", dialog.acct, <<>>))
      BY <2>2 DEF SubmitEdit
    <3>2. "edit" \in RequestKinds \ {"limits"}
      BY DEF RequestKinds
    <3> QED BY <1>1, <2>0, <3>1, <3>2 DEF LinkedTypes
  <2>3. CASE Confirm
    <3>1. "remove" \in RequestKinds \ {"limits"} /\ "sync" \in RequestKinds \ {"limits"}
      BY DEF RequestKinds
    <3>2. \/ dialog.kind = "remove" /\ Submit(Request("remove", dialog.acct, <<>>))
          \/ /\ dialog.kind = "refresh"
             /\ Submit([Request("sync", dialog.acct, <<>>) EXCEPT !.spins = FALSE])
      BY <2>3 DEF Confirm
    <3> QED BY <1>1, <2>0, <3>1, <3>2 DEF LinkedTypes
  <2> QED BY <2>1, <2>2, <2>3
<1>4. PICK r : RequestTyped(r) /\ r.pc = "sent" /\ Submit(r)
  BY <1>1, <1>2, <1>3, RequestIs
<1>5. /\ requests' = requests \cup {r} /\ submits' = submits + 1 /\ syncing' \subseteq Linked
      /\ UNCHANGED <<held, listed, kept, fetches, dialog, limits, leaving, lostReplies>>
  BY <1>1, <1>4 DEF Submit, LinkedTypes
<1> QED BY <1>4, <1>5, RequestStarts

LEMMA SyncSteps ==
  ASSUME LinkedInv, SyncRow \/ SyncAll
  PROVE  LinkedInv' /\ GoneStep /\ ShowStep
<1>1. LinkedTypes
  BY DEF LinkedInv
<1>2. CASE SyncRow
  <2>1. PICK a \in Present(listed) \cap Linked :
           /\ requests' = requests \cup {Request("sync", a, <<>>)} /\ submits' = submits + 1
           /\ syncing' = syncing \cup {a}
           /\ UNCHANGED <<held, listed, kept, fetches, dialog, limits, leaving, lostReplies>>
    BY <1>2 DEF SyncRow
  <2>2. RequestTyped(Request("sync", a, <<>>)) /\ Request("sync", a, <<>>).pc = "sent"
    <3>1. "sync" \in RequestKinds \ {"limits"} /\ <<>> \in Seq(Linked) /\ a \in Accounts /\ a \in Linked
      BY DEF RequestKinds, Accounts
    <3> QED BY <1>1, <3>1, RequestIs
  <2>3. syncing' \subseteq Linked
    BY <1>1, <2>1 DEF LinkedTypes
  <2> QED BY <2>1, <2>2, <2>3, RequestStarts
<1>3. CASE SyncAll
  <2>1. PICK q \in Orders((Present(listed) \cap Linked) \ syncing) :
           /\ q # <<>>
           /\ requests' = requests \cup {Request("sync", Head(q), Tail(q))} /\ submits' = submits + 1
           /\ syncing' = syncing \cup {Head(q)}
           /\ UNCHANGED <<held, listed, kept, fetches, dialog, limits, leaving, lostReplies>>
    BY <1>3 DEF SyncAll
  <2>2. Head(q) \in Linked /\ Tail(q) \in Seq(Linked)
    <3> DEFINE S == (Present(listed) \cap Linked) \ syncing
    <3>1. IsFiniteSet(S)
      <4>1. S \in SUBSET Linked
        OBVIOUS
      <4> QED BY <4>1, LinkedAccountsAssumption, FS_Subset
    <3>2. Cardinality(S) \in Nat
      BY <3>1, FS_CardinalityType
    <3>3. q \in [1 .. Cardinality(S) -> S]
      BY DEF Orders
    <3>4. q \in Seq(Linked)
      <4>1. PICK n \in Nat : n = Cardinality(S)
        BY <3>2
      <4>2. q \in [1 .. n -> Linked]
        BY <3>3, <4>1
      <4> QED BY <4>1, <4>2, SeqDef
    <3> QED BY <2>1, <3>4
  <2>3. RequestTyped(Request("sync", Head(q), Tail(q))) /\ Request("sync", Head(q), Tail(q)).pc = "sent"
    BY <1>1, <2>2, RequestIs DEF Accounts, RequestKinds
  <2>4. syncing' \subseteq Linked
    BY <1>1, <2>1, <2>2 DEF LinkedTypes
  <2> QED BY <2>1, <2>3, <2>4, RequestStarts
<1> QED BY <1>2, <1>3

\* A list is fetched: the server answers with what it holds.
LEMMA ServedStep ==
  ASSUME LinkedInv, FetchServed
  PROVE  LinkedInv' /\ GoneStep /\ ShowStep
<1>1. PICK f \in fetches : f.reply = NoCopy /\ fetches' = (fetches \ {f}) \cup {[f EXCEPT !.reply = held]}
  BY DEF FetchServed
<1>2. UNCHANGED <<held, listed, kept, requests, dialog, syncing, limits, leaving, submits, lostReplies>>
  BY DEF FetchServed, bounds
<1>3. LinkedTypes
  BY DEF LinkedInv
<1>4. PICK g : g = [f EXCEPT !.reply = held]
  OBVIOUS
<1>5. f \in Fetches
  BY <1>3 DEF LinkedTypes
<1>6. g \in [by : {f.by}, reply : {held}, current : {f.current}] /\ g \in Fetches
  BY <1>3, <1>4, <1>5 DEF Fetches, LinkedTypes
<1>7. g.reply = held /\ g.current = f.current
  BY <1>6
<1>8. fetches' = (fetches \ {f}) \cup {g}
  BY <1>1, <1>4
<1>9. OneCurrent'
  BY <1>7, <1>8 DEF LinkedInv, OneCurrent
<1>10. \A a \in Accounts : (Linking(a) => Linking(a)') /\ (Removing(a) => Removing(a)')
  BY <1>2 DEF Linking, Removing
<1>11. Timely'
  BY <1>2, <1>7, <1>8, <1>10 DEF LinkedInv, Timely
<1>12. \A a \in Accounts : WillShow(a) => WillShow(a)'
  <2> SUFFICES ASSUME NEW a \in Accounts, WillShow(a), held[a] # 0, listed[a] = 0, ~Linking(a)
               PROVE  WillShow(a)'
    BY <1>2, <1>10 DEF WillShow
  <2>1. PICK h \in fetches : h.current /\ (h.reply = NoCopy \/ h.reply[a] # 0)
    BY DEF WillShow
  <2>2. CASE h = f
    <3>1. g \in fetches' /\ g.current /\ g.reply[a] # 0
      BY <1>7, <1>8, <2>1, <2>2
    <3> QED BY <3>1 DEF WillShow
  <2>3. CASE h # f
    BY <1>8, <2>1, <2>3 DEF WillShow
  <2> QED BY <2>2, <2>3
<1>13. GoneStep /\ ShowStep
  BY <1>2, <1>12 DEF GoneStep, ShowStep
<1>14. LinkedTypes'
  <2>1. fetches' \subseteq Fetches
    BY <1>3, <1>6, <1>8 DEF LinkedTypes
  <2>2. \A q \in requests' : RequestTyped(q)'
    BY <1>2, <1>3 DEF LinkedTypes, RequestTyped
  <2> QED BY <1>2, <1>3, <2>1, <2>2 DEF LinkedTypes
<1> QED BY <1>9, <1>11, <1>13, <1>14 DEF LinkedInv

\* The page gets the answer, or the copy when the request failed.
LEMMA AnsweredStep ==
  ASSUME LinkedInv, FetchAnswered
  PROVE  LinkedInv' /\ GoneStep /\ ShowStep
<1>1. PICK f \in fetches :
        /\ fetches' = fetches \ {f}
        /\ \/ /\ f.reply # NoCopy
              /\ kept' = f.reply /\ listed' = IF f.current THEN f.reply ELSE listed
              /\ UNCHANGED lostReplies
           \/ /\ LoseReply
              /\ listed' = IF f.current /\ kept # NoCopy THEN kept ELSE listed
              /\ UNCHANGED kept
  BY DEF FetchAnswered
<1>2. UNCHANGED <<held, requests, dialog, syncing, limits, leaving, submits>>
  BY DEF FetchAnswered
<1>3. LinkedTypes
  BY DEF LinkedInv
<1>4. f \in Fetches
  BY <1>3 DEF LinkedTypes
<1>5. LinkedTypes'
  <2>1. listed' \in Lists /\ kept' \in Lists \cup {NoCopy}
    BY <1>1, <1>3, <1>4 DEF LinkedTypes, Fetches
  <2>2. \A q \in requests' : RequestTyped(q)'
    BY <1>2, <1>3 DEF LinkedTypes, RequestTyped
  <2>3. lostReplies' \in Nat
    BY <1>1, <1>3, LoseReplyIs
  <2> QED BY <1>1, <1>2, <1>3, <2>1, <2>2, <2>3 DEF LinkedTypes
<1>6. OneCurrent'
  BY <1>1 DEF LinkedInv, OneCurrent
<1>7. \A a \in Accounts : Linking(a)' = Linking(a) /\ Removing(a)' = Removing(a)
  BY <1>2 DEF Linking, Removing
<1>8. lostReplies' = 0 => /\ lostReplies = 0 /\ f.reply # NoCopy
                          /\ listed' = IF f.current THEN f.reply ELSE listed
  BY <1>1, <1>3, LoseReplyIs
<1>9. Timely'
  BY <1>1, <1>2, <1>7, <1>8 DEF LinkedInv, Timely
<1>10. GoneStep
  <2> SUFFICES ASSUME NEW a \in Accounts, listed[a] = 0, listed'[a] # 0, lostReplies' = 0
               PROVE  held[a] # 0 \/ Removing(a)
    BY DEF GoneStep
  <2>1. f.current /\ f.reply[a] # 0 /\ f.reply # NoCopy /\ lostReplies = 0
    BY <1>8
  <2> QED BY <2>1 DEF LinkedInv, Timely
<1>11. ShowStep
  <2> SUFFICES ASSUME lostReplies' = 0, NEW a \in Accounts, WillShow(a)
               PROVE  WillShow(a)'
    BY DEF ShowStep
  <2> SUFFICES ASSUME held[a] # 0, ~Linking(a)
               PROVE  WillShow(a)'
    BY <1>2, <1>7 DEF WillShow
  <2>1. CASE f.current
    <3>1. f.reply[a] # 0
      BY <1>8, <2>1 DEF LinkedInv, Timely
    <3>2. listed'[a] # 0
      BY <1>8, <2>1, <3>1
    <3> QED BY <3>2 DEF WillShow
  <2>2. CASE ~f.current
    <3>1. listed' = listed
      BY <1>8, <2>2
    <3>2. \A g \in fetches : g.current => g \in fetches'
      BY <1>1, <2>2
    <3> QED BY <3>1, <3>2 DEF WillShow
  <2> QED BY <2>1, <2>2
<1> QED BY <1>5, <1>6, <1>9, <1>10, <1>11 DEF LinkedInv

\* A request moves on without a word about what it does to the page.
LEMMA MovesOn ==
  ASSUME LinkedTypes, NEW r \in requests,
         NEW p \in {"served", "reload", "reloaded", "refetch"}
  PROVE  /\ RequestTyped([r EXCEPT !.pc = p])
         /\ [r EXCEPT !.pc = p].kind = r.kind /\ [r EXCEPT !.pc = p].acct = r.acct
         /\ [r EXCEPT !.pc = p].pc = p
         /\ (\A q \in requests : RequestTyped(q)) /\ r.id \in Nat
<1>1. r \in Requests /\ RequestTyped(r)
  BY DEF LinkedTypes, RequestTyped
<1>2. PICK g : g = [r EXCEPT !.pc = p]
  OBVIOUS
<1>3. g \in Requests /\ g.kind = r.kind /\ g.acct = r.acct /\ g.pc = p /\ g.spins = r.spins
  BY <1>1, <1>2 DEF Requests
<1>4. RequestTyped(g)
  BY <1>1, <1>3 DEF RequestTyped
<1>5. r.id \in Nat
  BY <1>1 DEF Requests
<1> QED BY <1>2, <1>3, <1>4, <1>5 DEF LinkedTypes

\* The server does what a request asks for.
LEMMA AppliedStep ==
  ASSUME LinkedInv, Applied
  PROVE  LinkedInv' /\ GoneStep /\ ShowStep
<1>1. PICK r \in requests :
        /\ r.kind # "limits" /\ r.pc = "sent" /\ ~Refuses(r)
        /\ requests' = (requests \ {r}) \cup {[r EXCEPT !.pc = "served"]}
        /\ held' = CASE r.kind \in Forms \cup {"edit"} -> [held EXCEPT ![r.acct] = @ + 1]
                     [] r.kind = "remove" -> [held EXCEPT ![r.acct] = 0]
                     [] OTHER -> held
  BY DEF Applied
<1>2. UNCHANGED <<listed, kept, fetches, dialog, syncing, limits, leaving, submits, lostReplies>>
  BY DEF Applied, bounds
<1>3. LinkedTypes
  BY DEF LinkedInv
<1>4. PICK g : /\ g = [r EXCEPT !.pc = "served"] /\ RequestTyped(g)
               /\ g.kind = r.kind /\ g.acct = r.acct /\ g.pc = "served"
  BY <1>3, MovesOn
<1>5. requests' = (requests \ {r}) \cup {g}
  BY <1>1, <1>4
<1>6. r.acct \in Accounts /\ RequestTyped(r)
  BY <1>1, <1>3 DEF LinkedTypes, RequestTyped
<1>7. held' \in Lists /\ \A a \in Accounts : a # r.acct => held'[a] = held[a]
  <2>1. CASE r.kind \in Forms \cup {"edit"}
    <3>1. held' = [held EXCEPT ![r.acct] = @ + 1]
      BY <1>1, <2>1 DEF Forms
    <3> QED BY <1>3, <1>6, <3>1 DEF LinkedTypes, Lists
  <2>2. CASE r.kind = "remove"
    BY <1>1, <1>3, <1>6, <2>2 DEF LinkedTypes, Lists, Forms
  <2>3. CASE r.kind \notin Forms \cup {"edit", "remove"}
    BY <1>1, <1>3, <1>6, <2>3 DEF LinkedTypes, Lists
  <2> QED BY <2>1, <2>2, <2>3
<1>8. \A a \in Accounts : /\ held[a] = 0 /\ held'[a] # 0 => Linking(a)'
                          /\ held[a] # 0 /\ held'[a] = 0 => Removing(a)'
  <2> SUFFICES /\ held[r.acct] = 0 /\ held'[r.acct] # 0 => Linking(r.acct)'
               /\ held[r.acct] # 0 /\ held'[r.acct] = 0 => Removing(r.acct)'
    BY <1>7
  <2>1. CASE r.kind \in Forms
    <3>1. Linking(r.acct)'
      BY <1>4, <1>5, <2>1 DEF Linking
    <3>2. held'[r.acct] = held[r.acct] + 1 /\ held[r.acct] \in Nat
      <4>1. held' = [held EXCEPT ![r.acct] = @ + 1]
        BY <1>1, <2>1 DEF Forms
      <4> QED BY <1>3, <1>6, <4>1 DEF LinkedTypes, Lists
    <3> QED BY <3>1, <3>2
  <2>2. CASE r.kind = "edit"
    <3>1. held[r.acct] # 0
      BY <1>1, <2>2 DEF Refuses, Forms
    <3>2. held'[r.acct] = held[r.acct] + 1 /\ held[r.acct] \in Nat
      BY <1>1, <1>3, <1>6, <2>2 DEF LinkedTypes, Lists
    <3> QED BY <3>1, <3>2
  <2>3. CASE r.kind = "remove"
    <3>1. Removing(r.acct)'
      BY <1>4, <1>5, <2>3 DEF Removing
    <3>2. held'[r.acct] = 0
      BY <1>1, <1>3, <1>6, <2>3 DEF LinkedTypes, Lists, Forms
    <3> QED BY <3>1, <3>2
  <2>4. CASE r.kind \notin Forms \cup {"edit", "remove"}
    <3>1. held' = held
      BY <1>1, <2>4
    <3> QED BY <3>1
  <2> QED BY <2>1, <2>2, <2>3, <2>4
<1>9. \A a \in Accounts : (Linking(a) => Linking(a)') /\ (Removing(a) => Removing(a)')
  <2>1. PICK out, in : out = {r} /\ in = {g}
    OBVIOUS
  <2>2. \A q \in out : ~(q.kind \in Forms \cup {"remove"} /\ q.pc = "served")
    BY <1>1, <2>1
  <2>3. requests' = (requests \ out) \cup in
    BY <1>5, <2>1
  <2> QED BY <2>2, <2>3, RequestsMove
<1>10. Timely'
  <2> SUFFICES ASSUME lostReplies = 0, NEW f \in fetches, f.current, f.reply # NoCopy,
                      NEW a \in Accounts
               PROVE  /\ f.reply[a] = 0 /\ held'[a] # 0 => Linking(a)'
                      /\ f.reply[a] # 0 /\ held'[a] = 0 => Removing(a)'
    BY <1>2 DEF Timely
  <2>1. /\ f.reply[a] = 0 /\ held[a] # 0 => Linking(a)
        /\ f.reply[a] # 0 /\ held[a] = 0 => Removing(a)
    BY DEF LinkedInv, Timely
  <2> QED BY <1>8, <1>9, <2>1
<1>11. OneCurrent'
  BY <1>2 DEF LinkedInv, OneCurrent
<1>12. GoneStep
  BY <1>2 DEF GoneStep
<1>13. ShowStep
  BY <1>2, <1>8, <1>9 DEF ShowStep, WillShow
<1>14. LinkedTypes'
  <2>1. \A q \in requests' : RequestTyped(q)'
    BY <1>3, <1>4, <1>5 DEF LinkedTypes, RequestTyped
  <2> QED BY <1>2, <1>3, <1>7, <2>1 DEF LinkedTypes
<1> QED BY <1>10, <1>11, <1>12, <1>13, <1>14 DEF LinkedInv

\* Every answer that fetches the list anew.
LEMMA RefetchStep ==
  ASSUME LinkedInv, NEW n \in Nat, Fetch(n), listed' \in Lists,
         \A q \in requests' : RequestTyped(q),
         dialog' \in {dialog, Closed}, syncing' \subseteq Linked,
         leaving' \in {leaving, "soon"}, lostReplies' \in Nat,
         \A a \in Accounts : listed[a] = 0 /\ listed'[a] # 0 => held[a] # 0,
         UNCHANGED <<held, kept, limits, submits>>
  PROVE  LinkedInv' /\ GoneStep /\ ShowStep
<1>1. LinkedTypes
  BY DEF LinkedInv
<1>2. fetches' \subseteq Fetches /\ OneCurrent' /\ Timely' /\ \A a \in Accounts : WillShow(a)'
  BY <1>1, FetchStarts
<1>3. GoneStep /\ ShowStep
  BY <1>2 DEF GoneStep, ShowStep
<1>4. /\ dialog' \in Dialogs /\ (dialog' # Closed => dialog'.acct \in Accounts)
      /\ dialog'.kind = "refresh" => dialog'.acct \in Linked
  <2>1. Closed \in Dialogs /\ Closed.kind # "refresh"
    BY DEF Closed, Dialogs, DialogKinds
  <2> QED BY <1>1, <2>1 DEF LinkedTypes
<1>5. LinkedTypes'
  <2>1. \A q \in requests' : RequestTyped(q)'
    BY DEF RequestTyped
  <2>2. leaving' \in {"no", "soon", "gone"}
    BY <1>1 DEF LinkedTypes
  <2> QED BY <1>1, <1>2, <1>4, <2>1, <2>2 DEF LinkedTypes
<1> QED BY <1>2, <1>3, <1>5 DEF LinkedInv

LEMMA LinkStep ==
  ASSUME LinkedInv, LinkAnswered
  PROVE  LinkedInv' /\ GoneStep /\ ShowStep
<1>1. PICK r \in requests :
        /\ r.kind \in Forms /\ r.pc = "served"
        /\ requests' = (requests \ {r}) \cup {LimitsRequest(r.id)}
        /\ Shuts({r.kind}) /\ Adds(r) /\ Fetch(r.id)
  BY DEF LinkAnswered
<1>2. UNCHANGED <<held, kept, syncing, limits, leaving, submits, lostReplies>>
  BY DEF LinkAnswered, bounds
<1>3. LinkedTypes /\ RequestTyped(r) /\ r.id \in Nat /\ \A q \in requests : RequestTyped(q)
  BY MovesOn DEF LinkedInv, LinkedTypes
<1>4. r.acct \in Accounts
  BY <1>1, <1>3 DEF RequestTyped, Forms
<1>5. RequestTyped(LimitsRequest(r.id))
  <2>1. PICK x : x = LimitsRequest(r.id)
    OBVIOUS
  <2>2. x = [id |-> r.id, kind |-> "limits", acct |-> "", pc |-> "sent", rest |-> <<>>, spins |-> FALSE]
    BY <2>1 DEF LimitsRequest
  <2>3. x \in [id : Nat, kind : {"limits"}, acct : {""}, pc : {"sent"}, rest : {<<>>}, spins : {FALSE}]
    BY <1>3, <2>2
  <2>4. <<>> \in Seq(Linked)
    OBVIOUS
  <2>5. x \in Requests /\ x.kind = "limits" /\ ~x.spins
    BY <2>3, <2>4 DEF Requests, RequestKinds
  <2> QED BY <2>1, <2>5 DEF RequestTyped
<1>6. listed' \in Lists /\ \A a \in Accounts : listed[a] = 0 /\ listed'[a] # 0 => held[a] # 0
  BY <1>1, <1>3, <1>4 DEF Adds, LinkedTypes, Lists
<1>7. dialog' \in {dialog, Closed}
  BY <1>1 DEF Shuts
<1>8. \A q \in requests' : RequestTyped(q)
  BY <1>1, <1>3, <1>5
<1>9. syncing' \subseteq Linked /\ leaving' \in {leaving, "soon"} /\ lostReplies' \in Nat
  BY <1>2, <1>3 DEF LinkedTypes
<1> QED BY <1>1, <1>2, <1>3, <1>6, <1>7, <1>8, <1>9, RefetchStep

LEMMA RemoveStep ==
  ASSUME LinkedInv, RemoveAnswered
  PROVE  LinkedInv' /\ GoneStep /\ ShowStep
<1>1. PICK r \in requests :
        /\ r.kind = "remove" /\ r.pc = "served"
        /\ requests' = (requests \ {r}) \cup {[r EXCEPT !.pc = "refetch"]}
        /\ listed' = [listed EXCEPT ![r.acct] = 0] /\ Fetch(r.id)
  BY DEF RemoveAnswered
<1>2. UNCHANGED <<held, kept, dialog, syncing, limits, leaving, submits, lostReplies>>
  BY DEF RemoveAnswered, bounds
<1>3. LinkedTypes /\ r.id \in Nat /\ \A q \in requests : RequestTyped(q)
  BY MovesOn DEF LinkedInv
<1>4. r.acct \in Accounts
  BY <1>1, <1>3 DEF RequestTyped
<1>5. RequestTyped([r EXCEPT !.pc = "refetch"])
  BY <1>3, MovesOn
<1>6. listed' \in Lists /\ \A a \in Accounts : listed[a] = 0 /\ listed'[a] # 0 => held[a] # 0
  BY <1>1, <1>3, <1>4 DEF LinkedTypes, Lists
<1>8. \A q \in requests' : RequestTyped(q)
  BY <1>1, <1>3, <1>5
<1>9. /\ dialog' \in {dialog, Closed} /\ syncing' \subseteq Linked
      /\ leaving' \in {leaving, "soon"} /\ lostReplies' \in Nat
  BY <1>2, <1>3 DEF LinkedTypes
<1> QED BY <1>1, <1>2, <1>3, <1>6, <1>8, <1>9, RefetchStep

LEMMA ReloadStep ==
  ASSUME LinkedInv, Reload
  PROVE  LinkedInv' /\ GoneStep /\ ShowStep
<1>1. PICK r \in requests :
        /\ r.kind = "sync" /\ Reloads(r) # "ends"
        /\ requests' = (requests \ {r}) \cup {[r EXCEPT !.pc = Reloads(r)]}
        /\ Fetch(r.id)
  BY DEF Reload
<1>2. UNCHANGED <<held, listed, kept, dialog, syncing, limits, leaving, submits, lostReplies>>
  BY DEF Reload, bounds
<1>3. LinkedTypes /\ r.id \in Nat /\ \A q \in requests : RequestTyped(q)
  BY MovesOn DEF LinkedInv
<1>4. Reloads(r) \in {"reload", "reloaded", "refetch"}
  BY <1>1 DEF Reloads
<1>5. RequestTyped([r EXCEPT !.pc = Reloads(r)])
  <2>1. PICK p \in {"served", "reload", "reloaded", "refetch"} : p = Reloads(r)
    BY <1>4
  <2> QED BY <1>3, <2>1, MovesOn
<1>6. \A q \in requests' : RequestTyped(q)
  BY <1>1, <1>3, <1>5
<1>7. /\ dialog' \in {dialog, Closed} /\ syncing' \subseteq Linked /\ listed' \in Lists
      /\ leaving' \in {leaving, "soon"} /\ lostReplies' \in Nat
  BY <1>2, <1>3 DEF LinkedTypes
<1> QED BY <1>1, <1>2, <1>3, <1>6, <1>7, RefetchStep

\* An edit's answer puts its row on the list and takes the list for current.
LEMMA EditStep ==
  ASSUME LinkedInv, EditAnswered
  PROVE  LinkedInv' /\ GoneStep /\ ShowStep
<1>1. PICK r \in requests :
        /\ r.kind = "edit" /\ requests' = requests \ {r}
        /\ Edited([listed EXCEPT ![r.acct] = IF @ = 0 THEN 0 ELSE held[r.acct]])
        /\ Shuts({"edit"})
  BY DEF EditAnswered
<1>2. UNCHANGED <<held, kept, syncing, limits, leaving, submits, lostReplies>>
  BY DEF EditAnswered, bounds
<1>3. LinkedTypes
  BY DEF LinkedInv
<1>4. r.acct \in Accounts
  BY <1>1, <1>3 DEF LinkedTypes, RequestTyped
<1>5. listed' = [listed EXCEPT ![r.acct] = IF listed[r.acct] = 0 THEN 0 ELSE held[r.acct]]
  BY <1>1, <1>3, <1>4 DEF Edited, LinkedTypes, Lists
<1>6. listed' \in Lists /\ \A a \in Accounts : listed[a] = 0 /\ listed'[a] # 0 => FALSE
  BY <1>3, <1>4, <1>5 DEF LinkedTypes, Lists
<1>7. fetches' \subseteq Fetches /\ \A f \in fetches' : ~f.current
  BY <1>1, <1>3, OutdatedIs DEF Edited
<1>8. OneCurrent' /\ Timely'
  BY <1>7 DEF OneCurrent, Timely
<1>9. GoneStep
  BY <1>6 DEF GoneStep
<1>10. ShowStep
  BY DEF ShowStep
<1>11. /\ dialog' \in Dialogs /\ (dialog' # Closed => dialog'.acct \in Accounts)
       /\ dialog'.kind = "refresh" => dialog'.acct \in Linked
  <2>1. Closed \in Dialogs /\ Closed.kind # "refresh"
    BY DEF Closed, Dialogs, DialogKinds
  <2>2. dialog' \in {dialog, Closed}
    BY <1>1 DEF Shuts
  <2> QED BY <1>3, <2>1, <2>2 DEF LinkedTypes
<1>12. LinkedTypes'
  <2>1. \A q \in requests' : RequestTyped(q)'
    BY <1>1, <1>3 DEF LinkedTypes, RequestTyped
  <2> QED BY <1>2, <1>3, <1>6, <1>7, <1>11, <2>1 DEF LinkedTypes
<1> QED BY <1>8, <1>9, <1>10, <1>12 DEF LinkedInv

\* A handler ends, and the loop over all accounts turns to its next one.
LEMMA FinishIs ==
  ASSUME LinkedTypes, NEW r \in requests, r.kind \in {"sync", "remove"}, Finish(r)
  PROVE  /\ \A q \in requests' : RequestTyped(q)
         /\ syncing' \subseteq Linked /\ dialog' \in {dialog, Closed}
         /\ \E in : /\ requests' = (requests \ {r}) \cup in
                    /\ in = {} \/ r.rest # <<>>
<1>1. r \in Requests /\ RequestTyped(r)
  BY DEF LinkedTypes, RequestTyped
<1>2. \A q \in requests : RequestTyped(q)
  BY DEF LinkedTypes
<1>3. CASE r.rest = <<>>
  <2>1. requests' = (requests \ {r}) \cup {} /\ syncing' \subseteq syncing
    BY <1>3 DEF Finish
  <2> QED BY <1>2, <1>3, <2>1 DEF LinkedTypes, Finish, Shuts
<1>4. CASE r.rest # <<>>
  <2>1. r.rest \in Seq(Linked) /\ Head(r.rest) \in Linked /\ Tail(r.rest) \in Seq(Linked)
    <3>1. r.rest \in Seq(Linked)
      BY <1>1 DEF Requests
    <3> QED BY <1>4, <3>1, HeadTailProperties
  <2>2. PICK g : g = [r EXCEPT !.acct = Head(r.rest), !.rest = Tail(r.rest), !.pc = "sent"]
    OBVIOUS
  <2>3. g \in [id : {r.id}, kind : {r.kind}, acct : {Head(r.rest)}, pc : {"sent"},
               rest : {Tail(r.rest)}, spins : {r.spins}]
    BY <1>1, <2>2 DEF Requests
  <2>4. RequestTyped(g)
    BY <1>1, <2>1, <2>3 DEF RequestTyped, Requests, Accounts
  <2>5. requests' = (requests \ {r}) \cup {g}
    BY <1>4, <2>2 DEF Finish
  <2>6. syncing' \subseteq Linked
    BY <1>4, <2>1 DEF Finish, LinkedTypes
  <2> QED BY <1>2, <1>4, <2>4, <2>5, <2>6 DEF Finish, Shuts
<1> QED BY <1>3, <1>4

\* A step that ends a handler, with its dialog, and touches no list.
LEMMA EndStep ==
  ASSUME LinkedInv, UNCHANGED <<held, listed, kept, fetches, limits, submits>>,
         \A q \in requests' : RequestTyped(q),
         syncing' \subseteq Linked, dialog' \in {dialog, Closed},
         leaving' \in {leaving, "soon"},
         lostReplies' \in Nat, lostReplies' >= lostReplies,
         lostReplies' = 0 => \A a \in Accounts :
            /\ Linking(a) => Linking(a)'
            /\ Removing(a) => Removing(a)'
  PROVE  LinkedInv' /\ GoneStep /\ ShowStep
<1>1. OneCurrent' /\ Timely' /\ GoneStep /\ ShowStep
  BY QuietStep
<1>2. LinkedTypes
  BY DEF LinkedInv
<1>3. /\ dialog' \in Dialogs /\ (dialog' # Closed => dialog'.acct \in Accounts)
      /\ dialog'.kind = "refresh" => dialog'.acct \in Linked
  <2>1. Closed \in Dialogs /\ Closed.kind # "refresh"
    BY DEF Closed, Dialogs, DialogKinds
  <2> QED BY <1>2, <2>1 DEF LinkedTypes
<1>4. \A q \in requests' : RequestTyped(q)'
  BY DEF RequestTyped
<1>5. leaving' \in {"no", "soon", "gone"}
  BY <1>2 DEF LinkedTypes
<1>6. LinkedTypes'
  BY <1>2, <1>3, <1>4, <1>5 DEF LinkedTypes
<1> QED BY <1>1, <1>6 DEF LinkedInv

LEMMA ActionEndsStep ==
  ASSUME LinkedInv, ActionEnds
  PROVE  LinkedInv' /\ GoneStep /\ ShowStep
<1>1. PICK r \in requests :
        /\ r.kind \in {"sync", "remove"} /\ (r.kind = "remove" => r.pc = "refetch") /\ Finish(r)
  BY DEF ActionEnds
<1>2. UNCHANGED <<held, listed, kept, fetches, limits, leaving, submits, lostReplies>>
  BY DEF ActionEnds, bounds
<1>3. LinkedTypes
  BY DEF LinkedInv
<1>4. /\ \A q \in requests' : RequestTyped(q)
      /\ syncing' \subseteq Linked /\ dialog' \in {dialog, Closed}
      /\ \E in : requests' = (requests \ {r}) \cup in
  BY <1>1, <1>3, FinishIs
<1>5. \A a \in Accounts : (Linking(a) => Linking(a)') /\ (Removing(a) => Removing(a)')
  <2>1. PICK in : requests' = (requests \ {r}) \cup in
    BY <1>4
  <2>2. ~(r.kind \in Forms \cup {"remove"} /\ r.pc = "served")
    BY <1>1 DEF Forms
  <2> QED BY <2>1, <2>2 DEF Linking, Removing
<1>6. lostReplies' \in Nat /\ lostReplies' >= lostReplies /\ leaving' \in {leaving, "soon"}
  BY <1>2, <1>3 DEF LinkedTypes
<1> QED BY <1>2, <1>4, <1>5, <1>6, EndStep

LEMMA FailedStep ==
  ASSUME LinkedInv, RequestFailed
  PROVE  LinkedInv' /\ GoneStep /\ ShowStep
<1>1. PICK r \in requests :
        /\ r.kind # "limits" /\ r.pc \in {"sent", "served"}
        /\ \/ r.pc = "sent" /\ UNCHANGED lostReplies
           \/ LoseReply
        /\ CASE r.kind = "remove" \/ r.spins -> Finish(r) /\ UNCHANGED fetches
             [] r.kind = "sync" /\ ~r.spins ->
                  /\ requests' = (requests \ {r}) \cup {[r EXCEPT !.pc = "refetch"]}
                  /\ Fetch(r.id) /\ UNCHANGED <<dialog, syncing>>
             [] OTHER -> requests' = requests \ {r} /\ UNCHANGED <<fetches, dialog, syncing>>
  BY DEF RequestFailed
<1>2. UNCHANGED <<held, listed, kept, limits, submits>> /\ leaving' \in {leaving, "soon"}
  BY DEF RequestFailed
<1>3. LinkedTypes /\ r.id \in Nat /\ \A q \in requests : RequestTyped(q)
  BY MovesOn DEF LinkedInv
<1>4. lostReplies' \in Nat /\ lostReplies' >= lostReplies /\ (lostReplies' = 0 => r.pc = "sent")
  BY <1>1, <1>3, LoseReplyIs
<1>5. \A in : requests' = (requests \ {r}) \cup in /\ lostReplies' = 0 =>
        \A a \in Accounts : (Linking(a) => Linking(a)') /\ (Removing(a) => Removing(a)')
  BY <1>4 DEF Linking, Removing
<1>6. CASE r.kind = "remove" \/ (r.kind = "sync" /\ r.spins)
  <2>1. Finish(r) /\ UNCHANGED fetches
    BY <1>1, <1>6
  <2>2. /\ \A q \in requests' : RequestTyped(q)
        /\ syncing' \subseteq Linked /\ dialog' \in {dialog, Closed}
        /\ \E in : requests' = (requests \ {r}) \cup in
    BY <1>3, <1>6, <2>1, FinishIs
  <2> QED BY <1>2, <1>4, <1>5, <2>1, <2>2, EndStep
<1>7. CASE r.kind = "sync" /\ ~r.spins
  <2>1. /\ requests' = (requests \ {r}) \cup {[r EXCEPT !.pc = "refetch"]}
        /\ Fetch(r.id) /\ UNCHANGED <<dialog, syncing>>
    BY <1>1, <1>7
  <2>2. \A q \in requests' : RequestTyped(q)
    BY <1>3, <2>1, MovesOn
  <2>3. dialog' \in {dialog, Closed} /\ syncing' \subseteq Linked /\ listed' \in Lists
    BY <1>2, <1>3, <2>1 DEF LinkedTypes
  <2> QED BY <1>2, <1>3, <1>4, <2>1, <2>2, <2>3, RefetchStep
<1>9. r.spins => r.kind = "sync"
  BY <1>3 DEF RequestTyped
<1>8. CASE r.kind \notin {"remove", "sync"} /\ ~r.spins
  <2>1. requests' = (requests \ {r}) \cup {} /\ UNCHANGED <<fetches, dialog, syncing>>
    BY <1>1, <1>8
  <2>2. (\A q \in requests' : RequestTyped(q)) /\ dialog' \in {dialog, Closed} /\ syncing' \subseteq Linked
    BY <1>3, <2>1 DEF LinkedTypes
  <2> QED BY <1>2, <1>4, <1>5, <2>1, <2>2, EndStep
<1> QED BY <1>6, <1>7, <1>8, <1>9

LEMMA LeavingStep ==
  ASSUME LinkedInv, UpgradePage
  PROVE  LinkedInv' /\ GoneStep /\ ShowStep
<1>1. LinkedTypes
  BY DEF LinkedInv
<1>2. LinkedTypes'
  <2>1. Closed \in Dialogs /\ Closed.kind # "refresh"
    BY DEF Closed, Dialogs, DialogKinds
  <2> QED BY <1>1, <2>1 DEF LinkedTypes, UpgradePage, bounds
<1>3. OneCurrent' /\ Timely'
  BY DEF UpgradePage, OneCurrent, Timely
<1>4. GoneStep /\ ShowStep
  BY DEF UpgradePage, GoneStep, ShowStep
<1> QED BY <1>2, <1>3, <1>4 DEF LinkedInv

LEMMA LinkedAccountsSteps ==
  ASSUME LinkedInv, LinkedAccountsNext
  PROVE  LinkedInv' /\ GoneStep /\ ShowStep
BY DialogSteps, LimitsStep, SubmitSteps, SyncSteps, ServedStep, AnsweredStep, AppliedStep, LinkStep,
   RemoveStep, ReloadStep, EditStep, ActionEndsStep, FailedStep, LeavingStep DEF LinkedAccountsNext

LEMMA LinkedStart == PagesInit => LinkedInv
<1> SUFFICES ASSUME LinkedAccountsInit
             PROVE  LinkedInv
  BY DEF PagesInit
<1>1. held \in Lists /\ listed \in Lists
  BY DEF LinkedAccountsInit, Lists
<1>2. fetches \subseteq Fetches /\ OneCurrent /\ Timely
  BY DEF LinkedAccountsInit, Fetches, OneCurrent, Timely
<1>3. \A r \in requests : RequestTyped(r)
  <2>1. PICK x : x = LimitsRequest(0)
    OBVIOUS
  <2>2. x = [id |-> 0, kind |-> "limits", acct |-> "", pc |-> "sent", rest |-> <<>>, spins |-> FALSE]
    BY <2>1 DEF LimitsRequest
  <2>3. x \in [id : Nat, kind : {"limits"}, acct : {""}, pc : {"sent"}, rest : {<<>>}, spins : {FALSE}]
    BY <2>2
  <2>4. <<>> \in Seq(Linked)
    OBVIOUS
  <2>5. x \in Requests /\ x.kind = "limits" /\ ~x.spins
    BY <2>3, <2>4 DEF Requests, RequestKinds
  <2>6. RequestTyped(x)
    BY <2>5 DEF RequestTyped
  <2> QED BY <2>1, <2>6 DEF LinkedAccountsInit
<1>4. dialog = Closed /\ Closed \in Dialogs /\ Closed.kind # "refresh"
  BY DEF LinkedAccountsInit, Closed, Dialogs, DialogKinds
<1>5. LinkedTypes
  BY <1>1, <1>2, <1>3, <1>4 DEF LinkedAccountsInit, LinkedTypes
<1> QED BY <1>2, <1>5 DEF LinkedInv

LEMMA LinkedFrame ==
  ASSUME LinkedInv, UNCHANGED laVars
  PROVE  LinkedInv'
<1>1. LinkedTypes'
  <2>1. \A q \in requests' : RequestTyped(q)'
    BY DEF laVars, LinkedInv, LinkedTypes, RequestTyped
  <2> QED BY <2>1 DEF laVars, LinkedInv, LinkedTypes
<1>2. OneCurrent'
  BY DEF laVars, LinkedInv, OneCurrent
<1>3. Timely'
  BY DEF laVars, LinkedInv, Timely, Linking, Removing
<1> QED BY <1>1, <1>2, <1>3 DEF LinkedInv

LEMMA LinkedKept ==
  ASSUME LinkedInv, [PagesNext]_pagesVars
  PROVE  LinkedInv' /\ [GoneStep /\ ShowStep]_laVars
<1>1. LinkedAccountsNext \/ UNCHANGED laVars
  BY DEF PagesNext, pagesVars
<1> QED BY <1>1, LinkedAccountsSteps, LinkedFrame

(* An account that left the screen does not come back while the server holds  *)
(* none, unless its removal is sent a second time or a request failed.        *)
THEOREM RemovedRowsStayGone == PagesSpec => RemovedStaysGone
<1>1. LinkedInv /\ [PagesNext]_pagesVars => LinkedInv'
  BY LinkedKept
<1>2. LinkedInv /\ [PagesNext]_pagesVars =>
        [\A a \in Accounts :
            listed[a] = 0 /\ listed'[a] # 0 =>
                held[a] # 0 \/ Removing(a) \/ lostReplies' # 0]_laVars
  BY LinkedKept DEF GoneStep
<1> QED BY <1>1, <1>2, LinkedStart, PTL DEF PagesSpec, pagesVars, RemovedStaysGone

(* A linked account that will be shown stays on its way to the screen until   *)
(* the answer to an edit overtakes the reload that brings it.                 *)
THEOREM LinksShow == PagesSpec => LinkedWillShow
<1>1. LinkedInv /\ [PagesNext]_pagesVars => LinkedInv'
  BY LinkedKept
<1>2. LinkedInv /\ [PagesNext]_pagesVars =>
        [lostReplies' = 0 /\ leaving' # "gone" =>
            \A a \in Accounts : WillShow(a) => WillShow(a)' \/ EditAnswered]_laVars
  BY LinkedKept DEF ShowStep
<1> QED BY <1>1, <1>2, LinkedStart, PTL DEF PagesSpec, pagesVars, LinkedWillShow

LEMMA LinkedTypeHolds ==
  ASSUME LinkedInv
  PROVE  LinkedAccountsTypeOK
<1>1. LinkedTypes
  BY DEF LinkedInv
<1>2. Cardinality({f \in fetches : f.current}) <= 1
  <2> DEFINE C == {f \in fetches : f.current}
  <2>1. CASE C = {}
    BY <2>1, FS_EmptySet
  <2>2. CASE C # {}
    <3>1. PICK f : f \in C
      BY <2>2
    <3>2. C = {f}
      BY <3>1 DEF LinkedInv, OneCurrent
    <3>3. Cardinality(C) = 1
      BY <3>2, FS_Singleton
    <3> QED BY <3>3
  <2> QED BY <2>1, <2>2
<1>3. \A r \in requests : r.kind \in Forms \cup {"limits", "edit", "sync", "remove"}
                         /\ r.pc \in {"sent", "served", "reload", "reloaded", "refetch"}
  BY <1>1 DEF LinkedTypes, RequestTyped, Requests, RequestKinds
<1>4. \A f \in fetches : f.reply \in Lists \cup {NoCopy}
  BY <1>1 DEF LinkedTypes, Fetches
<1> QED BY <1>1, <1>2, <1>3, <1>4 DEF LinkedAccountsTypeOK, LinkedTypes
--------------------------------------------------------------------------------
(* The transactions.                                                          *)

\* A list holds no more than a page.
PageLists == {l \in List : IsFiniteSet(l.rows) /\ Cardinality(l.rows) <= PageSize}
Gets == [query : Queries, reply : PageLists, counts : BOOLEAN, try : {0, 1}]
AskKinds == {"category", "delete", "edit", "add"}
AskSet == [id : Nat, kind : AskKinds, txn : Txns, category : Categories \cup {"gone"},
           pc : {"sent", "served"}]

\* A deletion is what leaves nothing.
AskTyped(a) ==
    /\ a \in AskSet /\ a.id <= askCount
    /\ a.kind # "delete" => a.category \in Categories
    /\ a.kind = "delete" => a.category = "gone"

TxnTypes ==
    /\ book \in [Txns -> Categories \cup {"gone"}] /\ query \in Queries
    /\ lists \in [Queries -> PageLists] /\ backup \in [Queries -> PageLists]
    /\ errors \subseteq Queries /\ crossed \subseteq Txns
    /\ gets \subseteq Gets
    /\ \A a \in asks : AskTyped(a)
    /\ form.kind \in AskKinds \cup {"none"}
    /\ form.kind # "none" => form.txn \in Txns
    /\ debounce \in BOOLEAN /\ noReply \in BOOLEAN /\ askCount \in Nat /\ turns \in Nat

\* At most one fetch of a query counts.
OneCounts ==
    \A g, h \in gets : g.query = h.query /\ g.counts /\ h.counts => g = h

\* A row is right, or a change of its transaction waits for its answer, or
\* changes of it have crossed.
RowKnown(r) ==
    \/ r.id \in crossed \/ book[r.id] = r.category
    \/ \E a \in asks : a.txn = r.id /\ a.pc = "served"

\* What is on screen is known, or will be fetched; so is an answer that counts
\* for it.
ScreenKnown ==
    ~noReply =>
       /\ \A r \in lists[query].rows :
             RowKnown(r) \/ \E g \in gets : g.query = query /\ g.counts
       /\ \A g \in gets : g.query = query /\ g.counts /\ g.reply.is =>
             \A r \in g.reply.rows : RowKnown(r)

\* Two changes of a transaction under way have crossed, and one that is served
\* is what the server holds, unless others crossed it.
ChangesKnown ==
    /\ \A a, b \in asks : a.txn = b.txn => a = b \/ a.txn \in crossed
    /\ \A a \in asks : a.pc = "served" => a.txn \in crossed \/ book[a.txn] = a.category

RowsInv == TxnTypes /\ OneCounts /\ ScreenKnown /\ ChangesKnown

LEMMA BoundsTyped ==
  /\ PageSize \in Nat /\ MaxPage \in Nat /\ PageSize > 0 /\ MaxPage > 0
  /\ IsFiniteSet(Txns) /\ Txns \subseteq Nat /\ Cardinality(Txns) \in Nat
  /\ "gone" \notin Categories
<1>1. Cardinality(Txns) \in Nat
  BY TransactionsPageAssumption, FS_CardinalityType
<1> QED BY <1>1, TransactionsPageAssumption

\* No two transactions have the same place in the order.
LEMMA PlacesDiffer ==
  ASSUME NEW S, S \subseteq Txns, NEW t \in S, NEW u \in S, t # u
  PROVE  Nth(t, S) \in Nat /\ Nth(t, S) # Nth(u, S)
<1>1. SUFFICES ASSUME NEW v \in S, NEW w \in S, v < w
               PROVE  Nth(v, S) \in Nat /\ Nth(v, S) < Nth(w, S)
  <2>1. t \in Nat /\ u \in Nat
    BY BoundsTyped
  <2>2. t < u \/ u < t
    BY <2>1
  <2>3. \A v, w \in S : v < w => Nth(v, S) \in Nat /\ Nth(v, S) < Nth(w, S)
    BY <1>1
  <2>4. Nth(t, S) \in Nat
    <3>1. {x \in S : x <= t} \in SUBSET Txns
      OBVIOUS
    <3> QED BY <3>1, BoundsTyped, FS_Subset, FS_CardinalityType DEF Nth
  <2>5. Nth(u, S) \in Nat
    <3>1. {x \in S : x <= u} \in SUBSET Txns
      OBVIOUS
    <3> QED BY <3>1, BoundsTyped, FS_Subset, FS_CardinalityType DEF Nth
  <2> QED BY <2>2, <2>3, <2>4, <2>5
<1> DEFINE V == {x \in S : x <= v}
           W == {x \in S : x <= w}
<1>2. v \in Nat /\ w \in Nat /\ S \subseteq Nat
  BY BoundsTyped
<1>3. IsFiniteSet(W)
  <2>1. W \in SUBSET Txns
    OBVIOUS
  <2> QED BY <2>1, BoundsTyped, FS_Subset
<1>4. V \in SUBSET W /\ w \in W /\ w \notin V
  <2>1. \A x \in S : x <= v => x <= w
    BY <1>1, <1>2
  <2>2. w <= w /\ ~(w <= v)
    BY <1>1, <1>2
  <2> QED BY <2>1, <2>2
<1>5. Cardinality(V) <= Cardinality(W) /\ Cardinality(V) # Cardinality(W)
  <2>1. V # W
    BY <1>4
  <2> QED BY <1>3, <1>4, <2>1, FS_Subset
<1>6. Cardinality(V) \in Nat /\ Cardinality(W) \in Nat
  BY <1>3, <1>4, FS_Subset, FS_CardinalityType
<1> QED BY <1>5, <1>6 DEF Nth

\* What the server answers is a page of what it holds.
LEMMA ResultIsPage ==
  ASSUME TxnTypes, NEW q \in Queries
  PROVE  /\ Result(q) \in PageLists /\ Result(q).is
         /\ \A r \in Result(q).rows : r.id \in Txns /\ book[r.id] = r.category
<1> DEFINE all == Matches(q.view)
           skip == (q.page - 1) * PageSize
           P == {u \in all : Nth(u, all) \in skip + 1 .. skip + PageSize}
           R == {RowOf(t) : t \in P}
<1>1. all \subseteq Txns /\ \A t \in all : book[t] \in Categories
  BY DEF Matches, TxnTypes
<1>2. skip \in Int /\ PageSize \in Nat
  BY BoundsTyped DEF Queries
<1>3. Cardinality(P) <= PageSize /\ IsFiniteSet(P)
  <2> DEFINE I == skip + 1 .. skip + PageSize
             f == [t \in P |-> Nth(t, all)]
  <2>1. f \in [P -> I]
    OBVIOUS
  <2>2. \A t, u \in P : f[t] = f[u] => t = u
    BY <1>1, PlacesDiffer
  <2>3. f \in Injection(P, I)
    BY <2>1, <2>2 DEF Injection, IsInjective
  <2>4. IsFiniteSet(I) /\ Cardinality(I) = PageSize
    <3>1. skip + 1 \in Int /\ skip + PageSize \in Int
      BY <1>2
    <3>2. PICK a \in Int, b \in Int : a = skip + 1 /\ b = skip + PageSize
      BY <3>1
    <3>3. IsFiniteSet(a .. b) /\ Cardinality(a .. b) = IF a > b THEN 0 ELSE b - a + 1
      BY FS_Interval
    <3> HIDE DEF skip
    <3>4. (IF a > b THEN 0 ELSE b - a + 1) = PageSize
      BY <1>2, <3>2, BoundsTyped
    <3> QED BY <3>2, <3>3, <3>4
  <2> HIDE DEF f, I, P
  <2>5. IsFiniteSet(P) /\ Cardinality(P) <= Cardinality(I)
    BY <2>3, <2>4, FS_Injection
  <2> QED BY <2>4, <2>5
<1>4. Cardinality(R) <= PageSize /\ IsFiniteSet(R)
  <2> DEFINE f == [t \in P |-> RowOf(t)]
  <2>1. f \in Surjection(P, R)
    BY DEF Surjection
  <2> HIDE DEF f, P, R
  <2>2. IsFiniteSet(R) /\ Cardinality(R) <= Cardinality(P)
    BY <1>3, <2>1, FS_Surjection
  <2>3. Cardinality(R) \in Nat /\ Cardinality(P) \in Nat
    BY <1>3, <2>2, FS_CardinalityType
  <2> QED BY <1>2, <1>3, <2>2, <2>3
<1>5. R \subseteq Row /\ \A r \in R : r.id \in Txns /\ book[r.id] = r.category
  BY <1>1 DEF Row, RowOf
<1>6. Cardinality(all) \in 0 .. Cardinality(Txns)
  <2>1. IsFiniteSet(all) /\ Cardinality(all) <= Cardinality(Txns)
    BY <1>1, BoundsTyped, FS_Subset
  <2>2. Cardinality(all) \in Nat
    BY <2>1, FS_CardinalityType
  <2> QED BY <2>1, <2>2, BoundsTyped
<1>7. Result(q) = [rows |-> R, total |-> Cardinality(all), is |-> TRUE]
  BY DEF Result
<1> HIDE DEF R, all
<1>8. Result(q) \in [rows : {R}, total : {Cardinality(all)}, is : {TRUE}]
  BY <1>7
<1>9. Result(q) \in List /\ Result(q).rows = R /\ Result(q).is
  BY <1>5, <1>6, <1>8 DEF List
<1> QED BY <1>4, <1>5, <1>9 DEF PageLists

\* An edit or a fetch overtakes the fetches of its query.
LEMMA OvertakenIs ==
  ASSUME TxnTypes, OneCounts, NEW q
  PROVE  /\ Overtaken(q) \subseteq Gets
         /\ \A g \in Overtaken(q) : g.counts => g \in gets /\ g.query # q
         /\ \A g \in gets : g.counts /\ g.query # q => g \in Overtaken(q)
         /\ (\E g \in gets : g.counts /\ g.query = q) => Overtaken(q) # gets
<1>1. \A g \in gets : g \in Gets
  BY DEF TxnTypes
<1>2. ASSUME NEW g \in gets, NEW h, h = [g EXCEPT !.counts = g.counts /\ g.query # q]
      PROVE  /\ h \in Gets
             /\ h.counts => g.counts /\ g.query # q
             /\ g.counts /\ g.query # q => h = g
             /\ g.query = q => ~h.counts
  <2>1. PICK c \in BOOLEAN : c = (g.counts /\ g.query # q)
    OBVIOUS
  <2>2. h \in [query : {g.query}, reply : {g.reply}, counts : {c}, try : {g.try}]
    BY <1>1, <1>2, <2>1 DEF Gets
  <2>3. h \in Gets /\ h.counts = c
    BY <1>1, <2>2 DEF Gets
  <2>4. c = g.counts => h = g
    BY <1>1, <2>2 DEF Gets
  <2>5. g.counts \in BOOLEAN
    BY <1>1 DEF Gets
  <2> QED BY <2>1, <2>3, <2>4, <2>5
<1>3. \A h \in Overtaken(q) : \E g \in gets : h = [g EXCEPT !.counts = g.counts /\ g.query # q]
  BY DEF Overtaken
<1>4. \A g \in gets : [g EXCEPT !.counts = g.counts /\ g.query # q] \in Overtaken(q)
  BY DEF Overtaken
<1>5. Overtaken(q) \subseteq Gets
  BY <1>2, <1>3
<1>6. \A h \in Overtaken(q) : h.counts => h \in gets /\ h.query # q
  BY <1>2, <1>3
<1>7. \A g \in gets : g.counts /\ g.query # q => g \in Overtaken(q)
  <2> SUFFICES ASSUME NEW g \in gets, g.counts /\ g.query # q
               PROVE  g \in Overtaken(q)
    OBVIOUS
  <2>1. PICK h : h = [g EXCEPT !.counts = g.counts /\ g.query # q]
    OBVIOUS
  <2>2. h \in Overtaken(q)
    BY <1>4, <2>1
  <2>3. h = g
    BY <1>2, <2>1
  <2> QED BY <2>2, <2>3
<1>8. (\E g \in gets : g.counts /\ g.query = q) => Overtaken(q) # gets
  BY <1>6
<1> QED BY <1>5, <1>6, <1>7, <1>8

LEMMA NewGetIs ==
  ASSUME NEW q \in Queries, NEW n \in {0, 1}
  PROVE  /\ NewGet(q, n) \in Gets /\ NewGet(q, n).query = q /\ NewGet(q, n).counts
         /\ ~NewGet(q, n).reply.is
<1>1. NoList \in PageLists /\ ~NoList.is
  <2>1. NoList \in [rows : {{}}, total : {0}, is : {FALSE}]
    BY DEF NoList
  <2>2. NoList \in List /\ NoList.rows = {} /\ ~NoList.is
    <3>1. {} \subseteq Row /\ 0 \in 0 .. Cardinality(Txns)
      BY BoundsTyped
    <3>2. NoList \in List
      BY <2>1, <3>1 DEF List
    <3> QED BY <2>1, <3>2
  <2> QED BY <2>2, FS_EmptySet, BoundsTyped DEF PageLists
<1>2. NewGet(q, n) \in [query : {q}, reply : {NoList}, counts : {TRUE}, try : {n}]
  BY DEF NewGet
<1> QED BY <1>1, <1>2 DEF Gets

\* The parts of the types that a step seldom touches.
TxnRest ==
    /\ book \in [Txns -> Categories \cup {"gone"}]
    /\ \A a \in asks : AskTyped(a)
    /\ form.kind \in AskKinds \cup {"none"}
    /\ form.kind # "none" => form.txn \in Txns
    /\ askCount \in Nat
TxnPage ==
    /\ query \in Queries
    /\ lists \in [Queries -> PageLists] /\ backup \in [Queries -> PageLists]
    /\ errors \subseteq Queries /\ crossed \subseteq Txns /\ gets \subseteq Gets
    /\ debounce \in BOOLEAN /\ noReply \in BOOLEAN /\ turns \in Nat

LEMMA TypesSplit == /\ TxnTypes <=> TxnRest /\ TxnPage
                    /\ TxnTypes' <=> TxnRest' /\ TxnPage'
<1>1. TxnTypes <=> TxnRest /\ TxnPage
  BY DEF TxnTypes, TxnRest, TxnPage
<1>2. TxnTypes' <=> TxnRest' /\ TxnPage'
  BY DEF TxnTypes, TxnRest, TxnPage
<1> QED BY <1>1, <1>2

LEMMA RestFrame ==
  ASSUME TxnRest, UNCHANGED <<book, asks, form, askCount>>
  PROVE  TxnRest'
<1>1. \A a \in asks' : AskTyped(a)'
  BY DEF TxnRest, AskTyped
<1> QED BY <1>1 DEF TxnRest

LEMMA ChangesFrame ==
  ASSUME ChangesKnown, UNCHANGED <<book, asks>>, crossed' \in {crossed, Txns}, \A a \in asks : a.txn \in Txns
  PROVE  ChangesKnown'
BY DEF ChangesKnown

LEMMA AskTxn ==
  ASSUME TxnTypes
  PROVE  \A a \in asks : a.txn \in Txns /\ a.category \in Categories \cup {"gone"} /\ a.id \in Nat
BY DEF TxnTypes, AskTyped, AskSet

\* Rows are about transactions.
LEMMA RowIds ==
  ASSUME TxnTypes
  PROVE  /\ \A q \in Queries : \A r \in lists[q].rows : r.id \in Txns
         /\ \A g \in gets : \A r \in g.reply.rows : r.id \in Txns
<1>1. \A l \in PageLists : \A r \in l.rows : r.id \in Txns
  BY DEF PageLists, List, Row
<1> QED BY <1>1 DEF TxnTypes, Gets

\* The query on screen changes, and what it asks for is fetched or shared.
LEMMA VisitKeeps ==
  ASSUME RowsInv, NEW gs, gs \subseteq Gets,
         \A g, h \in gs : g.query = h.query /\ g.counts /\ h.counts => g = h,
         query' \in Queries, Visit(query', gs),
         UNCHANGED <<book, lists, errors, backup, asks, form, askCount, noReply>>,
         debounce' \in BOOLEAN, turns' \in Nat
  PROVE  RowsInv'
<1>1. TxnTypes
  BY DEF RowsInv
<1>2. crossed' \in {crossed, Txns}
  BY DEF Visit
<1>3. CASE \E g \in gs : g.query = query' /\ g.counts
  <2>1. gets' = gs /\ crossed' = Txns
    BY <1>3 DEF Visit
  <2>2. TxnPage'
    BY <1>1, <2>1 DEF TxnTypes, TxnPage
  <2>3. TxnRest'
    BY <1>1, TypesSplit, RestFrame
  <2>4. TxnTypes'
    BY <2>2, <2>3, TypesSplit
  <2>5. OneCounts'
    BY <2>1 DEF OneCounts
  <2>6. ScreenKnown'
    <3>1. /\ \A r \in lists'[query'].rows : r.id \in crossed'
          /\ \A g \in gets' : \A r \in g.reply.rows : r.id \in crossed'
      <4>1. \A l \in PageLists : \A r \in l.rows : r.id \in Txns
        BY DEF PageLists, List, Row
      <4>2. lists'[query'] \in PageLists /\ \A g \in gets' : g.reply \in PageLists
        BY <2>2 DEF TxnPage, Gets
      <4> QED BY <2>1, <4>1, <4>2
    <3> QED BY <3>1 DEF ScreenKnown, RowKnown
  <2>7. ChangesKnown'
    BY <1>1, <1>2, AskTxn, ChangesFrame DEF RowsInv
  <2> QED BY <2>4, <2>5, <2>6, <2>7 DEF RowsInv
<1>4. CASE ~\E g \in gs : g.query = query' /\ g.counts
  <2>1. gets' = gs \cup {NewGet(query', 0)} /\ crossed' = crossed
    BY <1>4 DEF Visit
  <2>2. /\ NewGet(query', 0) \in Gets /\ NewGet(query', 0).query = query' /\ NewGet(query', 0).counts
        /\ ~NewGet(query', 0).reply.is
    BY NewGetIs
  <2>3. TxnPage'
    BY <1>1, <2>1, <2>2 DEF TxnTypes, TxnPage
  <2>4. TxnRest'
    BY <1>1, TypesSplit, RestFrame
  <2>5. TxnTypes'
    BY <2>3, <2>4, TypesSplit
  <2>6. OneCounts'
    BY <1>4, <2>1, <2>2 DEF OneCounts
  <2>7. ScreenKnown'
    BY <1>4, <2>1, <2>2 DEF ScreenKnown
  <2>8. ChangesKnown'
    BY <1>1, <1>2, AskTxn, ChangesFrame DEF RowsInv
  <2> QED BY <2>5, <2>6, <2>7, <2>8 DEF RowsInv
<1> QED BY <1>3, <1>4

\* The query on screen is fetched anew.
LEMMA RefetchKeeps ==
  ASSUME RowsInv, gets' = Refetched(query), UNCHANGED <<query, lists, errors, crossed>>,
         TxnRest', ChangesKnown',
         UNCHANGED <<backup, noReply>>, debounce' \in BOOLEAN, turns' \in Nat
  PROVE  RowsInv'
<1>1. TxnTypes /\ OneCounts /\ query \in Queries
  BY DEF RowsInv, TxnTypes
<1>2. gets' = Overtaken(query) \cup {NewGet(query, 0)}
  BY DEF Refetched
<1>3. /\ NewGet(query, 0) \in Gets /\ NewGet(query, 0).query = query /\ NewGet(query, 0).counts
      /\ ~NewGet(query, 0).reply.is
  BY <1>1, NewGetIs
<1>4. /\ Overtaken(query) \subseteq Gets
      /\ \A g \in Overtaken(query) : g.counts => g \in gets /\ g.query # query
  BY <1>1, OvertakenIs
<1>5. TxnPage'
  BY <1>1, <1>2, <1>3, <1>4 DEF TxnTypes, TxnPage
<1>6. OneCounts'
  BY <1>1, <1>2, <1>3, <1>4 DEF OneCounts
<1>7. ScreenKnown'
  BY <1>2, <1>3, <1>4 DEF ScreenKnown
<1> QED BY <1>5, <1>6, <1>7, TypesSplit DEF RowsInv

LEMMA RefetchedIs ==
  ASSUME TxnTypes, OneCounts
  PROVE  /\ Refetched(query) \subseteq Gets
         /\ \A g, h \in Refetched(query) : g.query = h.query /\ g.counts /\ h.counts => g = h
<1>1. query \in Queries
  BY DEF TxnTypes
<1>2. /\ NewGet(query, 0) \in Gets /\ NewGet(query, 0).query = query /\ NewGet(query, 0).counts
  BY <1>1, NewGetIs
<1>3. /\ Overtaken(query) \subseteq Gets
      /\ \A g \in Overtaken(query) : g.counts => g \in gets /\ g.query # query
  BY OvertakenIs
<1> QED BY <1>2, <1>3 DEF Refetched, OneCounts

LEMMA TurnIs ==
  ASSUME TxnTypes, Turn \/ UNCHANGED turns
  PROVE  turns' \in Nat
BY DEF TxnTypes, Turn

\* The filters, the search, the pages and the retry button.
LEMMA QuerySteps ==
  ASSUME RowsInv,
         \/ ChooseFilter \/ ChooseScope \/ TypeSearch \/ DebounceFires \/ TurnPage \/ Retry
  PROVE  RowsInv'
<1>1. TxnTypes /\ OneCounts /\ query \in Queries /\ debounce \in BOOLEAN
  BY DEF RowsInv, TxnTypes
<1>2. UNCHANGED <<book, lists, errors, backup, asks, form, askCount, noReply>>
  BY DEF ChooseFilter, ChooseScope, TypeSearch, Narrow, DebounceFires, TurnPage, Retry, TurnRest
<1>3. turns' \in Nat
  <2>1. Turn \/ UNCHANGED turns
    BY DEF ChooseFilter, ChooseScope, TypeSearch, Narrow, DebounceFires, TurnPage, Retry
  <2> QED BY <1>1, <2>1, TurnIs
<1>4. /\ gets \subseteq Gets
      /\ \A g, h \in gets : g.query = h.query /\ g.counts /\ h.counts => g = h
  BY <1>1 DEF TxnTypes, OneCounts
<1>5. TxnRest' /\ (crossed' = crossed => ChangesKnown')
  BY <1>1, <1>2, TypesSplit, RestFrame, ChangesFrame, AskTxn DEF RowsInv
<1>6. CASE ChooseFilter
  <2>1. query' \in Queries /\ Visit(query', Refetched(query)) /\ debounce' = debounce
    BY <1>6, BoundsTyped DEF ChooseFilter, Queries
  <2> QED BY <1>1, <1>2, <1>3, <2>1, RefetchedIs, VisitKeeps
<1>7. CASE ChooseScope \/ TypeSearch
  <2>1. PICK v \in Views, typed \in BOOLEAN :
           /\ query' = [query EXCEPT !.view = v] /\ Visit(query', gets)
           /\ debounce' = (debounce \/ typed)
    BY <1>7 DEF ChooseScope, TypeSearch, Narrow
  <2>2. query' \in Queries
    BY <1>1, <2>1 DEF Queries
  <2> QED BY <1>1, <1>2, <1>3, <1>4, <2>1, <2>2, VisitKeeps
<1>8. CASE DebounceFires
  <2>1. query' = [query EXCEPT !.page = 1] /\ debounce' = FALSE
    BY <1>8 DEF DebounceFires
  <2>2. query' \in Queries
    BY <1>1, <2>1, BoundsTyped DEF Queries
  <2>3. CASE query' = query
    BY <1>2, <1>3, <1>5, <1>8, <2>1, <2>3, RefetchKeeps DEF DebounceFires
  <2>4. CASE query' # query
    <3>1. Visit(query', Refetched(query))
      BY <1>8, <2>4 DEF DebounceFires
    <3> QED BY <1>1, <1>2, <1>3, <2>1, <2>2, <3>1, RefetchedIs, VisitKeeps
  <2> QED BY <2>3, <2>4
<1>9. CASE TurnPage
  <2>1. query' \in Queries
    <3>1. CASE query.page > 1 /\ query' = [query EXCEPT !.page = @ - 1]
      BY <1>1, <3>1, BoundsTyped DEF Queries
    <3>2. CASE query.page < Pages /\ query' = [query EXCEPT !.page = @ + 1]
      <4>1. query.page < MaxPage
        <5>1. lists[query] \in List
          BY <1>1 DEF TxnTypes, PageLists
        <5>2. PICK n \in Nat : n = lists[query].total /\ n <= MaxPage * PageSize
          BY <5>1, BoundsTyped, TransactionsPageAssumption DEF List
        <5>3. query.page \in Nat /\ query.page >= 1
          BY <1>1, BoundsTyped DEF Queries
        <5>4. query.page < (IF n = 0 THEN 1 ELSE (n + PageSize - 1) \div PageSize)
          BY <3>2, <5>2 DEF Pages
        <5>5. query.page < (n + PageSize - 1) \div PageSize
          BY <5>3, <5>4
        <5>6. (n + PageSize - 1) \div PageSize <= MaxPage
          BY <5>2, BoundsTyped
        <5> QED BY <5>3, <5>5, <5>6, BoundsTyped
      <4> QED BY <1>1, <3>2, <4>1, BoundsTyped DEF Queries
    <3> QED BY <1>9, <3>1, <3>2 DEF TurnPage
  <2>2. Visit(query', gets) /\ debounce' = debounce
    BY <1>9 DEF TurnPage
  <2> QED BY <1>1, <1>2, <1>3, <1>4, <2>1, <2>2, VisitKeeps
<1>10. CASE Retry
  <2>1. gets' = Refetched(query) /\ UNCHANGED <<query, debounce, crossed>>
    BY <1>10 DEF Retry
  <2> QED BY <1>1, <1>2, <1>3, <1>5, <2>1, RefetchKeeps
<1> QED BY <1>6, <1>7, <1>8, <1>9, <1>10

\* The server answers a fetch.
LEMMA GetServedKeeps ==
  ASSUME RowsInv, GetServed
  PROVE  RowsInv'
<1>1. PICK g \in gets : /\ ~g.reply.is
                        /\ gets' = (gets \ {g}) \cup {[g EXCEPT !.reply = Result(g.query)]}
  BY DEF GetServed
<1>2. UNCHANGED <<book, query, lists, errors, backup, asks, form, debounce, crossed, noReply, askCount, turns>>
  BY DEF GetServed, tpBounds
<1>3. TxnTypes /\ OneCounts
  BY DEF RowsInv
<1>4. g \in Gets /\ g.query \in Queries
  BY <1>3 DEF TxnTypes, Gets
<1>5. /\ Result(g.query) \in PageLists /\ Result(g.query).is
      /\ \A r \in Result(g.query).rows : r.id \in Txns /\ book[r.id] = r.category
  BY <1>3, <1>4, ResultIsPage
<1>6. PICK h : h = [g EXCEPT !.reply = Result(g.query)]
  OBVIOUS
<1>7. h \in [query : {g.query}, reply : {Result(g.query)}, counts : {g.counts}, try : {g.try}]
  BY <1>4, <1>6 DEF Gets
<1>8. h \in Gets /\ h.query = g.query /\ h.counts = g.counts /\ h.reply = Result(g.query)
  BY <1>4, <1>5, <1>7 DEF Gets
<1>9. gets' = (gets \ {g}) \cup {h}
  BY <1>1, <1>6
<1>10. TxnTypes'
  <2>1. TxnPage'
    BY <1>2, <1>3, <1>8, <1>9 DEF TxnTypes, TxnPage
  <2> QED BY <1>2, <1>3, <2>1, TypesSplit, RestFrame
<1>11. OneCounts'
  BY <1>3, <1>8, <1>9 DEF OneCounts
<1>12. \A r : RowKnown(r) => RowKnown(r)'
  BY <1>2 DEF RowKnown
<1>13. ScreenKnown'
  <2>1. \A r \in h.reply.rows : RowKnown(r)'
    BY <1>2, <1>5, <1>8 DEF RowKnown
  <2>2. \A r \in lists[query].rows :
          RowKnown(r) \/ (\E x \in gets : x.query = query /\ x.counts) =>
          RowKnown(r)' \/ \E x \in gets' : x.query = query /\ x.counts
    BY <1>8, <1>9, <1>12
  <2> QED BY <1>2, <1>8, <1>9, <1>12, <2>1, <2>2 DEF RowsInv, ScreenKnown
<1>14. ChangesKnown'
  BY <1>2 DEF RowsInv, ChangesKnown
<1> QED BY <1>10, <1>11, <1>13, <1>14 DEF RowsInv

\* The page gets its answer.
LEMMA GetAnsweredKeeps ==
  ASSUME RowsInv, GetAnswered
  PROVE  RowsInv'
<1>1. PICK g \in gets :
        /\ g.reply.is /\ gets' = gets \ {g}
        /\ IF g.counts
           THEN lists' = [lists EXCEPT ![g.query] = g.reply] /\ errors' = errors \ {g.query}
           ELSE UNCHANGED <<lists, errors>>
        /\ backup' = [backup EXCEPT ![g.query] = g.reply]
  BY DEF GetAnswered
<1>2. UNCHANGED <<book, query, asks, form, debounce, crossed, noReply, askCount, turns>>
  BY DEF GetAnswered, tpBounds
<1>3. TxnTypes /\ OneCounts
  BY DEF RowsInv
<1>4. g \in Gets /\ g.query \in Queries /\ g.reply \in PageLists
  BY <1>3 DEF TxnTypes, Gets
<1>5. TxnTypes'
  <2>1. lists' \in [Queries -> PageLists] /\ backup' \in [Queries -> PageLists] /\ errors' \subseteq Queries
    BY <1>1, <1>3, <1>4 DEF TxnTypes
  <2>2. TxnPage'
    BY <1>1, <1>2, <1>3, <2>1 DEF TxnTypes, TxnPage
  <2> QED BY <1>2, <1>3, <2>2, TypesSplit, RestFrame
<1>6. OneCounts'
  BY <1>1, <1>3 DEF OneCounts
<1>7. \A r : RowKnown(r) => RowKnown(r)'
  BY <1>2 DEF RowKnown
<1>8. ScreenKnown'
  <2> SUFFICES ASSUME ~noReply
               PROVE  /\ \A r \in lists'[query].rows :
                           RowKnown(r)' \/ \E x \in gets' : x.query = query /\ x.counts
                      /\ \A x \in gets' : x.query = query /\ x.counts /\ x.reply.is =>
                           \A r \in x.reply.rows : RowKnown(r)'
    BY <1>2 DEF ScreenKnown
  <2>1. \A x \in gets' : x.query = query /\ x.counts /\ x.reply.is =>
          \A r \in x.reply.rows : RowKnown(r)'
    BY <1>1, <1>7 DEF RowsInv, ScreenKnown
  <2>2. CASE g.counts /\ g.query = query
    <3>1. lists'[query] = g.reply
      BY <1>1, <1>3, <1>4, <2>2 DEF TxnTypes
    <3> QED BY <1>1, <1>7, <2>1, <2>2, <3>1 DEF RowsInv, ScreenKnown
  <2>3. CASE ~(g.counts /\ g.query = query)
    <3>1. lists'[query] = lists[query]
      BY <1>1, <1>3, <1>4, <2>3 DEF TxnTypes
    <3>2. \A x \in gets : x.query = query /\ x.counts => x \in gets'
      BY <1>1, <2>3
    <3>3. \A r \in lists[query].rows :
            RowKnown(r) \/ \E x \in gets : x.query = query /\ x.counts
      BY DEF RowsInv, ScreenKnown
    <3> QED BY <1>7, <2>1, <3>1, <3>2, <3>3
  <2> QED BY <2>2, <2>3
<1>9. ChangesKnown'
  BY <1>2 DEF RowsInv, ChangesKnown
<1> QED BY <1>5, <1>6, <1>8, <1>9 DEF RowsInv

\* A fetch fails, and the copy stands in, or one more attempt.
LEMMA GetFailedKeeps ==
  ASSUME RowsInv, GetFailed
  PROVE  RowsInv'
<1>1. PICK g \in gets :
        /\ NoReply
        /\ IF backup[g.query].is
           THEN /\ gets' = gets \ {g}
                /\ lists' = IF g.counts THEN [lists EXCEPT ![g.query] = backup[g.query]] ELSE lists
                /\ UNCHANGED errors
           ELSE /\ gets' = (gets \ {g}) \cup
                      (IF g.counts /\ g.try = 0 THEN {NewGet(g.query, 1)} ELSE {})
                /\ errors' = IF g.counts THEN errors \cup {g.query} ELSE errors
                /\ UNCHANGED lists
  BY DEF GetFailed
<1>2. UNCHANGED <<book, query, backup, asks, form, debounce, crossed, askCount>>
  BY DEF GetFailed
<1>3. TxnTypes /\ OneCounts
  BY DEF RowsInv
<1>4. g \in Gets /\ g.query \in Queries
  BY <1>3 DEF TxnTypes, Gets
<1>5. /\ NewGet(g.query, 1) \in Gets /\ NewGet(g.query, 1).query = g.query
      /\ NewGet(g.query, 1).counts
  BY <1>4, NewGetIs
<1>6. noReply' = TRUE /\ turns' \in Nat
  BY <1>1, <1>3 DEF NoReply, Turn, TxnTypes
<1>7. lists' \in [Queries -> PageLists] /\ errors' \subseteq Queries
  BY <1>1, <1>3, <1>4 DEF TxnTypes
<1>8. gets' \subseteq Gets
  BY <1>1, <1>3, <1>5 DEF TxnTypes
<1>9. TxnTypes'
  <2>1. TxnPage'
    BY <1>2, <1>3, <1>6, <1>7, <1>8 DEF TxnTypes, TxnPage
  <2> QED BY <1>2, <1>3, <2>1, TypesSplit, RestFrame
<1>10. OneCounts'
  <2>1. gets' = gets \ {g} \/ (g.counts /\ gets' = (gets \ {g}) \cup {NewGet(g.query, 1)})
    BY <1>1
  <2> QED BY <1>3, <1>5, <2>1 DEF OneCounts
<1>11. ScreenKnown'
  BY <1>6 DEF ScreenKnown
<1>12. ChangesKnown'
  BY <1>2 DEF RowsInv, ChangesKnown
<1> QED BY <1>9, <1>10, <1>11, <1>12 DEF RowsInv

\* A handler starts, unless the page is asked too much of.
LEMMA AskStarts ==
  ASSUME RowsInv, NEW k \in AskKinds, NEW t \in Txns, NEW c \in Categories \cup {"gone"},
         (k = "delete") <=> (c = "gone"), Asks(k, t, c), UNCHANGED form
  PROVE  RowsInv'
<1>0. PICK new : new = [id |-> askCount + 1, kind |-> k, txn |-> t, category |-> c, pc |-> "sent"]
  OBVIOUS
<1>1. /\ askCount' = askCount + 1 /\ asks' = asks \cup {new}
      /\ crossed' = crossed \cup {t2 \in {t} : \E a \in asks : a.txn = t2}
      /\ UNCHANGED <<book, query, lists, errors, backup, gets, debounce, turns, noReply>>
  BY <1>0 DEF Asks
<1>2. TxnTypes
  BY DEF RowsInv
<1>3. new \in AskSet /\ new.id = askCount + 1 /\ new.txn = t /\ new.pc = "sent" /\ new.category = c
      /\ new.kind = k
  <2>1. new \in [id : {askCount + 1}, kind : {k}, txn : {t}, category : {c}, pc : {"sent"}]
    BY <1>0
  <2> QED BY <1>2, <2>1 DEF TxnTypes, AskSet
<1>4. AskTyped(new)'
  <2>1. k # "delete" => c \in Categories
    OBVIOUS
  <2>2. askCount \in Nat
    BY <1>2 DEF TxnTypes
  <2> QED BY <1>1, <1>3, <2>1, <2>2 DEF AskTyped
<1>5. \A a \in asks : AskTyped(a)'
  BY <1>1, <1>2 DEF AskTyped, TxnTypes, AskSet
<1>6. TxnTypes'
  <2>1. crossed' \subseteq Txns /\ askCount' \in Nat
    BY <1>1, <1>2 DEF TxnTypes
  <2>2. \A a \in asks' : AskTyped(a)'
    BY <1>1, <1>4, <1>5
  <2> QED BY <1>1, <1>2, <2>1, <2>2 DEF TxnTypes
<1>7. OneCounts'
  BY <1>1 DEF RowsInv, OneCounts
<1>8. \A r : RowKnown(r) => RowKnown(r)'
  BY <1>1 DEF RowKnown
<1>9. ScreenKnown'
  BY <1>1, <1>8 DEF RowsInv, ScreenKnown
<1>10. ChangesKnown'
  <2>1. (\E a \in asks : a.txn = t) => t \in crossed'
    BY <1>1
  <2> QED BY <1>1, <1>3, <2>1 DEF RowsInv, ChangesKnown
<1> QED BY <1>6, <1>7, <1>9, <1>10 DEF RowsInv

LEMMA AskSteps ==
  ASSUME RowsInv, PickCategory \/ ConfirmDelete \/ SaveEdit \/ SaveAdd
  PROVE  RowsInv'
<1>1. CASE PickCategory
  <2>1. PICK t \in Txns, c \in Categories : Asks("category", t, c) /\ UNCHANGED form
    BY <1>1 DEF PickCategory
  <2> QED BY <2>1, AskStarts, BoundsTyped DEF AskKinds
<1>2. CASE ConfirmDelete
  <2>1. PICK t \in Txns : Asks("delete", t, "gone") /\ UNCHANGED form
    BY <1>2 DEF ConfirmDelete
  <2> QED BY <2>1, AskStarts DEF AskKinds
<1>3. CASE SaveEdit \/ SaveAdd
  <2>1. PICK k \in {"edit", "add"}, c \in Categories :
           form.kind = k /\ Asks(k, form.txn, c) /\ UNCHANGED form
    BY <1>3 DEF SaveEdit, SaveAdd, SubmitModal
  <2>2. form.txn \in Txns
    BY <2>1 DEF RowsInv, TxnTypes
  <2>3. k \in AskKinds /\ k # "delete" /\ c # "gone"
    BY BoundsTyped DEF AskKinds
  <2> QED BY <2>1, <2>2, <2>3, AskStarts
<1> QED BY <1>1, <1>2, <1>3

\* The modals open and close.
LEMMA FormSteps ==
  ASSUME RowsInv, OpenEdit \/ OpenAdd \/ CloseForm
  PROVE  RowsInv'
<1>1. UNCHANGED <<book, query, lists, errors, backup, gets, asks, debounce, crossed, noReply, askCount, turns>>
  BY DEF OpenEdit, OpenAdd, CloseForm, FormRest, tpBounds
<1>2. TxnTypes
  BY DEF RowsInv
<1>3. form'.kind \in AskKinds \cup {"none"} /\ (form'.kind # "none" => form'.txn \in Txns)
  BY DEF OpenEdit, OpenAdd, CloseForm, Form, NoForm, AskKinds
<1>4. \A a \in asks' : AskTyped(a)'
  BY <1>1, <1>2 DEF TxnTypes, AskTyped
<1>5. TxnTypes'
  BY <1>1, <1>2, <1>3, <1>4 DEF TxnTypes
<1>6. OneCounts' /\ ChangesKnown' /\ ScreenKnown'
  BY <1>1 DEF RowsInv, OneCounts, ChangesKnown, ScreenKnown, RowKnown
<1> QED BY <1>5, <1>6 DEF RowsInv

\* The server handles a change.
LEMMA AskServedKeeps ==
  ASSUME RowsInv, AskServed
  PROVE  RowsInv'
<1>1. PICK a \in asks : /\ a.pc = "sent"
                        /\ book' = [book EXCEPT ![a.txn] = a.category]
                        /\ asks' = (asks \ {a}) \cup {[a EXCEPT !.pc = "served"]}
  BY DEF AskServed
<1>2. UNCHANGED <<query, lists, errors, backup, gets, form, debounce, crossed, noReply, askCount, turns>>
  BY DEF AskServed, tpBounds
<1>3. TxnTypes /\ AskTyped(a) /\ a \in AskSet
  BY DEF RowsInv, TxnTypes, AskTyped
<1>4. PICK b : b = [a EXCEPT !.pc = "served"]
  OBVIOUS
<1>5. b \in [id : {a.id}, kind : {a.kind}, txn : {a.txn}, category : {a.category}, pc : {"served"}]
  BY <1>3, <1>4 DEF AskSet
<1>6. /\ b \in AskSet /\ b.id = a.id /\ b.kind = a.kind /\ b.txn = a.txn
      /\ b.category = a.category /\ b.pc = "served"
  BY <1>3, <1>5 DEF AskSet
<1>7. asks' = (asks \ {a}) \cup {b}
  BY <1>1, <1>4
<1>8. book' \in [Txns -> Categories \cup {"gone"}] /\ book'[a.txn] = a.category
      /\ \A t \in Txns : t # a.txn => book'[t] = book[t]
  BY <1>1, <1>3 DEF TxnTypes, AskSet
<1>9. TxnTypes'
  <2>1. AskTyped(b)'
    BY <1>2, <1>3, <1>6 DEF AskTyped
  <2>2. \A x \in asks' : AskTyped(x)'
    BY <1>2, <1>3, <1>7, <2>1 DEF TxnTypes, AskTyped
  <2> QED BY <1>2, <1>3, <1>8, <2>2 DEF TxnTypes
<1>10. OneCounts'
  BY <1>2 DEF RowsInv, OneCounts
<1>11. \A r : r.id \in Txns /\ RowKnown(r) => RowKnown(r)'
  <2> SUFFICES ASSUME NEW r, r.id \in Txns, RowKnown(r)
               PROVE  RowKnown(r)'
    OBVIOUS
  <2>1. CASE r.id = a.txn
    BY <1>6, <1>7, <2>1 DEF RowKnown
  <2>2. CASE r.id # a.txn
    <3>1. book'[r.id] = book[r.id]
      BY <1>8, <2>2
    <3>2. \A x \in asks : x.txn = r.id => x \in asks'
      BY <1>7, <2>2
    <3> QED BY <1>2, <3>1, <3>2 DEF RowKnown
  <2> QED BY <2>1, <2>2
<1>12. ScreenKnown'
  <2>1. /\ \A r \in lists[query].rows : r.id \in Txns
        /\ \A g \in gets : \A r \in g.reply.rows : r.id \in Txns
    BY <1>3, RowIds DEF TxnTypes
  <2> QED BY <1>2, <1>11, <2>1 DEF RowsInv, ScreenKnown
<1>13. ChangesKnown'
  <2>1. \A x \in asks : x.txn = a.txn => x = a \/ a.txn \in crossed
    BY DEF RowsInv, ChangesKnown
  <2>2. \A x \in asks \ {a} : x.pc = "served" => x.txn \in crossed \/ book'[x.txn] = x.category
    BY <1>3, <1>8, <2>1, AskTxn DEF RowsInv, ChangesKnown
  <2>3. \A x, y \in asks' : x.txn = y.txn => x = y \/ x.txn \in crossed
    BY <1>6, <1>7 DEF RowsInv, ChangesKnown
  <2>4. \A x \in asks' : x.pc = "served" => x.txn \in crossed \/ book'[x.txn] = x.category
    BY <1>6, <1>7, <1>8, <2>2
  <2> QED BY <1>2, <2>3, <2>4 DEF ChangesKnown
<1> QED BY <1>9, <1>10, <1>12, <1>13 DEF RowsInv

\* A handler that ended its request leaves the rest of the changes known.
LEMMA AskLeaves ==
  ASSUME RowsInv, NEW a \in asks, asks' = asks \ {a}, UNCHANGED <<book, askCount>>,
         crossed' \in {crossed, Txns}
  PROVE  /\ ChangesKnown' /\ \A x \in asks' : AskTyped(x)'
         /\ \A r : RowKnown(r) /\ (r.id # a.txn \/ a.pc # "served") /\ r.id \in Txns => RowKnown(r)'
<1>1. TxnTypes /\ ChangesKnown
  BY DEF RowsInv
<1>2. ChangesKnown'
  BY <1>1, AskTxn DEF ChangesKnown
<1>3. \A x \in asks' : AskTyped(x)'
  BY <1>1 DEF TxnTypes, AskTyped
<1>4. \A r : RowKnown(r) /\ (r.id # a.txn \/ a.pc # "served") /\ r.id \in Txns => RowKnown(r)'
  BY DEF RowKnown
<1> QED BY <1>2, <1>3, <1>4

\* The list on screen is edited in place.
LEMMA EditKeeps ==
  ASSUME RowsInv, NEW a \in asks, a.pc = "served", asks' = asks \ {a}, NEW l \in PageLists,
         Edit(query, l), UNCHANGED <<book, query, backup, debounce, form, noReply, askCount, turns>>,
         \A r \in l.rows : \/ r \in lists[query].rows /\ r.id # a.txn
                           \/ r.id = a.txn /\ r.category = a.category
  PROVE  RowsInv'
<1>1. TxnTypes /\ OneCounts /\ query \in Queries
  BY DEF RowsInv, TxnTypes
<1>2. /\ lists' = [lists EXCEPT ![query] = l] /\ errors' = errors \ {query}
      /\ gets' = Overtaken(query)
      /\ crossed' = IF gets' = gets THEN crossed ELSE Txns
  BY DEF Edit
<1>3. /\ Overtaken(query) \subseteq Gets
      /\ \A g \in Overtaken(query) : g.counts => g \in gets /\ g.query # query
      /\ (\E g \in gets : g.counts /\ g.query = query) => Overtaken(query) # gets
  BY <1>1, OvertakenIs
<1>4. lists'[query] = l /\ lists' \in [Queries -> PageLists]
  BY <1>1, <1>2 DEF TxnTypes
<1>5. /\ ChangesKnown' /\ \A x \in asks' : AskTyped(x)'
      /\ \A r : RowKnown(r) /\ r.id # a.txn /\ r.id \in Txns => RowKnown(r)'
  BY <1>2, AskLeaves
<1>6. TxnTypes'
  <2>1. crossed' \subseteq Txns /\ errors' \subseteq Queries /\ gets' \subseteq Gets
    BY <1>1, <1>2, <1>3 DEF TxnTypes
  <2>2. TxnPage'
    BY <1>1, <1>4, <2>1 DEF TxnTypes, TxnPage
  <2>3. TxnRest'
    BY <1>1, <1>5 DEF TxnTypes, TxnRest
  <2> QED BY <2>2, <2>3, TypesSplit
<1>7. OneCounts'
  BY <1>1, <1>2, <1>3 DEF OneCounts
<1>8. ScreenKnown'
  <2>1. \A g \in gets' : ~(g.query = query /\ g.counts)
    BY <1>2, <1>3
  <2>2. ASSUME ~noReply, NEW r \in l.rows
        PROVE  RowKnown(r)'
    <3>1. r.id \in Txns
      BY DEF PageLists, List, Row
    <3>2. CASE crossed' = Txns
      BY <3>1, <3>2 DEF RowKnown
    <3>3. CASE crossed' # Txns
      <4>1. gets' = gets /\ crossed' = crossed
        BY <1>2, <3>3
      <4>2. ~\E g \in gets : g.query = query /\ g.counts
        BY <1>2, <1>3, <4>1
      <4>3. CASE r \in lists[query].rows /\ r.id # a.txn
        <5>1. RowKnown(r)
          BY <2>2, <4>2, <4>3 DEF RowsInv, ScreenKnown
        <5> QED BY <1>5, <3>1, <4>3, <5>1
      <4>4. CASE r.id = a.txn /\ r.category = a.category
        <5>1. a.txn \in crossed \/ book[a.txn] = a.category
          BY DEF RowsInv, ChangesKnown
        <5> QED BY <4>1, <4>4, <5>1 DEF RowKnown
      <4> QED BY <2>2, <4>3, <4>4
    <3> QED BY <3>2, <3>3
  <2> QED BY <1>4, <2>1, <2>2 DEF ScreenKnown
<1> QED BY <1>5, <1>6, <1>7, <1>8 DEF RowsInv

\* A set of rows stays within a page when each is replaced by one row at most.
LEMMA ReplacedFits ==
  ASSUME NEW S, IsFiniteSet(S), Cardinality(S) <= PageSize, NEW f, NEW T, f \in Surjection(S, T)
  PROVE  IsFiniteSet(T) /\ Cardinality(T) <= PageSize
<1>1. IsFiniteSet(T) /\ Cardinality(T) <= Cardinality(S)
  BY FS_Surjection
<1>2. Cardinality(T) \in Nat /\ Cardinality(S) \in Nat
  BY <1>1, FS_CardinalityType
<1> QED BY <1>1, <1>2, BoundsTyped

LEMMA ListIs ==
  ASSUME NEW R \in SUBSET Row, NEW n \in 0 .. Cardinality(Txns), NEW l,
         l \in [rows : {R}, total : {n}, is : {TRUE}],
         IsFiniteSet(R), Cardinality(R) <= PageSize
  PROVE  l \in PageLists /\ l.rows = R
BY DEF PageLists, List

\* updateOne and remove make a page of a page.
LEMMA RecategorisedIs ==
  ASSUME TxnTypes, NEW l \in PageLists, NEW a \in asks, a.category \in Categories
  PROVE  /\ Recategorised(l, a) \in PageLists
         /\ \A r \in Recategorised(l, a).rows : \/ r \in l.rows /\ r.id # a.txn
                                                \/ r.id = a.txn /\ r.category = a.category
<1> DEFINE row == [id |-> a.txn, category |-> a.category]
<1>1. row \in Row /\ row.id = a.txn /\ row.category = a.category /\ a.txn \in Txns
  BY AskTxn DEF Row
<1>2. l.rows \subseteq Row /\ IsFiniteSet(l.rows) /\ Cardinality(l.rows) <= PageSize /\ l \in List
  BY DEF PageLists, List
<1>3. CASE l.is
  <2> DEFINE R == {IF r.id = a.txn THEN row ELSE r : r \in l.rows}
             f == [r \in l.rows |-> IF r.id = a.txn THEN row ELSE r]
  <2>1. f \in Surjection(l.rows, R)
    BY DEF Surjection
  <2>2. R \subseteq Row
    BY <1>1, <1>2
  <2>3. \A r \in R : \/ r \in l.rows /\ r.id # a.txn
                     \/ r.id = a.txn /\ r.category = a.category
    BY <1>1
  <2>4. Recategorised(l, a) = [l EXCEPT !.rows = R]
    BY <1>3 DEF Recategorised
  <2> HIDE DEF f, R
  <2>5. IsFiniteSet(R) /\ Cardinality(R) <= PageSize
    BY <1>2, <2>1, ReplacedFits
  <2>6. Recategorised(l, a) \in List /\ Recategorised(l, a).rows = R
    BY <1>2, <2>2, <2>4 DEF List
  <2> QED BY <2>3, <2>5, <2>6 DEF PageLists
<1>4. CASE ~l.is
  <2> HIDE DEF row
  <2>1. Recategorised(l, a) = [rows |-> {row}, total |-> 1, is |-> TRUE]
    BY <1>4 DEF Recategorised, row
  <2>2. 1 \in 0 .. Cardinality(Txns)
    BY <1>1, BoundsTyped, FS_EmptySet
  <2>3. IsFiniteSet({row}) /\ Cardinality({row}) <= PageSize
    <3>1. IsFiniteSet({row}) /\ Cardinality({row}) = 1
      BY FS_Singleton
    <3> QED BY <3>1, BoundsTyped
  <2>4. PICK x : x = Recategorised(l, a)
    OBVIOUS
  <2>5. x \in [rows : {{row}}, total : {1}, is : {TRUE}]
    BY <2>1, <2>4
  <2>6. {row} \in SUBSET Row
    BY <1>1
  <2>7. x \in PageLists /\ x.rows = {row}
    BY <2>2, <2>3, <2>5, <2>6, ListIs
  <2> QED BY <1>1, <2>4, <2>7
<1> QED BY <1>3, <1>4

LEMMA WithoutIs ==
  ASSUME TxnTypes, NEW l \in PageLists, NEW a \in asks
  PROVE  /\ Without(l, a) \in PageLists
         /\ \A r \in Without(l, a).rows : r \in l.rows /\ r.id # a.txn
<1>1. l.rows \subseteq Row /\ IsFiniteSet(l.rows) /\ Cardinality(l.rows) <= PageSize
      /\ l.total \in 0 .. Cardinality(Txns)
  BY DEF PageLists, List
<1>2. CASE l.is
  <2> DEFINE R == {r \in l.rows : r.id # a.txn}
             n == IF l.total = 0 THEN 0 ELSE l.total - 1
  <2>1. Without(l, a) = [rows |-> R, is |-> TRUE, total |-> n]
    BY <1>2 DEF Without
  <2>2. R \in SUBSET Row /\ R \in SUBSET l.rows /\ n \in 0 .. Cardinality(Txns)
    BY <1>1, BoundsTyped
  <2>3. \A r \in R : r \in l.rows /\ r.id # a.txn
    OBVIOUS
  <2> HIDE DEF R, n
  <2>4. IsFiniteSet(R) /\ Cardinality(R) <= Cardinality(l.rows)
    BY <1>1, <2>2, FS_Subset
  <2>5. Cardinality(R) <= PageSize
    BY <1>1, <2>4, FS_CardinalityType, BoundsTyped
  <2>6. PICK x : x = Without(l, a)
    OBVIOUS
  <2>7. x \in [rows : {R}, total : {n}, is : {TRUE}]
    BY <2>1, <2>6
  <2>8. x \in PageLists /\ x.rows = R
    BY <2>2, <2>4, <2>5, <2>7, ListIs
  <2> QED BY <2>3, <2>6, <2>8
<1>3. CASE ~l.is
  <2>1. Without(l, a) = [rows |-> {}, total |-> 0, is |-> TRUE]
    BY <1>3 DEF Without
  <2>2. PICK x : x = Without(l, a)
    OBVIOUS
  <2>3. x \in [rows : {{}}, total : {0}, is : {TRUE}]
    BY <2>1, <2>2
  <2>4. {} \in SUBSET Row /\ 0 \in 0 .. Cardinality(Txns) /\ IsFiniteSet({}) /\ Cardinality({}) <= PageSize
    BY BoundsTyped, FS_EmptySet
  <2>5. x \in PageLists /\ x.rows = {}
    BY <2>3, <2>4, ListIs
  <2> QED BY <2>2, <2>5
<1> QED BY <1>2, <1>3

LEMMA AnswerSteps ==
  ASSUME RowsInv, CategoryAnswered \/ DeleteAnswered \/ FormAnswered
  PROVE  RowsInv'
<1>1. TxnTypes /\ query \in Queries /\ lists[query] \in PageLists /\ debounce \in BOOLEAN /\ turns \in Nat
  BY DEF RowsInv, TxnTypes
<1>2. CASE CategoryAnswered
  <2>1. PICK a \in asks : /\ a.kind = "category" /\ AskDone(a) /\ UNCHANGED form
                          /\ Edit(query, Recategorised(lists[query], a))
    BY <1>2 DEF CategoryAnswered
  <2>2. a.category \in Categories
    BY <1>1, <2>1 DEF TxnTypes, AskTyped
  <2>3. /\ Recategorised(lists[query], a) \in PageLists
        /\ \A r \in Recategorised(lists[query], a).rows :
              \/ r \in lists[query].rows /\ r.id # a.txn
              \/ r.id = a.txn /\ r.category = a.category
    BY <1>1, <2>2, RecategorisedIs
  <2>4. /\ a.pc = "served" /\ asks' = asks \ {a}
        /\ UNCHANGED <<book, query, backup, debounce, form, noReply, askCount, turns>>
    BY <2>1 DEF AskDone, tpBounds
  <2> QED BY <2>1, <2>3, <2>4, EditKeeps
<1>3. CASE DeleteAnswered
  <2>1. PICK a \in asks : AskDone(a) /\ Edit(query, Without(lists[query], a)) /\ UNCHANGED form
    BY <1>3 DEF DeleteAnswered
  <2>2. /\ Without(lists[query], a) \in PageLists
        /\ \A r \in Without(lists[query], a).rows : r \in lists[query].rows /\ r.id # a.txn
    BY <1>1, WithoutIs
  <2>3. /\ a.pc = "served" /\ asks' = asks \ {a}
        /\ UNCHANGED <<book, query, backup, debounce, form, noReply, askCount, turns>>
    BY <2>1 DEF AskDone, tpBounds
  <2> QED BY <2>1, <2>2, <2>3, EditKeeps
<1>4. CASE FormAnswered
  <2>1. PICK a \in asks :
           /\ AskDone(a)
           /\ form' = IF form.kind = a.kind THEN NoForm ELSE form
           /\ gets' = Refetched(query) /\ UNCHANGED <<lists, errors, crossed>>
    BY <1>4 DEF FormAnswered
  <2>2. asks' = asks \ {a} /\ UNCHANGED <<book, query, backup, debounce, noReply, askCount, turns>>
    BY <2>1 DEF AskDone, tpBounds
  <2>3. ChangesKnown' /\ \A x \in asks' : AskTyped(x)'
    BY <2>1, <2>2, AskLeaves
  <2>4. form'.kind \in AskKinds \cup {"none"} /\ (form'.kind # "none" => form'.txn \in Txns)
    <3>1. NoForm.kind = "none"
      BY DEF NoForm, Form
    <3> QED BY <1>1, <2>1, <3>1 DEF TxnTypes
  <2>5. TxnRest'
    BY <1>1, <2>2, <2>3, <2>4 DEF TxnTypes, TxnRest
  <2>6. debounce' \in BOOLEAN /\ turns' \in Nat
    BY <1>1, <2>2
  <2> QED BY <2>1, <2>2, <2>3, <2>5, <2>6, RefetchKeeps
<1> QED BY <1>2, <1>3, <1>4

LEMMA AskFailedKeeps ==
  ASSUME RowsInv, AskFailed
  PROVE  RowsInv'
<1>1. PICK a \in asks :
        /\ asks' = asks \ {a}
        /\ (a.pc = "sent" /\ UNCHANGED <<noReply, turns>>) \/ NoReply
  BY DEF AskFailed
<1>2. UNCHANGED <<book, query, lists, errors, backup, gets, form, debounce, crossed, askCount>>
  BY DEF AskFailed
<1>3. TxnTypes
  BY DEF RowsInv
<1>4. /\ ChangesKnown' /\ \A x \in asks' : AskTyped(x)'
      /\ \A r : RowKnown(r) /\ a.pc # "served" /\ r.id \in Txns => RowKnown(r)'
  BY <1>1, <1>2, AskLeaves
<1>5. noReply' \in BOOLEAN /\ turns' \in Nat /\ (noReply' = FALSE => a.pc # "served" /\ noReply = FALSE)
  <2>1. CASE a.pc = "sent" /\ UNCHANGED <<noReply, turns>>
    BY <1>3, <2>1 DEF TxnTypes
  <2>2. CASE NoReply
    BY <1>3, <2>2 DEF TxnTypes, NoReply, Turn
  <2> QED BY <1>1, <2>1, <2>2
<1>6. TxnTypes'
  BY <1>2, <1>3, <1>4, <1>5 DEF TxnTypes
<1>7. OneCounts'
  BY <1>2 DEF RowsInv, OneCounts
<1>8. ScreenKnown'
  <2>1. /\ \A r \in lists[query].rows : r.id \in Txns
        /\ \A g \in gets : \A r \in g.reply.rows : r.id \in Txns
    BY <1>3, RowIds DEF TxnTypes
  <2> QED BY <1>2, <1>4, <1>5, <2>1 DEF RowsInv, ScreenKnown
<1> QED BY <1>4, <1>6, <1>7, <1>8 DEF RowsInv

LEMMA TransactionsStart == PagesInit => RowsInv
<1> SUFFICES ASSUME TransactionsPageInit
             PROVE  RowsInv
  BY DEF PagesInit
<1>1. query = [view |-> "all", page |-> 1] /\ query \in Queries
  BY TransactionsPageAssumption DEF TransactionsPageInit, Queries
<1>2. NoList \in PageLists /\ NoList.rows = {} /\ ~NoList.is
  <2>1. NewGet(query, 0) \in Gets /\ NewGet(query, 0).reply = NoList /\ ~NewGet(query, 0).reply.is
    BY <1>1, NewGetIs DEF NewGet
  <2> QED BY <2>1 DEF Gets, NoList
<1>3. NewGet(query, 0) \in Gets /\ NewGet(query, 0).query = query /\ ~NewGet(query, 0).reply.is
  BY <1>1, NewGetIs
<1>4. book \in [Txns -> Categories \cup {"gone"}]
  BY DEF TransactionsPageInit
<1>5. TxnTypes
  <2>1. form.kind = "none"
    BY DEF TransactionsPageInit, NoForm, Form
  <2> QED BY <1>1, <1>2, <1>3, <1>4, <2>1 DEF TransactionsPageInit, TxnTypes
<1>6. OneCounts /\ ChangesKnown
  BY DEF TransactionsPageInit, OneCounts, ChangesKnown
<1>7. ScreenKnown
  BY <1>1, <1>2, <1>3 DEF TransactionsPageInit, ScreenKnown
<1> QED BY <1>5, <1>6, <1>7 DEF RowsInv

LEMMA TransactionsKept ==
  ASSUME RowsInv, [PagesNext]_pagesVars
  PROVE  RowsInv'
<1>1. TransactionsPageNext \/ UNCHANGED tpVars
  BY DEF PagesNext, pagesVars
<1>2. CASE TransactionsPageNext
  BY <1>2, GetServedKeeps, GetAnsweredKeeps, GetFailedKeeps, QuerySteps, AskSteps, FormSteps,
     AskServedKeeps, AnswerSteps, AskFailedKeeps DEF TransactionsPageNext
<1>3. CASE UNCHANGED tpVars
  <2>1. \A a \in asks' : AskTyped(a)'
    BY <1>3 DEF tpVars, RowsInv, TxnTypes, AskTyped
  <2>2. TxnTypes'
    BY <1>3, <2>1 DEF tpVars, RowsInv, TxnTypes
  <2>3. OneCounts' /\ ScreenKnown' /\ ChangesKnown'
    BY <1>3 DEF tpVars, RowsInv, OneCounts, ScreenKnown, ChangesKnown, RowKnown
  <2> QED BY <2>2, <2>3 DEF RowsInv
<1> QED BY <1>1, <1>2, <1>3

(* With nothing in flight, a row on screen shows the category the server      *)
(* holds, unless a request failed or changes of its transaction crossed.      *)
THEOREM RowsOnScreenAreStored == PagesSpec => []RowsCurrent
<1>1. RowsInv /\ [PagesNext]_pagesVars => RowsInv'
  BY TransactionsKept
<1>2. RowsInv => RowsCurrent
  BY DEF RowsInv, ScreenKnown, RowKnown, RowsCurrent, Rows
<1> QED BY <1>1, <1>2, TransactionsStart, PTL DEF PagesSpec, pagesVars

LEMMA TransactionsTypeHolds ==
  ASSUME RowsInv
  PROVE  TransactionsPageTypeOK
<1>1. TxnTypes /\ OneCounts
  BY DEF RowsInv
<1>2. \A q \in Queries : Cardinality({g \in gets : g.query = q /\ g.counts}) <= 1
  <2> TAKE q \in Queries
  <2> DEFINE C == {g \in gets : g.query = q /\ g.counts}
  <2>1. CASE C = {}
    BY <2>1, FS_EmptySet
  <2>2. CASE C # {}
    <3>1. PICK g : g \in C
      BY <2>2
    <3>2. C = {g}
      BY <1>1, <3>1 DEF OneCounts
    <3>3. Cardinality(C) = 1
      BY <3>2, FS_Singleton
    <3> QED BY <3>3
  <2> QED BY <2>1, <2>2
<1>3. \A q \in Queries : {lists[q], backup[q]} \subseteq List /\ Cardinality(lists[q].rows) <= PageSize
  BY <1>1 DEF TxnTypes, PageLists
<1>4. \A g \in gets : g.query \in Queries /\ g.reply \in List /\ g.try \in {0, 1}
  BY <1>1 DEF TxnTypes, Gets, PageLists
<1>5. \A a \in asks : a.kind \in {"category", "delete", "edit", "add"} /\ a.txn \in Txns
  BY <1>1 DEF TxnTypes, AskTyped, AskSet, AskKinds
<1> QED BY <1>1, <1>2, <1>3, <1>4, <1>5 DEF TransactionsPageTypeOK, TxnTypes
================================================================================
