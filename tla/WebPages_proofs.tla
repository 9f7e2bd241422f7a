---------------------------- MODULE WebPages_proofs ----------------------------
(* The way into the application and the chats, as parts of the visits of      *)
(* MCWebPages, and the type of them all.                                      *)
EXTENDS ListPages_proofs

--------------------------------------------------------------------------------
(* The way into the application.                                              *)

On(u, p) == \E i \in 1 .. Len(u) : u[i] = p

\* No link that leads to an invitation also leads to the developers' signup or
\* to the pricing page, which forget it.
SoundLink(u) == On(u, "join") => ~On(u, "devSignup") /\ ~On(u, "pricing")
Whole(u) == (\A e \in Entries : SoundLink(e)) => SoundLink(u)

\* An address within the application, and any address: only its page may be one
\* of another site.
Inner(u) == u \in Seq(Screens) /\ ~On(u, "stripe") /\ ~On(u, "marketing") /\ Whole(u)
Address(u) == /\ u \in Seq(Screens) /\ u # <<>> /\ Inner(Tail(u)) /\ Whole(u)
              /\ Head(u) = "stripe" => Tail(u) # <<>>

Phases == {"idle", "request", "refetch", "timer", "error"}
PageOf == [login |-> {"login"}, signup |-> {"signup", "devSignup"}, code |-> {"verify"},
           pick |-> {"plan"}, start |-> {"start"}, payment |-> {"success"}, join |-> {"join"}]

AccountTypes ==
    /\ signedIn \in BOOLEAN /\ lost \in BOOLEAN /\ paid \in BOOLEAN /\ joined \in BOOLEAN
    /\ profile \in Statuses \cup {"none"} /\ server \in Statuses \cup {"none"}
    /\ invite \in {"open", "used"}
    /\ loads \in 0 .. MaxLoads /\ faults \in 0 .. MaxFaults
Calls == [pc : Phases, at : Seq(Screens)]
OnTypes == Address(url) /\ call \in [Handlers -> Calls] /\ AccountTypes

\* A handler remembers the address it began at; whoever is on another site has
\* left them all behind.
CallsKnown ==
    /\ \A h \in Handlers : call[h].pc # "idle" =>
          /\ Inner(call[h].at) /\ call[h].at # <<>> /\ Head(call[h].at) \in PageOf[h]
    /\ Head(url) \in {"stripe", "marketing"} => call = NoCalls

\* The plan was chosen or the payment confirmed: the account is active, and its
\* profile was fetched or lost.
PlanKnown ==
    /\ \A h \in {"pick", "payment"} : call[h].pc # "idle" => signedIn
    /\ call["pick"].pc # "timer"
    /\ \A h \in {"pick", "payment"} : call[h].pc \in {"refetch", "timer"} => server = "active"
    /\ call["payment"].pc = "timer" => profile = "active" \/ lost

WayInv == OnTypes /\ CallsKnown /\ PlanKnown

\* What a step does to whoever has a plan, and to an invitation.
PlanStep ==
    \A h \in {"pick", "payment"} :
        /\ call[h].pc \in {"refetch", "timer"}
        /\ call'[h].pc = "idle" /\ loads' = loads /\ url' # <<"marketing">>
        => profile' = "active" \/ lost'
\* What no step of a page takes back.
Progress ==
    /\ signedIn => signedIn'
    /\ server = "active" => server' = "active"
    /\ server = "active" /\ (profile = "active" \/ lost) => profile' = "active" \/ lost'
InviteStep ==
    /\ invite = "open"
    /\ \/ HasInvite(url) /\ Redirect
       \/ HasInvite(call["login"].at) /\ LoginAnswered
       \/ HasInvite(call["signup"].at) /\ SignupAnswered
    => HasInvite(url')

LEMMA InviteIs ==
  ASSUME NEW u \in Seq(Screens)
  PROVE  HasInvite(u) <=> On(u, "join")
<1>1. DOMAIN u = 1 .. Len(u)
  OBVIOUS
<1> QED BY <1>1 DEF HasInvite, On, ToSet

\* A sequence is its head and its tail.
LEMMA TailOf ==
  ASSUME NEW u \in Seq(Screens), u # <<>>
  PROVE  /\ Tail(u) \in Seq(Screens) /\ Head(u) \in Screens /\ Head(u) = u[1]
         /\ Len(Tail(u)) = Len(u) - 1 /\ Len(u) \in Nat /\ Len(u) >= 1
         /\ \A p : On(u, p) <=> Head(u) = p \/ On(Tail(u), p)
<1>1. /\ Tail(u) \in Seq(Screens) /\ Head(u) \in Screens /\ Len(Tail(u)) = Len(u) - 1
      /\ \A i \in 1 .. Len(Tail(u)) : Tail(u)[i] = u[i + 1]
  BY HeadTailProperties
<1>2. Len(u) \in Nat /\ Len(u) >= 1 /\ Head(u) = u[1]
  BY EmptySeq
<1>3. ASSUME NEW p
      PROVE  On(u, p) <=> Head(u) = p \/ On(Tail(u), p)
  <2>1. ASSUME On(u, p)
        PROVE  Head(u) = p \/ On(Tail(u), p)
    <3>1. PICK i \in 1 .. Len(u) : u[i] = p
      BY <2>1 DEF On
    <3>2. CASE i = 1
      BY <1>2, <3>1, <3>2
    <3>3. CASE i # 1
      <4>1. i - 1 \in 1 .. Len(Tail(u)) /\ i - 1 + 1 = i
        BY <1>1, <1>2, <3>3
      <4>2. Tail(u)[i - 1] = p
        BY <1>1, <3>1, <4>1
      <4> QED BY <4>1, <4>2 DEF On
    <3> QED BY <3>2, <3>3
  <2>2. ASSUME Head(u) = p
        PROVE  On(u, p)
    BY <1>2, <2>2 DEF On
  <2>3. ASSUME On(Tail(u), p)
        PROVE  On(u, p)
    <3>1. PICK i \in 1 .. Len(Tail(u)) : Tail(u)[i] = p
      BY <2>3 DEF On
    <3>2. i + 1 \in 1 .. Len(u) /\ u[i + 1] = p
      BY <1>1, <1>2, <3>1
    <3> QED BY <3>2 DEF On
  <2> QED BY <2>1, <2>2, <2>3
<1> QED BY <1>1, <1>2, <1>3

LEMMA ConsOf ==
  ASSUME NEW p \in Screens, NEW v \in Seq(Screens), NEW u, u = <<p>> \o v
  PROVE  /\ u \in Seq(Screens) /\ u # <<>> /\ Head(u) = p /\ Tail(u) = v
         /\ \A q : On(u, q) <=> p = q \/ On(v, q)
<1>1. <<p>> \in Seq(Screens) /\ Len(<<p>>) = 1 /\ <<p>>[1] = p
  OBVIOUS
<1>2. /\ u \in Seq(Screens) /\ Len(u) = 1 + Len(v) /\ Len(v) \in Nat
      /\ \A i \in 1 .. 1 + Len(v) : u[i] = IF i <= 1 THEN <<p>>[i] ELSE v[i - 1]
  BY <1>1, ConcatProperties, LenProperties
<1>3. u # <<>> /\ u[1] = p
  BY <1>1, <1>2
<1>4. Head(u) = p
  BY <1>2, <1>3
<1>5. Tail(u) = v
  <2>1. /\ Tail(u) \in Seq(Screens) /\ Len(Tail(u)) = Len(u) - 1
        /\ \A i \in 1 .. Len(Tail(u)) : Tail(u)[i] = u[i + 1]
    BY <1>2, <1>3, HeadTailProperties
  <2>2. Len(Tail(u)) = Len(v)
    BY <1>2, <2>1
  <2>3. \A i \in 1 .. Len(v) : Tail(u)[i] = v[i]
    <3> TAKE i \in 1 .. Len(v)
    <3>1. Tail(u)[i] = u[i + 1] /\ i + 1 \in 1 .. 1 + Len(v) /\ ~(i + 1 <= 1) /\ i + 1 - 1 = i
      BY <1>2, <2>1, <2>2
    <3> QED BY <1>2, <3>1
  <2> QED BY <2>1, <2>2, <2>3, SeqEqual
<1>6. \A q : On(u, q) <=> p = q \/ On(v, q)
  <2>1. \A q : On(u, q) <=> Head(u) = q \/ On(Tail(u), q)
    BY <1>2, <1>3, TailOf
  <2> QED BY <1>4, <1>5, <2>1
<1> QED BY <1>2, <1>3, <1>4, <1>5, <1>6

LEMMA OneScreen ==
  ASSUME NEW p \in Screens
  PROVE  /\ <<p>> \in Seq(Screens) /\ <<p>> # <<>> /\ Head(<<p>>) = p /\ Tail(<<p>>) = <<>>
         /\ \A q : On(<<p>>, q) <=> p = q
         /\ \A q : ~On(<<>>, q)
<1>1. <<p>> \in Seq(Screens) /\ Len(<<p>>) = 1 /\ <<p>>[1] = p
  OBVIOUS
<1> QED BY <1>1 DEF On

LEMMA InnerOf ==
  ASSUME NEW p \in Screens \ {"stripe", "marketing", "devSignup", "pricing"},
         NEW v, Inner(v), NEW u, u = <<p>> \o v, p # "join" \/ On(v, "join")
  PROVE  Inner(u) /\ u # <<>> /\ Head(u) = p /\ Tail(u) = v /\ (On(v, "join") => On(u, "join"))
<1>1. v \in Seq(Screens)
  BY DEF Inner
<1>2. /\ u \in Seq(Screens) /\ u # <<>> /\ Head(u) = p /\ Tail(u) = v
      /\ \A q : On(u, q) <=> p = q \/ On(v, q)
  BY <1>1, ConsOf
<1>3. ~On(u, "stripe") /\ ~On(u, "marketing") /\ Whole(u)
  BY <1>2 DEF Inner, Whole, SoundLink
<1> QED BY <1>2, <1>3 DEF Inner

LEMMA InnerScreen ==
  ASSUME NEW p \in Screens \ {"stripe", "marketing"}
  PROVE  Inner(<<p>>) /\ <<p>> # <<>> /\ Head(<<p>>) = p /\ (p = "join" => On(<<p>>, "join"))
<1>1. /\ <<p>> \in Seq(Screens) /\ <<p>> # <<>> /\ Head(<<p>>) = p
      /\ \A q : On(<<p>>, q) <=> p = q
  BY OneScreen
<1>2. ~On(<<p>>, "stripe") /\ ~On(<<p>>, "marketing") /\ Whole(<<p>>)
  BY <1>1 DEF Whole, SoundLink
<1> QED BY <1>1, <1>2 DEF Inner

LEMMA InnerAddress ==
  ASSUME NEW u
  PROVE  /\ Inner(u) /\ u # <<>> => Address(u)
         /\ Address(u) /\ Head(u) \notin {"stripe", "marketing"} => Inner(u)
         /\ Inner(u) /\ u # <<>> => Head(u) \notin {"stripe", "marketing"}
<1>1. ASSUME Inner(u), u # <<>>
      PROVE  Address(u) /\ Head(u) \notin {"stripe", "marketing"}
  <2>1. u \in Seq(Screens)
    BY <1>1 DEF Inner
  <2>2. /\ Tail(u) \in Seq(Screens)
        /\ \A p : On(u, p) <=> Head(u) = p \/ On(Tail(u), p)
    BY <1>1, <2>1, TailOf
  <2>3. Inner(Tail(u))
    BY <1>1, <2>2 DEF Inner, Whole, SoundLink
  <2> QED BY <1>1, <2>1, <2>2, <2>3 DEF Inner, Address
<1>2. ASSUME Address(u), Head(u) \notin {"stripe", "marketing"}
      PROVE  Inner(u)
  <2>1. u \in Seq(Screens) /\ u # <<>>
    BY <1>2 DEF Address
  <2>2. \A p : On(u, p) <=> Head(u) = p \/ On(Tail(u), p)
    BY <2>1, TailOf
  <2> QED BY <1>2, <2>1, <2>2 DEF Inner, Address
<1> QED BY <1>1, <1>2

LEMMA ReturnIs ==
  ASSUME NEW u, u # <<>>, Address(u)
  PROVE  /\ Inner(Return(u)) /\ Return(u) # <<>>
         /\ (On(Tail(u), "join") => On(Return(u), "join"))
<1>1. CASE Tail(u) = <<>>
  <2>1. Return(u) = <<"app">>
    BY <1>1 DEF Return
  <2>2. ~On(Tail(u), "join")
    BY <1>1, OneScreen DEF Screens
  <2>3. "app" \in Screens \ {"stripe", "marketing"}
    BY DEF Screens, Protected
  <2> QED BY <2>1, <2>2, <2>3, InnerScreen
<1>2. CASE Tail(u) # <<>>
  BY <1>2 DEF Return, Address
<1> QED BY <1>1, <1>2

\* Where a page sends a visitor: within the application or to the marketing
\* site, and with the invitation the address carries.
LEMMA TargetIs ==
  ASSUME Address(url)
  PROVE  /\ page \notin {"stripe", "marketing"} =>
               Target = <<"marketing">> \/ (Inner(Target) /\ Target # <<>>)
         /\ page \in {"stripe", "marketing"} => Target = url
         /\ (\A e \in Entries : SoundLink(e)) /\ invite = "open" /\ On(url, "join")
               => On(Target, "join")
<1>1. /\ url \in Seq(Screens) /\ url # <<>> /\ Inner(Tail(url)) /\ Whole(url)
      /\ \A p : On(url, p) <=> page = p \/ On(Tail(url), p)
      /\ page \in Screens /\ Tail(url) \in Seq(Screens)
  BY TailOf DEF Address, page
<1>2. page \notin {"stripe", "marketing"} => Inner(url)
  BY InnerAddress DEF page
<1>3. Inner(Return(url)) /\ Return(url) # <<>> /\ (On(Tail(url), "join") => On(Return(url), "join"))
  BY <1>1, ReturnIs
<1>4. {"login", "signup", "verify", "plan"} \subseteq Screens \ {"stripe", "marketing", "devSignup", "pricing", "join"}
  BY DEF Screens, Protected
<1>5. CASE page \in Protected
  <2>1. Target = RouteGuard
    BY <1>5 DEF Target, Protected
  <2>2. page \notin {"stripe", "marketing"} /\ Inner(url)
    BY <1>2, <1>5 DEF Protected
  <2>3. \A p \in {"login", "verify", "plan"} :
           Inner(<<p>> \o url) /\ <<p>> \o url # <<>> /\ (On(url, "join") => On(<<p>> \o url, "join"))
    <3> SUFFICES ASSUME NEW p \in {"login", "verify", "plan"}
                 PROVE  /\ Inner(<<p>> \o url) /\ <<p>> \o url # <<>>
                        /\ (On(url, "join") => On(<<p>> \o url, "join"))
      OBVIOUS
    <3>1. PICK u : u = <<p>> \o url
      OBVIOUS
    <3>2. p \in Screens \ {"stripe", "marketing", "devSignup", "pricing"} /\ p # "join"
      BY <1>4
    <3>3. Inner(u) /\ u # <<>> /\ (On(url, "join") => On(u, "join"))
      BY <2>2, <3>1, <3>2, InnerOf
    <3> QED BY <2>2, <3>1, <3>3
  <2> QED BY <1>1, <2>1, <2>2, <2>3 DEF RouteGuard
<1>6. CASE page = "verify"
  <2>1. Target = VerifyEmailEffect
    BY <1>6 DEF Target, Protected
  <2>2. On(url, "join") <=> On(Tail(url), "join")
    BY <1>1, <1>6
  <2>3. HasInvite(Tail(url)) <=> On(Tail(url), "join")
    BY <1>1, InviteIs
  <2>4. Inner(<<"plan">> \o Tail(url)) /\ <<"plan">> \o Tail(url) # <<>>
    <3>1. PICK p, v, u : p = "plan" /\ v = Tail(url) /\ u = <<p>> \o v
      OBVIOUS
    <3>2. p \in Screens \ {"stripe", "marketing", "devSignup", "pricing"} /\ p # "join"
      BY <1>4, <3>1
    <3>3. Inner(v)
      BY <1>1, <3>1
    <3>4. Inner(u) /\ u # <<>>
      BY <3>1, <3>2, <3>3, InnerOf
    <3> QED BY <3>1, <3>4
  <2>5. On(Tail(url), "join") => Tail(url) # <<>>
    BY OneScreen DEF Screens
  <2> QED BY <1>1, <1>2, <1>3, <1>6, <2>1, <2>2, <2>3, <2>4, <2>5 DEF VerifyEmailEffect
<1>7. CASE page = "plan"
  <2>1. Target = PlanSelectionEffect
    BY <1>7 DEF Target, Protected
  <2>2. Inner(url) /\ (On(url, "join") <=> On(Tail(url), "join"))
    BY <1>1, <1>2, <1>7
  <2>3. \A p \in {"signup", "verify"} :
           Inner(<<p>> \o url) /\ <<p>> \o url # <<>> /\ (On(url, "join") => On(<<p>> \o url, "join"))
    <3> SUFFICES ASSUME NEW p \in {"signup", "verify"}
                 PROVE  /\ Inner(<<p>> \o url) /\ <<p>> \o url # <<>>
                        /\ (On(url, "join") => On(<<p>> \o url, "join"))
      OBVIOUS
    <3>1. PICK u : u = <<p>> \o url
      OBVIOUS
    <3>2. p \in Screens \ {"stripe", "marketing", "devSignup", "pricing"} /\ p # "join"
      BY <1>4
    <3>3. Inner(u) /\ u # <<>> /\ (On(url, "join") => On(u, "join"))
      BY <2>2, <3>1, <3>2, InnerOf
    <3> QED BY <2>2, <3>1, <3>3
  <2> QED BY <1>1, <1>3, <1>7, <2>1, <2>2, <2>3 DEF PlanSelectionEffect
<1>8. CASE page = "join"
  <2>1. Target = JoinEffect
    BY <1>8 DEF Target, Protected
  <2>2. Inner(url)
    BY <1>2, <1>8
  <2>3. Inner(<<"join">>) /\ On(<<"join">>, "join")
    BY InnerScreen DEF Screens
  <2>4. \A p \in {"signup", "login"} :
           Inner(<<p>> \o <<"join">>) /\ <<p>> \o <<"join">> # <<>> /\ On(<<p>> \o <<"join">>, "join")
    <3> SUFFICES ASSUME NEW p \in {"signup", "login"}
                 PROVE  /\ Inner(<<p>> \o <<"join">>) /\ <<p>> \o <<"join">> # <<>>
                        /\ On(<<p>> \o <<"join">>, "join")
      OBVIOUS
    <3>1. PICK u : u = <<p>> \o <<"join">>
      OBVIOUS
    <3>2. p \in Screens \ {"stripe", "marketing", "devSignup", "pricing"} /\ p # "join"
      BY <1>4
    <3>3. Inner(u) /\ u # <<>> /\ (On(<<"join">>, "join") => On(u, "join"))
      BY <2>3, <3>1, <3>2, InnerOf
    <3> QED BY <2>3, <3>1, <3>3
  <2>5. (IF server = "none" THEN "signup" ELSE "login") \in {"signup", "login"}
    OBVIOUS
  <2>6. JoinEffect = url \/ \E p \in {"signup", "login"} : JoinEffect = <<p>> \o <<"join">>
    BY <2>5 DEF JoinEffect
  <2>7. CASE JoinEffect = url
    BY <1>1, <1>8, <2>1, <2>2, <2>7
  <2>8. ASSUME NEW p \in {"signup", "login"}, JoinEffect = <<p>> \o <<"join">>
        PROVE  Inner(Target) /\ Target # <<>> /\ On(Target, "join")
    <3>1. Target = <<p>> \o <<"join">>
      BY <2>1, <2>8
    <3> QED BY <2>4, <3>1
  <2> QED BY <1>8, <2>6, <2>7, <2>8
<1>9. CASE page = "pricing"
  <2>1. Target = PricingEffect
    BY <1>9 DEF Target, Protected
  <2>2. (\A e \in Entries : SoundLink(e)) => ~On(url, "join")
    BY <1>1, <1>9 DEF Whole, SoundLink
  <2>3. CASE ~SameOrigin
    BY <1>9, <2>1, <2>2, <2>3 DEF PricingEffect
  <2>4. CASE SameOrigin /\ Len(url) > 1 /\ url[2] = "start"
    <3>1. Tail(url) # <<>> /\ Address(Tail(url))
      <4>1. Len(Tail(url)) = Len(url) - 1 /\ Len(url) \in Nat
        BY <1>1, TailOf
      <4>2. Len(Tail(url)) # 0
        BY <2>4, <4>1
      <4>3. Tail(url) # <<>>
        BY <1>1, <4>2, EmptySeq
      <4> QED BY <1>1, <4>3, InnerAddress
    <3>2. Inner(Return(Tail(url))) /\ Return(Tail(url)) # <<>>
      BY <3>1, ReturnIs
    <3> QED BY <1>9, <2>1, <2>2, <2>4, <3>2 DEF PricingEffect
  <2>5. CASE SameOrigin /\ ~(Len(url) > 1 /\ url[2] = "start")
    BY <1>3, <1>9, <2>1, <2>2, <2>5 DEF PricingEffect
  <2> QED BY <2>3, <2>4, <2>5
<1>10. CASE page \notin Protected \cup {"verify", "plan", "join", "pricing"}
  <2>1. Target = url
    BY <1>10 DEF Target
  <2> QED BY <1>1, <1>2, <2>1
<1>11. page \in {"stripe", "marketing"} => Target = url
  BY DEF Target, Protected
<1> QED BY <1>5, <1>6, <1>7, <1>8, <1>9, <1>10, <1>11

LEMMA EntriesAreInner ==
  ASSUME NEW u \in Entries
  PROVE  Inner(u) /\ u # <<>>
<1>1. u \in Seq({"signup", "devSignup", "join", "start", "pricing"}) /\ u # <<>>
  BY OnboardingAssumption
<1>2. u \in Seq(Screens) /\ \A i \in 1 .. Len(u) : u[i] \notin {"stripe", "marketing"}
  BY <1>1 DEF Screens, Protected
<1> QED BY <1>1, <1>2 DEF Inner, Whole, On

\* A step that changes the handler of one page, and may move to another page.
LEMMA OneCall ==
  ASSUME WayInv, AccountTypes', Progress, Inner(url'), url' # <<>>,
         NEW g \in Handlers, NEW c \in Calls, call' = [call EXCEPT ![g] = c],
         c.pc # "idle" => Inner(c.at) /\ c.at # <<>> /\ Head(c.at) \in PageOf[g],
         g \in {"pick", "payment"} =>
            /\ c.pc # "idle" => signedIn'
            /\ c.pc \in {"refetch", "timer"} => server' = "active"
            /\ call[g].pc \in {"refetch", "timer"} /\ c.pc = "idle" => profile' = "active" \/ lost',
         g = "pick" => c.pc # "timer",
         g = "payment" /\ c.pc = "timer" => profile' = "active" \/ lost'
  PROVE  WayInv' /\ PlanStep
<1>1. /\ call' \in [Handlers -> Calls] /\ call'[g] = c
      /\ \A h \in Handlers \ {g} : call'[h] = call[h]
  BY DEF WayInv, OnTypes
<1>2. Address(url') /\ Head(url') \notin {"stripe", "marketing"}
  BY InnerAddress
<1>3. OnTypes'
  BY <1>1, <1>2 DEF OnTypes
<1>4. CallsKnown'
  BY <1>1, <1>2 DEF CallsKnown, WayInv
<1>5. {"pick", "payment"} \subseteq Handlers
  BY DEF Handlers
<1>6. PlanKnown'
  <2>1. \A h \in {"pick", "payment"} : call'[h].pc # "idle" => signedIn'
    BY <1>1, <1>5 DEF WayInv, PlanKnown, Progress
  <2>2. call'["pick"].pc # "timer"
    BY <1>1, <1>5 DEF WayInv, PlanKnown
  <2>3. \A h \in {"pick", "payment"} : call'[h].pc \in {"refetch", "timer"} => server' = "active"
    BY <1>1, <1>5 DEF WayInv, PlanKnown, Progress
  <2>4. call'["payment"].pc = "timer" => profile' = "active" \/ lost'
    BY <1>1, <1>5 DEF WayInv, PlanKnown, Progress
  <2> QED BY <2>1, <2>2, <2>3, <2>4 DEF PlanKnown
<1>7. PlanStep
  BY <1>1, <1>5 DEF PlanStep
<1> QED BY <1>3, <1>4, <1>6, <1>7 DEF WayInv

\* A step that leaves the handlers alone.
LEMMA NoCall ==
  ASSUME WayInv, AccountTypes', Progress, UNCHANGED call,
         (Inner(url') /\ url' # <<>>) \/ url' = url
  PROVE  WayInv' /\ PlanStep
<1>1. CASE Inner(url') /\ url' # <<>>
  <2>1. Address(url') /\ Head(url') \notin {"stripe", "marketing"}
    BY <1>1, InnerAddress
  <2>2. OnTypes' /\ CallsKnown' /\ PlanKnown'
    BY <2>1 DEF WayInv, OnTypes, CallsKnown, PlanKnown, Progress
  <2> QED BY <2>2 DEF WayInv, PlanStep
<1>2. CASE url' = url
  <2>1. OnTypes' /\ CallsKnown' /\ PlanKnown'
    BY <1>2 DEF WayInv, OnTypes, CallsKnown, PlanKnown, Progress
  <2> QED BY <2>1 DEF WayInv, PlanStep
<1> QED BY <1>1, <1>2

\* Nobody waits on a page of another site, or on one just loaded.
LEMMA NobodyWaits ==
  ASSUME AccountTypes', Address(url'), call' = NoCalls
  PROVE  WayInv'
<1>1. NoCalls \in [Handlers -> Calls] /\ \A h \in Handlers : NoCalls[h].pc = "idle"
  <2>1. <<>> \in Seq(Screens)
    OBVIOUS
  <2>2. NotRunning \in Calls /\ NotRunning.pc = "idle"
    BY <2>1 DEF NotRunning, Calls, Phases
  <2> QED BY <2>2 DEF NoCalls
<1>2. OnTypes' /\ CallsKnown'
  BY <1>1 DEF OnTypes, CallsKnown
<1>3. PlanKnown'
  BY <1>1 DEF PlanKnown, Handlers
<1> QED BY <1>2, <1>3 DEF WayInv

\* A page load: the profile is fetched anew.
LEMMA Loaded ==
  ASSUME WayInv, NEW u, Address(u), Load(u), UNCHANGED <<server, invite, joined>>,
         paid' \in BOOLEAN, loads' \in 0 .. MaxLoads
  PROVE  WayInv' /\ PlanStep
<1>1. /\ url' = u /\ call' = NoCalls /\ signedIn' = signedIn
      /\ (signedIn => profile' = server \/ lost')
      /\ profile' \in Statuses \cup {"none"} /\ lost' \in BOOLEAN /\ faults' \in 0 .. MaxFaults
  <2>1. url' = u /\ call' = NoCalls /\ signedIn' = signedIn /\ FetchProfile /\ server' = server
    BY DEF Load
  <2>2. /\ faults \in 0 .. MaxFaults /\ lost \in BOOLEAN /\ MaxFaults \in Nat
        /\ signedIn \in BOOLEAN /\ server \in Statuses \cup {"none"}
    BY OnboardingAssumption DEF WayInv, OnTypes, AccountTypes
  <2>3. CASE ~signedIn
    BY <2>1, <2>2, <2>3 DEF FetchProfile
  <2>4. CASE signedIn /\ profile' = server /\ lost' = FALSE /\ UNCHANGED faults
    BY <2>1, <2>2, <2>4
  <2>5. CASE signedIn /\ profile' = "none" /\ lost' = TRUE /\ Fault
    BY <2>1, <2>2, <2>5 DEF Fault
  <2> QED BY <2>1, <2>3, <2>4, <2>5 DEF FetchProfile
<1>2. AccountTypes'
  BY <1>1 DEF WayInv, OnTypes, AccountTypes
<1>3. WayInv'
  BY <1>1, <1>2, NobodyWaits
<1>4. PlanStep
  BY <1>1 DEF PlanStep, WayInv, PlanKnown
<1> QED BY <1>3, <1>4

LEMMA ProfileFetched ==
  ASSUME WayInv, Refetch
  PROVE  /\ profile' \in Statuses \cup {"none"} /\ lost' \in BOOLEAN
         /\ faults' \in 0 .. MaxFaults
         /\ server = "active" => profile' = "active" \/ lost'
<1>1. /\ faults \in 0 .. MaxFaults /\ lost \in BOOLEAN /\ MaxFaults \in Nat
      /\ profile \in Statuses \cup {"none"} /\ server \in Statuses \cup {"none"}
  BY OnboardingAssumption DEF WayInv, OnTypes, AccountTypes
<1>2. CASE profile' = server /\ lost' = FALSE /\ UNCHANGED faults
  BY <1>1, <1>2
<1>3. CASE lost' = TRUE /\ UNCHANGED profile /\ Fault
  BY <1>1, <1>3 DEF Fault
<1> QED BY <1>2, <1>3 DEF Refetch

LEMMA FaultCounted ==
  ASSUME WayInv, Fault
  PROVE  faults' \in 0 .. MaxFaults
BY OnboardingAssumption DEF Fault, WayInv, OnTypes, AccountTypes

\* The two ways a handler goes on, as the value it changes to.
LEMMA CallContinues ==
  ASSUME WayInv, NEW h \in Handlers, NEW pc \in Phases, Continues(h, pc)
  PROVE  \E c \in Calls : /\ call' = [call EXCEPT ![h] = c] /\ c.pc = pc
                          /\ c.at = call[h].at
<1>1. call[h] \in Calls
  BY DEF WayInv, OnTypes
<1>2. PICK c : c = [call[h] EXCEPT !.pc = pc]
  OBVIOUS
<1>3. c \in Calls /\ c.pc = pc /\ c.at = call[h].at
  BY <1>1, <1>2 DEF Calls
<1>4. call' = [call EXCEPT ![h] = c]
  BY <1>2 DEF Continues
<1> QED BY <1>3, <1>4

LEMMA CallEnds ==
  ASSUME NEW h \in Handlers, Ends(h)
  PROVE  \E c \in Calls : call' = [call EXCEPT ![h] = c] /\ c.pc = "idle"
<1>1. <<>> \in Seq(Screens)
  OBVIOUS
<1>2. NotRunning \in Calls /\ NotRunning.pc = "idle"
  BY <1>1 DEF NotRunning, Calls, Phases
<1> QED BY <1>2 DEF Ends

LEMMA CallBegins ==
  ASSUME WayInv, NEW h \in Handlers, NEW p \in PageOf[h], Begins(h, p),
         h \in {"pick", "payment"} => signedIn
  PROVE  WayInv' /\ PlanStep
<1>1. p \notin {"stripe", "marketing"}
  BY DEF PageOf, Handlers
<1>2. Inner(url) /\ url # <<>> /\ url \in Seq(Screens) /\ Head(url) = p
  BY <1>1, InnerAddress DEF Begins, page, WayInv, OnTypes, Address
<1>3. PICK c : c = [pc |-> "request", at |-> url]
  OBVIOUS
<1>4. c \in Calls /\ c.pc = "request" /\ c.at = url /\ call' = [call EXCEPT ![h] = c]
  BY <1>2, <1>3 DEF Calls, Phases, Begins
<1>5. AccountTypes' /\ Progress /\ Inner(url') /\ url' # <<>> /\ signedIn' = signedIn
      /\ call[h].pc \notin {"refetch", "timer"}
  BY <1>2 DEF Begins, backend, WayInv, OnTypes, AccountTypes, Progress
<1> QED BY <1>2, <1>4, <1>5, OneCall

LEMMA NoPageAddress ==
  /\ Inner(<<>>) /\ Address(<<"marketing">>)
<1>1. \A q : ~On(<<>>, q)
  BY OneScreen DEF Screens
<1>2. <<>> \in Seq(Screens)
  OBVIOUS
<1>3. Inner(<<>>)
  BY <1>1, <1>2 DEF Inner, Whole, SoundLink
<1>4. "marketing" \in Screens
  BY DEF Screens
<1>5. /\ <<"marketing">> \in Seq(Screens) /\ <<"marketing">> # <<>> /\ Tail(<<"marketing">>) = <<>>
      /\ Head(<<"marketing">>) = "marketing" /\ \A q : On(<<"marketing">>, q) <=> "marketing" = q
  BY <1>4, OneScreen
<1> QED BY <1>3, <1>5 DEF Address, Whole, SoundLink

LEMMA StripeAddress ==
  ASSUME NEW v, Inner(v)
  PROVE  Address(<<"stripe", "success">> \o v)
<1>1. {"stripe", "success"} \subseteq Screens /\ v \in Seq(Screens)
  BY DEF Screens, Protected, Inner
<1>2. PICK w : w = <<"success">> \o v
  OBVIOUS
<1>3. Inner(w) /\ w # <<>> /\ (On(v, "join") => On(w, "join"))
  <2>1. "success" \in Screens \ {"stripe", "marketing", "devSignup", "pricing"}
    BY <1>1
  <2> QED BY <1>2, <2>1, InnerOf
<1>4. PICK u : u = <<"stripe">> \o w
  OBVIOUS
<1>5. /\ u \in Seq(Screens) /\ u # <<>> /\ Head(u) = "stripe" /\ Tail(u) = w
      /\ \A q : On(u, q) <=> "stripe" = q \/ On(w, q)
  <2>1. w \in Seq(Screens)
    BY <1>3 DEF Inner
  <2> QED BY <1>1, <1>4, <2>1, ConsOf
<1>6. Address(u)
  BY <1>3, <1>5 DEF Address, Inner, Whole, SoundLink
<1>7. <<"stripe", "success">> \o v = u
  <2>1. <<"stripe", "success">> \in Seq(Screens) /\ <<"stripe">> \in Seq(Screens) /\ <<"success">> \in Seq(Screens)
    BY <1>1
  <2>2. <<"stripe">> \o <<"success">> = <<"stripe", "success">>
    <3>1. PICK z : z = <<"stripe">> \o <<"success">>
      OBVIOUS
    <3>2. z \in Seq(Screens) /\ Len(z) = 2 /\ z[1] = "stripe" /\ z[2] = "success"
      BY <2>1, <3>1, ConcatProperties, LenProperties
    <3>3. Len(<<"stripe", "success">>) = 2
      OBVIOUS
    <3>4. \A i \in 1 .. 2 : z[i] = <<"stripe", "success">>[i]
      BY <3>2
    <3> QED BY <2>1, <3>1, <3>2, <3>3, <3>4, SeqEqual
  <2>3. (<<"stripe">> \o <<"success">>) \o v = <<"stripe">> \o (<<"success">> \o v)
    BY <1>1, <2>1, ConcatAssociative
  <2> QED BY <1>2, <1>4, <2>2, <2>3
<1> QED BY <1>6, <1>7

LEMMA Redirected ==
  ASSUME WayInv, Redirect
  PROVE  WayInv' /\ PlanStep
<1>1. Address(url) /\ page \notin {"stripe", "marketing"}
  BY TargetIs DEF Redirect, Settled, WayInv, OnTypes
<1>2. AccountTypes' /\ Progress
  BY DEF Redirect, backend, WayInv, OnTypes, AccountTypes, Progress
<1>3. CASE Target = <<"marketing">>
  <2>1. url' = <<"marketing">> /\ call' = NoCalls
    BY <1>3 DEF Redirect
  <2> QED BY <1>2, <2>1, NoPageAddress, NobodyWaits DEF PlanStep
<1>4. CASE Target # <<"marketing">>
  <2>1. Inner(url') /\ url' # <<>> /\ UNCHANGED call
    BY <1>1, <1>4, TargetIs DEF Redirect
  <2> QED BY <1>2, <2>1, NoCall
<1> QED BY <1>3, <1>4

LEMMA LinkFollowed ==
  ASSUME WayInv, FollowLink
  PROVE  WayInv' /\ PlanStep
<1>1. AccountTypes' /\ Progress /\ UNCHANGED call
  BY DEF FollowLink, backend, WayInv, OnTypes, AccountTypes, Progress
<1>2. \A p \in {"login", "pricing", "app"} : Inner(<<p>>) /\ <<p>> # <<>>
  <2>1. {"login", "pricing", "app"} \subseteq Screens \ {"stripe", "marketing"}
    BY DEF Screens, Protected
  <2> QED BY <2>1, InnerScreen
<1>3. Inner(<<"signup">> \o Tail(url)) /\ <<"signup">> \o Tail(url) # <<>>
  <2>1. "signup" \in Screens \ {"stripe", "marketing", "devSignup", "pricing"}
    BY DEF Screens, Protected
  <2>2. PICK v : v = Tail(url)
    OBVIOUS
  <2>3. Inner(v)
    BY <2>2 DEF WayInv, OnTypes, Address
  <2>4. PICK w : w = <<"signup">> \o v
    OBVIOUS
  <2>5. Inner(w) /\ w # <<>>
    BY <2>1, <2>3, <2>4, InnerOf
  <2> QED BY <2>2, <2>4, <2>5
<1>4. Inner(url') /\ url' # <<>>
  BY <1>2, <1>3 DEF FollowLink
<1> QED BY <1>1, <1>4, NoCall

LEMMA LinkOpened ==
  ASSUME WayInv, NEW u \in Entries, OpenLink(u) \/ DeepLink(u)
  PROVE  WayInv' /\ PlanStep
<1>1. Inner(u) /\ u # <<>> /\ Address(u) /\ loads' \in 0 .. MaxLoads
  BY EntriesAreInner, InnerAddress, OnboardingAssumption
     DEF OpenLink, DeepLink, WayInv, OnTypes, AccountTypes
<1>2. CASE OpenLink(u)
  <2>1. Load(u) /\ UNCHANGED <<server, invite, joined>> /\ paid' \in BOOLEAN
    BY <1>2 DEF OpenLink, backend, WayInv, OnTypes, AccountTypes
  <2> QED BY <1>1, <2>1, Loaded
<1>3. CASE DeepLink(u)
  <2>1. AccountTypes' /\ Progress /\ UNCHANGED call /\ url' = u
    BY <1>1, <1>3 DEF DeepLink, backend, WayInv, OnTypes, AccountTypes, Progress
  <2> QED BY <1>1, <2>1, NoCall
<1> QED BY <1>2, <1>3

LEMMA MarketingLeft ==
  ASSUME WayInv, LeaveMarketing
  PROVE  WayInv' /\ PlanStep
<1>1. PICK p \in {"signup", "login"} : Load(<<p>>)
  BY DEF LeaveMarketing
<1>2. p \in Screens \ {"stripe", "marketing"}
  BY DEF Screens, Protected
<1>3. Address(<<p>>)
  BY <1>2, InnerScreen, InnerAddress
<1>4. UNCHANGED <<server, invite, joined>> /\ paid' \in BOOLEAN /\ loads' \in 0 .. MaxLoads
  BY DEF LeaveMarketing, backend, WayInv, OnTypes, AccountTypes
<1> QED BY <1>1, <1>3, <1>4, Loaded

LEMMA CallFailed ==
  ASSUME WayInv, NEW h \in Handlers, Fails(h)
  PROVE  WayInv' /\ PlanStep
<1>1. /\ call[h].pc = "request" /\ call[h].pc # "idle" /\ Continues(h, "error")
      /\ url' = url /\ "error" \in Phases /\ faults' \in 0 .. MaxFaults
  BY FaultCounted DEF Fails, Answers, Phases
<1>2. PICK c \in Calls : call' = [call EXCEPT ![h] = c] /\ c.pc = "error" /\ c.at = call[h].at
  BY <1>1, CallContinues
<1>3. AccountTypes' /\ Progress /\ UNCHANGED <<signedIn, server>>
  BY <1>1 DEF Fails, backend, WayInv, OnTypes, AccountTypes, Progress
<1>4. Inner(url') /\ url' # <<>>
  <2>1. Address(url) /\ Head(url) \notin {"stripe", "marketing"}
    <3>1. NoCalls[h].pc = "idle"
      BY DEF NoCalls, NotRunning
    <3> QED BY <1>1, <3>1 DEF WayInv, OnTypes, CallsKnown
  <2> QED BY <1>1, <2>1, InnerAddress DEF Address
<1>5. Inner(c.at) /\ c.at # <<>> /\ Head(c.at) \in PageOf[h]
  BY <1>1, <1>2 DEF WayInv, CallsKnown
<1>6. h \in {"pick", "payment"} => signedIn'
  BY <1>1, <1>3 DEF WayInv, PlanKnown
<1> QED BY <1>1, <1>2, <1>3, <1>4, <1>5, <1>6, OneCall

LEMMA Running ==
  ASSUME WayInv, NEW h \in Handlers, call[h].pc # "idle"
  PROVE  /\ Inner(url) /\ url # <<>>
         /\ Inner(call[h].at) /\ call[h].at # <<>> /\ Head(call[h].at) \in PageOf[h]
         /\ Address(call[h].at) /\ Inner(Tail(call[h].at)) /\ call[h].at \in Seq(Screens)
         /\ Inner(Return(call[h].at)) /\ Return(call[h].at) # <<>>
         /\ (On(Tail(call[h].at), "join") => On(Return(call[h].at), "join"))
<1>1. NoCalls[h].pc = "idle"
  BY DEF NoCalls, NotRunning
<1>2. Address(url) /\ Head(url) \notin {"stripe", "marketing"}
  BY <1>1 DEF WayInv, OnTypes, CallsKnown
<1>3. Inner(call[h].at) /\ call[h].at # <<>> /\ Head(call[h].at) \in PageOf[h]
  BY DEF WayInv, CallsKnown
<1>4. Address(call[h].at)
  BY <1>3, InnerAddress
<1>5. PICK u : u = call[h].at
  OBVIOUS
<1>6. Inner(Return(u)) /\ Return(u) # <<>> /\ (On(Tail(u), "join") => On(Return(u), "join"))
  BY <1>3, <1>4, <1>5, ReturnIs
<1> QED BY <1>2, <1>3, <1>4, <1>5, <1>6, InnerAddress DEF Address

LEMMA SignedIn ==
  ASSUME WayInv, NEW h \in Handlers \ {"pick", "payment"}, NEW status \in Statuses \cup {"none"},
         NEW u, SignIn(h, status, u), Inner(u), u # <<>>,
         UNCHANGED <<paid, invite, joined>>, server' \in Statuses \cup {"none"},
         server = "active" => server' = "active" /\ status = "active"
  PROVE  WayInv' /\ PlanStep
<1>1. PICK c \in Calls : call' = [call EXCEPT ![h] = c] /\ c.pc = "idle"
  BY CallEnds DEF SignIn
<1>2. faults \in 0 .. MaxFaults /\ MaxFaults \in Nat /\ url' = u /\ signedIn' = TRUE
  BY OnboardingAssumption DEF SignIn, WayInv, OnTypes, AccountTypes
<1>3. /\ profile' \in Statuses \cup {"none"} /\ lost' \in BOOLEAN /\ faults' \in 0 .. MaxFaults
      /\ profile' = status \/ lost'
  <2>1. CASE profile' = status /\ lost' = FALSE /\ UNCHANGED faults
    BY <1>2, <2>1
  <2>2. CASE profile' = "none" /\ lost' = TRUE /\ Fault
    BY <1>2, <2>2 DEF Fault
  <2> QED BY <2>1, <2>2 DEF SignIn
<1>4. AccountTypes'
  BY <1>2, <1>3 DEF SignIn, WayInv, OnTypes, AccountTypes
<1>5. Progress
  BY <1>2, <1>3 DEF Progress
<1> QED BY <1>1, <1>2, <1>4, <1>5, OneCall

LEMMA LoggedIn ==
  ASSUME WayInv, LoginAnswered
  PROVE  WayInv' /\ PlanStep
<1>1. "login" \in Handlers \ {"pick", "payment"} /\ call["login"].pc # "idle"
  BY DEF LoginAnswered, Answers, Handlers
<1>2. Inner(Return(call["login"].at)) /\ Return(call["login"].at) # <<>>
  BY <1>1, Running
<1>3. PICK u : u = Return(call["login"].at)
  OBVIOUS
<1>4. PICK status : status = server
  OBVIOUS
<1>5. SignIn("login", status, u) /\ status \in Statuses \cup {"none"} /\ server' = server
      /\ UNCHANGED <<paid, invite, joined>>
  BY <1>3, <1>4 DEF LoginAnswered, backend, WayInv, OnTypes, AccountTypes
<1> QED BY <1>1, <1>2, <1>3, <1>4, <1>5, SignedIn

LEMMA SignedUp ==
  ASSUME WayInv, SignupAnswered
  PROVE  WayInv' /\ PlanStep
<1>1. "signup" \in Handlers \ {"pick", "payment"} /\ call["signup"].pc # "idle"
  BY DEF SignupAnswered, Answers, Handlers
<1>2. PICK v : v = Tail(call["signup"].at)
  OBVIOUS
<1>3. Inner(v)
  BY <1>1, <1>2, Running
<1>4. PICK w : w = <<"verify">> \o v
  OBVIOUS
<1>5. Inner(w) /\ w # <<>> /\ Inner(<<"app">>) /\ <<"app">> # <<>>
  <2>1. "verify" \in Screens \ {"stripe", "marketing", "devSignup", "pricing"}
        /\ "app" \in Screens \ {"stripe", "marketing"}
    BY DEF Screens, Protected
  <2>2. Inner(w) /\ w # <<>>
    BY <1>3, <1>4, <2>1, InnerOf
  <2> QED BY <2>1, <2>2, InnerScreen
<1>6. PICK u : u = IF Head(call["signup"].at) = "devSignup" THEN <<"app">> ELSE w
  OBVIOUS
<1>7. SignIn("signup", "unverified", u)
  BY <1>2, <1>4, <1>6 DEF SignupAnswered
<1>8. "unverified" \in Statuses /\ server = "none" /\ server' = "unverified"
      /\ UNCHANGED <<paid, invite, joined>>
  BY DEF SignupAnswered, Statuses
<1>9. Inner(u) /\ u # <<>>
  BY <1>5, <1>6
<1> QED BY <1>1, <1>7, <1>8, <1>9, SignedIn

LEMMA Verified ==
  ASSUME WayInv, CodeAnswered
  PROVE  WayInv' /\ PlanStep
<1>1. "code" \in Handlers \ {"pick", "payment"} /\ call["code"].pc # "idle" /\ "refetch" \in Phases
  BY DEF CodeAnswered, Answers, Handlers, Phases
<1>2. /\ Inner(url) /\ url # <<>>
      /\ Inner(call["code"].at) /\ call["code"].at # <<>> /\ Head(call["code"].at) \in PageOf["code"]
  BY <1>1, Running
<1>3. CASE /\ Answers("code", "request")
           /\ Continues("code", "refetch")
           /\ server' = IF server = "unverified" THEN "unplanned" ELSE server
           /\ UNCHANGED <<url, signedIn, profile, lost, loads, faults, paid, invite, joined>>
  <2>1. PICK c \in Calls : call' = [call EXCEPT !["code"] = c] /\ c.pc = "refetch" /\ c.at = call["code"].at
    BY <1>1, <1>3, CallContinues
  <2>2. server' \in Statuses \cup {"none"} /\ (server = "active" => server' = "active")
    BY <1>3 DEF WayInv, OnTypes, AccountTypes, Statuses
  <2>3. AccountTypes' /\ Progress
    BY <1>3, <2>2 DEF WayInv, OnTypes, AccountTypes, Progress
  <2> QED BY <1>1, <1>2, <1>3, <2>1, <2>3, OneCall
<1>4. CASE /\ Answers("code", "refetch")
           /\ Refetch /\ Ends("code")
           /\ UNCHANGED <<url, signedIn, loads, backend>>
  <2>1. PICK c \in Calls : call' = [call EXCEPT !["code"] = c] /\ c.pc = "idle"
    BY <1>1, <1>4, CallEnds
  <2>2. /\ profile' \in Statuses \cup {"none"} /\ lost' \in BOOLEAN
        /\ faults' \in 0 .. MaxFaults
        /\ server = "active" => profile' = "active" \/ lost'
    BY <1>4, ProfileFetched
  <2>3. AccountTypes' /\ Progress
    BY <1>4, <2>2 DEF WayInv, OnTypes, AccountTypes, Progress, backend
  <2> QED BY <1>1, <1>2, <1>4, <2>1, <2>3, OneCall
<1> QED BY <1>3, <1>4 DEF CodeAnswered

LEMMA SentToStripe ==
  ASSUME WayInv, NEW h \in Handlers, call[h].pc # "idle", ToStripe(call[h].at),
         UNCHANGED <<loads, backend>>
  PROVE  WayInv' /\ PlanStep
<1>1. PICK v : v = Tail(call[h].at)
  OBVIOUS
<1>2. Inner(v)
  BY <1>1, Running
<1>3. PICK u : u = <<"stripe", "success">> \o v
  OBVIOUS
<1>4. Address(u) /\ Load(u)
  BY <1>1, <1>2, <1>3, StripeAddress DEF ToStripe
<1>5. UNCHANGED <<server, invite, joined>> /\ paid' \in BOOLEAN /\ loads' \in 0 .. MaxLoads
  BY DEF backend, WayInv, OnTypes, AccountTypes
<1> QED BY <1>4, <1>5, Loaded

LEMMA PlanChosen ==
  ASSUME WayInv, PlanAnswered
  PROVE  WayInv' /\ PlanStep
<1>1. "pick" \in Handlers /\ "pick" # "payment" /\ call["pick"].pc # "idle"
      /\ "refetch" \in Phases /\ "active" \in Statuses
  BY DEF PlanAnswered, Answers, Handlers, Phases, Statuses
<1>2. /\ Inner(url) /\ url # <<>>
      /\ Inner(call["pick"].at) /\ call["pick"].at # <<>> /\ Head(call["pick"].at) \in PageOf["pick"]
      /\ Inner(Return(call["pick"].at)) /\ Return(call["pick"].at) # <<>>
  BY <1>1, Running
<1>3. signedIn = TRUE
  BY <1>1 DEF WayInv, PlanKnown, OnTypes, AccountTypes
<1>4. CASE /\ Answers("pick", "request")
           /\ server' = "active" /\ Continues("pick", "refetch")
           /\ UNCHANGED <<url, signedIn, profile, lost, loads, faults, paid, invite, joined>>
  <2>1. PICK c \in Calls : call' = [call EXCEPT !["pick"] = c] /\ c.pc = "refetch" /\ c.at = call["pick"].at
    BY <1>1, <1>4, CallContinues
  <2>2. AccountTypes' /\ Progress
    BY <1>1, <1>4 DEF WayInv, OnTypes, AccountTypes, Progress
  <2> QED BY <1>1, <1>2, <1>3, <1>4, <2>1, <2>2, OneCall
<1>5. CASE /\ Answers("pick", "refetch")
           /\ Refetch /\ Ends("pick") /\ url' = Return(call["pick"].at)
           /\ UNCHANGED <<signedIn, loads, backend>>
  <2>1. PICK c \in Calls : call' = [call EXCEPT !["pick"] = c] /\ c.pc = "idle"
    BY <1>1, <1>5, CallEnds
  <2>2. /\ profile' \in Statuses \cup {"none"} /\ lost' \in BOOLEAN
        /\ faults' \in 0 .. MaxFaults
        /\ server = "active" => profile' = "active" \/ lost'
    BY <1>5, ProfileFetched
  <2>3. server = "active"
    BY <1>5 DEF WayInv, PlanKnown, Answers
  <2>4. AccountTypes' /\ Progress
    BY <1>5, <2>2 DEF WayInv, OnTypes, AccountTypes, Progress, backend
  <2> QED BY <1>1, <1>2, <1>5, <2>1, <2>2, <2>3, <2>4, OneCall
<1>6. CASE /\ Answers("pick", "request")
           /\ ToStripe(call["pick"].at)
           /\ UNCHANGED <<loads, backend>>
  BY <1>1, <1>6, SentToStripe
<1> QED BY <1>4, <1>5, <1>6 DEF PlanAnswered

LEMMA CheckoutGoesOn ==
  ASSUME WayInv, CheckoutAnswered
  PROVE  WayInv' /\ PlanStep
<1>1. "start" \in Handlers \ {"pick", "payment"} /\ call["start"].pc # "idle" /\ "active" \in Statuses
  BY DEF CheckoutAnswered, Answers, Handlers, Statuses
<1>2. CASE ToStripe(call["start"].at) /\ UNCHANGED <<loads, backend>>
  BY <1>1, <1>2, SentToStripe
<1>3. CASE /\ Ends("start")
           /\ url' = LET to == Return(call["start"].at)
                     IN IF Head(to) = "start" THEN <<"app">> ELSE to
           /\ server' = "active"
           /\ UNCHANGED <<signedIn, profile, lost, loads, faults, paid, invite, joined>>
  <2>1. PICK c \in Calls : call' = [call EXCEPT !["start"] = c] /\ c.pc = "idle"
    BY <1>1, <1>3, CallEnds
  <2>2. Inner(Return(call["start"].at)) /\ Return(call["start"].at) # <<>>
    BY <1>1, Running
  <2>3. Inner(<<"app">>) /\ <<"app">> # <<>>
    BY InnerScreen DEF Screens, Protected
  <2>4. Inner(url') /\ url' # <<>>
    BY <1>3, <2>2, <2>3
  <2>5. AccountTypes' /\ Progress
    BY <1>1, <1>3 DEF WayInv, OnTypes, AccountTypes, Progress
  <2> QED BY <1>1, <2>1, <2>4, <2>5, OneCall
<1> QED BY <1>2, <1>3 DEF CheckoutAnswered

LEMMA BackFromStripe ==
  ASSUME WayInv, StripeReturns
  PROVE  WayInv' /\ PlanStep
<1>1. PICK u : u = Tail(url)
  OBVIOUS
<1>2. Address(url) /\ Head(url) = "stripe"
  BY DEF StripeReturns, page, WayInv, OnTypes
<1>3. Address(u)
  BY <1>1, <1>2, InnerAddress DEF Address
<1>4. Load(u) /\ UNCHANGED <<server, invite, joined>> /\ paid' \in BOOLEAN /\ loads' \in 0 .. MaxLoads
  BY <1>1 DEF StripeReturns, WayInv, OnTypes, AccountTypes
<1> QED BY <1>3, <1>4, Loaded

LEMMA WebhookHandled ==
  ASSUME WayInv, StripeWebhook
  PROVE  WayInv' /\ PlanStep
<1>1. AccountTypes' /\ Progress /\ UNCHANGED call /\ url' = url
  BY DEF StripeWebhook, client, WayInv, OnTypes, AccountTypes, Progress, Statuses
<1> QED BY <1>1, NoCall

LEMMA PaymentRefused ==
  ASSUME WayInv, PaymentUnverified
  PROVE  WayInv' /\ PlanStep
<1>1. "payment" \in Handlers /\ call["payment"].pc = "request" /\ "error" \in Phases
  BY DEF PaymentUnverified, Answers, Handlers, Phases
<1>2. /\ Inner(url) /\ url # <<>>
      /\ Inner(call["payment"].at) /\ call["payment"].at # <<>>
      /\ Head(call["payment"].at) \in PageOf["payment"]
  BY <1>1, Running
<1>3. PICK c \in Calls : call' = [call EXCEPT !["payment"] = c] /\ c.pc = "error" /\ c.at = call["payment"].at
  BY <1>1, CallContinues DEF PaymentUnverified
<1>4. AccountTypes' /\ Progress /\ url' = url /\ signedIn'
  BY <1>1 DEF PaymentUnverified, backend, WayInv, OnTypes, AccountTypes, Progress, PlanKnown
<1> QED BY <1>1, <1>2, <1>3, <1>4, OneCall

LEMMA PaymentGoesOn ==
  ASSUME WayInv, PaymentAnswered
  PROVE  WayInv' /\ PlanStep
<1>1. "payment" \in Handlers /\ "payment" # "pick" /\ call["payment"].pc # "idle"
      /\ {"refetch", "timer"} \subseteq Phases /\ "active" \in Statuses
  BY DEF PaymentAnswered, Answers, Handlers, Phases, Statuses
<1>2. /\ Inner(url) /\ url # <<>>
      /\ Inner(call["payment"].at) /\ call["payment"].at # <<>>
      /\ Head(call["payment"].at) \in PageOf["payment"]
      /\ Inner(Return(call["payment"].at)) /\ Return(call["payment"].at) # <<>>
  BY <1>1, Running
<1>3. signedIn = TRUE
  BY <1>1 DEF WayInv, PlanKnown, OnTypes, AccountTypes
<1>4. CASE /\ Answers("payment", "request") /\ paid
           /\ server' = "active" /\ Continues("payment", "refetch")
           /\ UNCHANGED <<url, signedIn, profile, lost, loads, faults, paid, invite, joined>>
  <2>1. PICK c \in Calls : call' = [call EXCEPT !["payment"] = c] /\ c.pc = "refetch" /\ c.at = call["payment"].at
    BY <1>1, <1>4, CallContinues
  <2>2. AccountTypes' /\ Progress
    BY <1>1, <1>4 DEF WayInv, OnTypes, AccountTypes, Progress
  <2> QED BY <1>1, <1>2, <1>3, <1>4, <2>1, <2>2, OneCall
<1>5. CASE /\ Answers("payment", "refetch")
           /\ Refetch /\ Continues("payment", "timer")
           /\ UNCHANGED <<url, signedIn, loads, backend>>
  <2>1. PICK c \in Calls : call' = [call EXCEPT !["payment"] = c] /\ c.pc = "timer" /\ c.at = call["payment"].at
    BY <1>1, <1>5, CallContinues
  <2>2. /\ profile' \in Statuses \cup {"none"} /\ lost' \in BOOLEAN
        /\ faults' \in 0 .. MaxFaults
        /\ server = "active" => profile' = "active" \/ lost'
    BY <1>5, ProfileFetched
  <2>3. server = "active" /\ server' = server
    BY <1>5 DEF WayInv, PlanKnown, Answers, backend
  <2>4. AccountTypes' /\ Progress
    BY <1>5, <2>2 DEF WayInv, OnTypes, AccountTypes, Progress, backend
  <2> QED BY <1>1, <1>2, <1>3, <1>5, <2>1, <2>2, <2>3, <2>4, OneCall
<1>6. CASE /\ Answers("payment", "timer")
           /\ Ends("payment") /\ url' = Return(call["payment"].at)
           /\ UNCHANGED <<signedIn, profile, lost, loads, faults, backend>>
  <2>1. PICK c \in Calls : call' = [call EXCEPT !["payment"] = c] /\ c.pc = "idle"
    BY <1>1, <1>6, CallEnds
  <2>2. AccountTypes' /\ Progress
    BY <1>6 DEF WayInv, OnTypes, AccountTypes, Progress, backend
  <2>3. profile' = "active" \/ lost'
    BY <1>6 DEF WayInv, PlanKnown, Answers
  <2> QED BY <1>1, <1>2, <1>6, <2>1, <2>2, <2>3, OneCall
<1> QED BY <1>4, <1>5, <1>6 DEF PaymentAnswered

LEMMA Joined ==
  ASSUME WayInv, JoinAnswered
  PROVE  WayInv' /\ PlanStep
<1>1. "join" \in Handlers \ {"pick", "payment"} /\ call["join"].pc # "idle" /\ "timer" \in Phases
  BY DEF JoinAnswered, Answers, Handlers, Phases
<1>2. /\ Inner(url) /\ url # <<>>
      /\ Inner(call["join"].at) /\ call["join"].at # <<>> /\ Head(call["join"].at) \in PageOf["join"]
  BY <1>1, Running
<1>3. CASE /\ Answers("join", "request") /\ invite = "open"
           /\ invite' = "used" /\ joined' = TRUE
           /\ server' = IF server = "unplanned" THEN "active" ELSE server
           /\ Continues("join", "timer")
           /\ UNCHANGED <<url, signedIn, profile, lost, loads, faults, paid>>
  <2>1. PICK c \in Calls : call' = [call EXCEPT !["join"] = c] /\ c.pc = "timer" /\ c.at = call["join"].at
    BY <1>1, <1>3, CallContinues
  <2>2. server' \in Statuses \cup {"none"} /\ (server = "active" => server' = "active")
    BY <1>3 DEF WayInv, OnTypes, AccountTypes, Statuses
  <2>3. AccountTypes' /\ Progress
    BY <1>3, <2>2 DEF WayInv, OnTypes, AccountTypes, Progress
  <2> QED BY <1>1, <1>2, <1>3, <2>1, <2>3, OneCall
<1>4. CASE /\ Answers("join", "timer")
           /\ Ends("join") /\ url' = <<"app">>
           /\ UNCHANGED <<signedIn, profile, lost, loads, faults, backend>>
  <2>1. PICK c \in Calls : call' = [call EXCEPT !["join"] = c] /\ c.pc = "idle"
    BY <1>1, <1>4, CallEnds
  <2>2. AccountTypes' /\ Progress
    BY <1>4 DEF WayInv, OnTypes, AccountTypes, Progress, backend
  <2>3. Inner(<<"app">>) /\ <<"app">> # <<>>
    BY InnerScreen DEF Screens, Protected
  <2> QED BY <1>1, <1>4, <2>1, <2>2, <2>3, OneCall
<1> QED BY <1>3, <1>4 DEF JoinAnswered

LEMMA WayGoesOn ==
  ASSUME WayInv, OnboardingNext
  PROVE  WayInv' /\ PlanStep
<1>1. CASE Redirect
  BY <1>1, Redirected
<1>2. CASE FollowLink
  BY <1>2, LinkFollowed
<1>3. ASSUME NEW u \in Entries, OpenLink(u) \/ DeepLink(u)
      PROVE  WayInv' /\ PlanStep
  BY <1>3, LinkOpened
<1>4. ASSUME NEW h \in Handlers, Fails(h)
      PROVE  WayInv' /\ PlanStep
  BY <1>4, CallFailed
<1>5. CASE LeaveMarketing
  BY <1>5, MarketingLeft
<1>6. CASE LoginAnswered
  BY <1>6, LoggedIn
<1>7. CASE SignupAnswered
  BY <1>7, SignedUp
<1>8. CASE CodeAnswered
  BY <1>8, Verified
<1>9. CASE PlanAnswered
  BY <1>9, PlanChosen
<1>10. CASE CheckoutAnswered
  BY <1>10, CheckoutGoesOn
<1>11. CASE StripeReturns
  BY <1>11, BackFromStripe
<1>12. CASE StripeWebhook
  BY <1>12, WebhookHandled
<1>13. CASE PaymentUnverified
  BY <1>13, PaymentRefused
<1>14. CASE PaymentAnswered
  BY <1>14, PaymentGoesOn
<1>15. CASE JoinAnswered
  BY <1>15, Joined
<1>16. CASE LoginSubmitted \/ SignupSubmitted \/ DevSignupSubmitted \/ CodeSubmitted
            \/ PlanPicked \/ CheckoutBegins \/ PaymentBegins \/ JoinSubmitted
  <2>1. /\ Handlers = {"login", "signup", "code", "pick", "start", "payment", "join"}
        /\ "login" \in PageOf["login"] /\ {"signup", "devSignup"} \subseteq PageOf["signup"]
        /\ "verify" \in PageOf["code"] /\ "plan" \in PageOf["pick"]
        /\ "start" \in PageOf["start"] /\ "success" \in PageOf["payment"]
        /\ "join" \in PageOf["join"]
    BY DEF Handlers, PageOf
  <2>2. \E h \in Handlers : \E p \in PageOf[h] : Begins(h, p) /\ (h \in {"pick", "payment"} => signedIn)
    BY <1>16, <2>1 DEF LoginSubmitted, SignupSubmitted, DevSignupSubmitted, CodeSubmitted,
         PlanPicked, CheckoutBegins, PaymentBegins, JoinSubmitted
  <2> QED BY <2>2, CallBegins
<1> QED BY <1>1, <1>2, <1>3, <1>4, <1>5, <1>6, <1>7, <1>8, <1>9, <1>10, <1>11, <1>12,
           <1>13, <1>14, <1>15, <1>16 DEF OnboardingNext

LEMMA InviteGoesOn ==
  ASSUME WayInv, WayInv', \A e \in Entries : SoundLink(e)
  PROVE  InviteStep
<1>1. url \in Seq(Screens) /\ url' \in Seq(Screens) /\ Address(url)
      /\ (HasInvite(url) <=> On(url, "join"))
  BY InviteIs DEF WayInv, OnTypes, Address
<1>2. HasInvite(url') <=> On(url', "join")
  <2>1. PICK u \in Seq(Screens) : u = url'
    BY <1>1
  <2> QED BY <2>1, InviteIs
<1>3. ASSUME invite = "open", HasInvite(url), Redirect
      PROVE  HasInvite(url')
  BY <1>1, <1>2, <1>3, TargetIs DEF Redirect
<1>4. ASSUME HasInvite(call["login"].at), LoginAnswered
      PROVE  HasInvite(url')
  <2>1. "login" \in Handlers /\ call["login"].pc # "idle" /\ url' = Return(call["login"].at)
    BY <1>4 DEF LoginAnswered, Answers, Handlers, SignIn
  <2>2. PICK u : u = call["login"].at
    OBVIOUS
  <2>3. /\ u \in Seq(Screens) /\ u # <<>> /\ Head(u) \in PageOf["login"]
        /\ (On(Tail(u), "join") => On(Return(u), "join"))
    BY <2>1, <2>2, Running
  <2>4. Head(u) # "join" /\ On(u, "join")
    BY <1>4, <2>2, <2>3, InviteIs DEF PageOf
  <2>5. On(Return(u), "join")
    BY <2>3, <2>4, TailOf
  <2> QED BY <1>2, <2>1, <2>2, <2>5
<1>5. ASSUME HasInvite(call["signup"].at), SignupAnswered
      PROVE  HasInvite(url')
  <2>1. "signup" \in Handlers /\ call["signup"].pc # "idle"
    BY <1>5 DEF SignupAnswered, Answers, Handlers
  <2>2. PICK u : u = call["signup"].at
    OBVIOUS
  <2>3. u \in Seq(Screens) /\ u # <<>> /\ Head(u) \in PageOf["signup"] /\ Inner(u) /\ Inner(Tail(u))
    BY <2>1, <2>2, Running
  <2>4. On(u, "join") /\ SoundLink(u)
    BY <1>5, <2>2, <2>3, InviteIs DEF Inner, Whole
  <2>5. Head(u) # "devSignup" /\ Head(u) # "join" /\ On(Tail(u), "join")
    BY <2>3, <2>4, TailOf DEF SoundLink, PageOf
  <2>6. PICK v : v = Tail(u)
    OBVIOUS
  <2>7. PICK w : w = <<"verify">> \o v
    OBVIOUS
  <2>8. url' = w
    <3>1. SignIn("signup", "unverified",
                 IF Head(u) = "devSignup" THEN <<"app">> ELSE <<"verify">> \o Tail(u))
      BY <1>5, <2>2 DEF SignupAnswered
    <3>2. SignIn("signup", "unverified", w)
      BY <2>5, <2>6, <2>7, <3>1
    <3> QED BY <3>2 DEF SignIn
  <2>9. On(w, "join")
    <3>1. "verify" \in Screens \ {"stripe", "marketing", "devSignup", "pricing"}
      BY DEF Screens, Protected
    <3> QED BY <2>3, <2>5, <2>6, <2>7, <3>1, InnerOf
  <2> QED BY <1>2, <2>8, <2>9
<1> QED BY <1>3, <1>4, <1>5 DEF InviteStep

LEMMA WayStart ==
  ASSUME PagesInit
  PROVE  WayInv
<1>1. OnboardingInit
  BY DEF PagesInit
<1>2. NoCalls \in [Handlers -> Calls] /\ \A h \in Handlers : NoCalls[h].pc = "idle"
  <2>1. <<>> \in Seq(Screens)
    OBVIOUS
  <2>2. NotRunning \in Calls /\ NotRunning.pc = "idle"
    BY <2>1 DEF NotRunning, Calls, Phases
  <2> QED BY <2>2 DEF NoCalls
<1>3. Address(url)
  <2>1. PICK p \in {"signup", "join", "start"} : url = <<p>>
    BY <1>1 DEF OnboardingInit
  <2>2. p \in Screens \ {"stripe", "marketing"}
    BY DEF Screens, Protected
  <2> QED BY <2>1, <2>2, InnerScreen, InnerAddress
<1>4. AccountTypes
  <2>1. 0 \in 0 .. MaxLoads /\ 0 \in 0 .. MaxFaults
    BY OnboardingAssumption
  <2> QED BY <1>1, <2>1 DEF OnboardingInit, AccountTypes
<1>5. OnTypes /\ CallsKnown
  BY <1>1, <1>2, <1>3, <1>4 DEF OnTypes, CallsKnown, OnboardingInit
<1>6. PlanKnown
  BY <1>1, <1>2 DEF PlanKnown, OnboardingInit, Handlers
<1> QED BY <1>5, <1>6 DEF WayInv

LEMMA WayKept ==
  ASSUME WayInv, [PagesNext]_pagesVars
  PROVE  /\ WayInv'
         /\ UNCHANGED onVars \/ PlanStep
         /\ (\A e \in Entries : SoundLink(e)) => UNCHANGED onVars \/ InviteStep
<1>1. CASE UNCHANGED onVars
  BY <1>1 DEF onVars, WayInv, OnTypes, AccountTypes, CallsKnown, PlanKnown
<1>2. CASE OnboardingNext
  BY <1>2, WayGoesOn, InviteGoesOn
<1>3. UNCHANGED onVars \/ OnboardingNext
  BY DEF PagesNext, pagesVars
<1> QED BY <1>1, <1>2, <1>3

LEMMA OnboardingTypeHolds ==
  ASSUME WayInv
  PROVE  OnboardingTypeOK
<1>1. url \in Seq(Screens) \ {<<>>}
  BY DEF WayInv, OnTypes, Address
<1>2. call \in [Handlers -> [pc : {"idle", "request", "refetch", "timer", "error"}, at : Seq(Screens)]]
  BY DEF WayInv, OnTypes, Calls, Phases
<1>3. AccountTypes
  BY DEF WayInv, OnTypes
<1> QED BY <1>1, <1>2, <1>3 DEF AccountTypes, OnboardingTypeOK

(* Leaving the plan selection with the free plan, or the checkout with a      *)
(* confirmed payment, the application knows that the account is active,       *)
(* unless the profile could not be loaded.                                    *)
THEOREM PlanIsKnown == PagesSpec => ReturnsActive
<1>1. PagesInit => WayInv
  BY WayStart
<1>2. WayInv /\ [PagesNext]_pagesVars
      => WayInv' /\ [\A h \in {"pick", "payment"} :
          /\ call[h].pc \in {"refetch", "timer"}
          /\ call'[h].pc = "idle" /\ loads' = loads /\ url' # <<"marketing">>
          => profile' = "active" \/ lost']_onVars
  BY WayKept DEF PlanStep
<1> QED BY <1>1, <1>2, PTL DEF PagesSpec, ReturnsActive, pagesVars

(* An open invitation someone follows is in the address they are sent to by   *)
(* every redirect, by signing in and by signing up, whichever links lead into *)
(* the application, as long as none carries an invitation behind the pages    *)
(* that forget it.                                                            *)
THEOREM InvitationsAreKept ==
  ASSUME \A e \in Entries : SoundLink(e)
  PROVE  PagesSpec => InviteKept
<1>1. PagesInit => WayInv
  BY WayStart
<1>2. WayInv /\ [PagesNext]_pagesVars
      => WayInv' /\ [/\ invite = "open"
       /\ \/ HasInvite(url) /\ Redirect
          \/ HasInvite(call["login"].at) /\ LoginAnswered
          \/ HasInvite(call["signup"].at) /\ SignupAnswered
       => HasInvite(url')]_onVars
  BY WayKept DEF InviteStep
<1> QED BY <1>1, <1>2, PTL DEF PagesSpec, InviteKept, pagesVars
--------------------------------------------------------------------------------
(* The chats.                                                                 *)

\* A message that waits for nothing, what is saved of a thread, and what a
\* screen may show: at most one message waits, and it is the assistant's.
CleanMessage == [role : {"user", "assistant"}, of : SUBSET (0 .. MaxExchanges), pending : {FALSE}]
Clean == Seq(CleanMessage)
Saved == Clean \cup {Absent}
OneWaits(msgs) ==
    /\ msgs \in Seq(Message)
    /\ \A i, j \in 1 .. Len(msgs) : msgs[i].pending /\ msgs[j].pending => i = j
    /\ \A i \in 1 .. Len(msgs) : msgs[i].pending => msgs[i].role = "assistant" /\ msgs[i].of = {}

Places == {"assistant", "elsewhere"}
StreamSet == [id : 1 .. MaxExchanges, by : Places, thread : Threads, knew : [Threads -> Saved],
              left : Seq(Message) \cup {Absent}, calm : BOOLEAN]

StorageTypes ==
    /\ stored \in [Threads -> Saved] /\ copies \in [Threads -> Saved]
    /\ threads \in [Threads -> Saved]
    /\ last \in Threads \cup {"none"}
ScreenTypes ==
    /\ place \in Places /\ agreed \in BOOLEAN /\ typing \in BOOLEAN
    /\ current \in Threads \cup {"none"} /\ abortable \in 0 .. MaxExchanges
    /\ digest \subseteq Digests /\ asked \in 0 .. MaxExchanges

StreamTypes == \A s \in streams : s \in StreamSet /\ s.id \in 1 .. asked
LeftKnown == \A s \in streams : s.left # Absent =>
                OneWaits(s.left) /\ (s.by = "elsewhere" => s.left \in Clean)

\* The chat on screen asked what streams there; elsewhere nothing waits in
\* sight, and what waits on the assistant's page has its stream.
ScreenStands ==
    /\ OneWaits(shown)
    /\ place = "elsewhere" => shown \in Clean
    /\ \A s \in streams : OnScreen(s) => s.by = place
    /\ shown \in Clean \/ (typing /\ \E s \in streams : OnScreen(s))

\* An undisturbed answer is the only one, and its question comes right before
\* the last message.
LastAsked(msgs, n) ==
    /\ Len(msgs) >= 2 /\ msgs[Len(msgs) - 1] = Ask(n) /\ msgs[Len(msgs)].role = "assistant"
    /\ \A i \in 1 .. Len(msgs) : msgs[i].pending => i = Len(msgs)
CalmKnown == \A s \in streams : s.calm =>
                streams = {s} /\ OnScreen(s) /\ LastAsked(shown, s.id)

ChatInv == /\ StorageTypes /\ ScreenTypes /\ StreamTypes /\ LeftKnown
           /\ ScreenStands /\ CalmKnown /\ ListIsStored

\* Right behind its question.
Follows(msgs, n) == \E i \in 1 .. Len(msgs) - 1 : msgs[i] = Ask(n) /\ msgs[i + 1] = Reply(n)

LEMMA CleanIsMessage ==
  /\ CleanMessage \subseteq Message
  /\ \A m \in Message : ~m.pending => m \in CleanMessage
  /\ \A m \in CleanMessage : ~m.pending
  /\ Absent \notin Seq(Message)
<1>1. CleanMessage \subseteq Message
  BY DEF CleanMessage, Message
<1>2. ASSUME NEW m \in Message, ~m.pending
      PROVE  m \in CleanMessage
  <2>1. m.pending \in BOOLEAN
    BY DEF Message
  <2>2. m.pending = FALSE
    BY <1>2, <2>1, Zenon
  <2> QED BY <2>2 DEF Message, CleanMessage
<1>3. \A m \in CleanMessage : ~m.pending
  BY DEF CleanMessage
<1>4. Absent \notin Seq(Message)
  <2>1. SUFFICES ASSUME Absent \in Seq(Message)
                 PROVE  FALSE
    OBVIOUS
  <2>2. Len(Absent) = 1 /\ Absent[1].role = "none"
    BY DEF Absent
  <2>3. Absent[1] \in Message
    BY <2>1, <2>2, ElementOfSeq
  <2> QED BY <2>2, <2>3 DEF Message
<1> QED BY <1>1, <1>2, <1>3, <1>4

LEMMA MadeMessages ==
  ASSUME NEW n \in 0 .. MaxExchanges
  PROVE  Ask(n) \in CleanMessage /\ Reply(n) \in CleanMessage /\ Error \in CleanMessage
<1>1. 0 \in 0 .. MaxExchanges
  BY AiChatAssumption
<1> QED BY <1>1 DEF Ask, Reply, Error, CleanMessage

\* Messages without one that waits.
LEMMA CleanIs ==
  ASSUME NEW msgs
  PROVE  /\ msgs \in Clean => msgs \in Seq(Message) /\ OneWaits(msgs) /\ msgs \in Saved
         /\ msgs \in Clean => \A i \in 1 .. Len(msgs) : ~msgs[i].pending
         /\ msgs \in Seq(Message) /\ (\A i \in 1 .. Len(msgs) : ~msgs[i].pending)
               => msgs \in Clean
<1>1. ASSUME msgs \in Clean
      PROVE  /\ msgs \in Seq(Message) /\ OneWaits(msgs) /\ msgs \in Saved
             /\ \A i \in 1 .. Len(msgs) : ~msgs[i].pending
  <2>1. msgs \in Seq(Message)
    BY <1>1, CleanIsMessage, SeqMonotonic DEF Clean
  <2>2. \A i \in 1 .. Len(msgs) : ~msgs[i].pending
    BY <1>1, CleanIsMessage, ElementOfSeq DEF Clean
  <2> QED BY <1>1, <2>1, <2>2 DEF OneWaits, Saved
<1>2. ASSUME msgs \in Seq(Message), \A i \in 1 .. Len(msgs) : ~msgs[i].pending
      PROVE  msgs \in Clean
  <2>1. \A i \in 1 .. Len(msgs) : msgs[i] \in CleanMessage
    BY <1>2, CleanIsMessage, ElementOfSeq
  <2>2. Len(msgs) \in Nat /\ msgs \in [1 .. Len(msgs) -> Message]
    BY <1>2, LenProperties
  <2>3. msgs \in [1 .. Len(msgs) -> CleanMessage]
    BY <2>1, <2>2
  <2> QED BY <2>2, <2>3, SeqDef DEF Clean
<1> QED BY <1>1, <1>2

\* A message replaced, wherever it is.
LEMMA Replaced ==
  ASSUME NEW S, NEW msgs \in Seq(S), NEW x, NEW m \in S,
         NEW new, new = [msgs EXCEPT ![x] = m]
  PROVE  /\ new \in Seq(S) /\ Len(new) = Len(msgs) /\ Len(msgs) \in Nat
         /\ \A i \in 1 .. Len(msgs) : new[i] = IF i = x THEN m ELSE msgs[i]
<1>1. DOMAIN msgs = 1 .. Len(msgs) /\ Len(msgs) \in Nat
  BY LenProperties
<1>2. CASE x \in 1 .. Len(msgs)
  BY <1>1, <1>2, ExceptSeq
<1>3. CASE x \notin 1 .. Len(msgs)
  <2>1. new = msgs
    BY <1>1, <1>3
  <2> QED BY <1>1, <1>3, <2>1
<1> QED BY <1>2, <1>3

\* The message that waits is the one that is answered.
LEMMA SlotWaits ==
  ASSUME NEW msgs, OneWaits(msgs), NEW i \in 1 .. Len(msgs), msgs[i].pending
  PROVE  Slot(msgs) = i /\ i # 0
<1> DEFINE theirs == {k \in DOMAIN msgs : msgs[k].role = "assistant"}
           pending == {k \in theirs : msgs[k].pending}
<1>1. DOMAIN msgs = 1 .. Len(msgs) /\ Len(msgs) \in Nat
  BY LenProperties DEF OneWaits
<1>2. pending = {i}
  BY <1>1 DEF OneWaits
<1>3. Max({i}) = i
  BY <1>1 DEF Max
<1>4. pending # {} /\ Max(pending) = i
  BY <1>2, <1>3
<1>5. Slot(msgs) = Max(pending)
  BY <1>4 DEF Slot
<1> QED BY <1>1, <1>4, <1>5

LEMMA PutCleans ==
  ASSUME NEW msgs, OneWaits(msgs), NEW m \in CleanMessage, NEW or,
         msgs \in Clean => or \in Clean
  PROVE  Put(msgs, m, or) \in Clean
<1>1. msgs \in Seq(Message) /\ m \in Message
  BY CleanIsMessage DEF OneWaits
<1>2. CASE \E i \in 1 .. Len(msgs) : msgs[i].pending
  <2>1. PICK i \in 1 .. Len(msgs) : msgs[i].pending
    BY <1>2
  <2>2. Slot(msgs) = i /\ i # 0
    BY <2>1, SlotWaits
  <2>3. PICK new : new = [msgs EXCEPT ![i] = m]
    OBVIOUS
  <2>4. Put(msgs, m, or) = new
    BY <2>2, <2>3 DEF Put
  <2>5. /\ new \in Seq(Message) /\ Len(new) = Len(msgs)
        /\ \A k \in 1 .. Len(msgs) : new[k] = IF k = i THEN m ELSE msgs[k]
    BY <1>1, <2>3, Replaced
  <2>6. \A k \in 1 .. Len(new) : ~new[k].pending
    BY <2>1, <2>5, CleanIsMessage DEF OneWaits
  <2> QED BY <2>4, <2>5, <2>6, CleanIs
<1>3. CASE ~ \E i \in 1 .. Len(msgs) : msgs[i].pending
  <2>1. msgs \in Clean
    BY <1>1, <1>3, CleanIs
  <2>2. PICK new : new = [msgs EXCEPT ![Slot(msgs)] = m]
    OBVIOUS
  <2>3. new \in Clean
    BY <2>1, <2>2, Replaced DEF Clean
  <2> QED BY <2>1, <2>2, <2>3 DEF Put
<1> QED BY <1>2, <1>3

LEMMA AnsweredCleans ==
  ASSUME NEW by, NEW msgs, OneWaits(msgs), NEW m \in CleanMessage
  PROVE  Answered(by, msgs, m) \in Clean
<1>1. PICK or : or = IF by = "assistant" THEN Append(msgs, m) ELSE msgs
  OBVIOUS
<1>2. msgs \in Clean => or \in Clean
  BY <1>1, AppendProperties DEF Clean
<1>3. Put(msgs, m, or) \in Clean
  BY <1>2, PutCleans
<1> QED BY <1>1, <1>3 DEF Answered

LEMMA FailedCleans ==
  ASSUME NEW by, NEW msgs, OneWaits(msgs), by = "assistant" \/ msgs \in Clean
  PROVE  FailedWith(by, msgs) \in Clean
<1>1. Error \in CleanMessage
  BY MadeMessages, AiChatAssumption
<1>2. PICK or : or = Append(msgs, Error)
  OBVIOUS
<1>3. msgs \in Clean => or \in Clean
  BY <1>1, <1>2, AppendProperties DEF Clean
<1>4. Put(msgs, Error, or) \in Clean
  BY <1>1, <1>3, PutCleans
<1> QED BY <1>2, <1>3, <1>4 DEF FailedWith

LEMMA WithdrawnCleans ==
  ASSUME NEW msgs, OneWaits(msgs)
  PROVE  Withdrawn(msgs) \in Clean
<1>1. DOMAIN msgs = 1 .. Len(msgs) /\ Len(msgs) \in Nat /\ msgs \in Seq(Message)
  BY LenProperties DEF OneWaits
<1>2. CASE \E i \in DOMAIN msgs : msgs[i].pending
  <2>1. PICK i \in 1 .. Len(msgs) : msgs[i].pending
    BY <1>1, <1>2
  <2>2. Slot(msgs) = i
    BY <2>1, SlotWaits
  <2>3. msgs[i].of = {}
    BY <2>1 DEF OneWaits
  <2>4. Withdrawn(msgs) = RemoveAt(msgs, i)
    BY <1>2, <2>2, <2>3 DEF Withdrawn
  <2>5. \A k \in 1 .. Len(msgs) : k # i => msgs[k] \in CleanMessage
    BY <1>1, <2>1, CleanIsMessage, ElementOfSeq DEF OneWaits
  <2>6. SubSeq(msgs, 1, i - 1) \in Clean
    <3>1. \A k \in 1 .. i - 1 : msgs[k] \in CleanMessage
      BY <1>1, <2>5
    <3> QED BY <1>1, <3>1, SubSeqProperties DEF Clean
  <2>7. SubSeq(msgs, i + 1, Len(msgs)) \in Clean
    <3>1. \A k \in i + 1 .. Len(msgs) : msgs[k] \in CleanMessage
      BY <1>1, <2>5
    <3> QED BY <1>1, <3>1, SubSeqProperties DEF Clean
  <2>8. RemoveAt(msgs, i) \in Clean
    BY <2>6, <2>7, ConcatProperties DEF RemoveAt, Clean
  <2> QED BY <2>4, <2>8
<1>3. CASE ~ \E i \in DOMAIN msgs : msgs[i].pending
  BY <1>1, <1>3, CleanIs DEF Withdrawn
<1> QED BY <1>2, <1>3

LEMMA RecentlyIsClean ==
  ASSUME NEW msgs \in Clean
  PROVE  Recently(msgs) \in Clean
<1>1. Len(msgs) \in Nat /\ Recent \in Nat
  BY LenProperties, AiChatAssumption DEF Clean
<1>2. PICK n : n = 1 + (IF Len(msgs) > Recent THEN Len(msgs) - Recent ELSE 0)
  OBVIOUS
<1>3. n \in Int /\ n >= 1
  BY <1>1, <1>2
<1>4. \A k \in n .. Len(msgs) : msgs[k] \in CleanMessage
  BY <1>1, <1>3, ElementOfSeq DEF Clean
<1>5. SubSeq(msgs, n, Len(msgs)) \in Clean
  BY <1>1, <1>3, <1>4, SubSeqProperties DEF Clean
<1> QED BY <1>2, <1>5 DEF Recently

\* The answer to the question asked last goes to the last message.
LEMMA SlotIsLast ==
  ASSUME NEW msgs, OneWaits(msgs), NEW n, LastAsked(msgs, n)
  PROVE  Slot(msgs) = Len(msgs) /\ Slot(msgs) # 0
<1> DEFINE theirs == {k \in DOMAIN msgs : msgs[k].role = "assistant"}
           pending == {k \in theirs : msgs[k].pending}
<1>1. DOMAIN msgs = 1 .. Len(msgs) /\ Len(msgs) \in Nat /\ Len(msgs) >= 2
  BY LenProperties DEF OneWaits, LastAsked
<1>2. CASE \E i \in 1 .. Len(msgs) : msgs[i].pending
  <2>1. PICK i \in 1 .. Len(msgs) : msgs[i].pending
    BY <1>2
  <2>2. i = Len(msgs)
    BY <2>1 DEF LastAsked
  <2> QED BY <2>1, <2>2, SlotWaits
<1>3. CASE ~ \E i \in 1 .. Len(msgs) : msgs[i].pending
  <2>1. pending = {}
    BY <1>1, <1>3
  <2>2. PICK T : T = theirs
    OBVIOUS
  <2>3. \A k : k \in T <=> k \in 1 .. Len(msgs) /\ msgs[k].role = "assistant"
    BY <1>1, <2>2
  <2>4. Len(msgs) \in 1 .. Len(msgs) /\ msgs[Len(msgs)].role = "assistant"
    <3>1. msgs[Len(msgs)].role = "assistant"
      BY DEF LastAsked
    <3>2. Len(msgs) \in 1 .. Len(msgs)
      BY <1>1
    <3> QED BY <3>1, <3>2
  <2>5. Len(msgs) \in T /\ \A k \in T : Len(msgs) >= k
    BY <1>1, <2>3, <2>4
  <2>6. \A k \in T : (\A j \in T : k >= j) => k = Len(msgs)
    BY <1>1, <2>3, <2>5
  <2>7. Max(T) = Len(msgs)
    BY <2>5, <2>6 DEF Max
  <2>8. Slot(msgs) = Max(theirs)
    BY <2>1, <2>2, <2>5 DEF Slot
  <2>9. Slot(msgs) = Max(T)
    BY <2>2, <2>8
  <2> QED BY <1>1, <2>7, <2>9
<1> QED BY <1>2, <1>3

LEMMA Kept ==
  ASSUME StorageTypes, NEW s, s.thread \in Threads,
         s.by = "assistant" => s.knew \in [Threads -> Saved],
         NEW msgs \in Clean, Save(s, msgs), place' = place
  PROVE  StorageTypes' /\ ListIsStored' /\ stored'[s.thread] = msgs
<1>1. msgs \in Saved
  BY DEF Saved
<1>2. PICK base : base = IF s.by = "assistant" THEN s.knew ELSE stored
  OBVIOUS
<1>3. base \in [Threads -> Saved]
  BY <1>2 DEF StorageTypes
<1>4. stored' = [base EXCEPT ![s.thread] = msgs]
  BY <1>2 DEF Save
<1>5. stored' \in [Threads -> Saved] /\ stored'[s.thread] = msgs
  BY <1>1, <1>3, <1>4
<1>6. copies' \in [Threads -> Saved]
  BY <1>1 DEF Save, StorageTypes
<1>7. threads' \in [Threads -> Saved] /\ ListIsStored'
  BY <1>5 DEF Save, StorageTypes, ListIsStored
<1>8. last' \in Threads \cup {"none"}
  BY DEF Save, StorageTypes
<1> QED BY <1>5, <1>6, <1>7, <1>8 DEF StorageTypes

LEMMA DisturbedAre ==
  ASSUME StreamTypes
  PROVE  /\ \A d \in Disturbed(streams) : \E s \in streams :
               /\ d.id = s.id /\ d.by = s.by /\ d.left = s.left /\ d.calm = FALSE
               /\ d \in StreamSet
         /\ \A s \in streams : \E d \in Disturbed(streams) : d.left = s.left
<1>1. ASSUME NEW s \in streams, NEW d, d = [s EXCEPT !.calm = FALSE]
      PROVE  /\ d.id = s.id /\ d.by = s.by /\ d.left = s.left /\ d.calm = FALSE
             /\ d \in StreamSet
  <2>1. s \in StreamSet
    BY DEF StreamTypes
  <2> QED BY <1>1, <2>1 DEF StreamSet
<1>2. ASSUME NEW d \in Disturbed(streams)
      PROVE  \E s \in streams : /\ d.id = s.id /\ d.by = s.by /\ d.left = s.left /\ d.calm = FALSE
                                /\ d \in StreamSet
  <2>1. PICK s \in streams : d = [s EXCEPT !.calm = FALSE]
    BY DEF Disturbed
  <2> QED BY <1>1, <2>1
<1>3. ASSUME NEW s \in streams
      PROVE  \E d \in Disturbed(streams) : d.left = s.left
  <2>1. PICK d : d = [s EXCEPT !.calm = FALSE]
    OBVIOUS
  <2>2. d \in Disturbed(streams)
    BY <2>1 DEF Disturbed
  <2> QED BY <1>1, <2>1, <2>2
<1> QED BY <1>2, <1>3

\* Another conversation, or more of it, is put on screen.
LEMMA ChatShows ==
  ASSUME ChatInv, StorageTypes', ScreenTypes', ListIsStored', shown' \in Clean,
         streams' = Disturbed(streams), place' = place, asked' >= asked
  PROVE  ChatInv'
<1>1. /\ \A d \in streams' : \E s \in streams :
            /\ d.id = s.id /\ d.by = s.by /\ d.left = s.left /\ d.calm = FALSE
            /\ d \in StreamSet
  BY DisturbedAre DEF ChatInv
<1>2. StreamTypes'
  <2>1. asked \in Nat /\ asked' \in Nat /\ \A s \in streams : s.id \in 1 .. asked
    BY AiChatAssumption DEF ChatInv, ScreenTypes, StreamTypes
  <2> QED BY <1>1, <2>1 DEF StreamTypes
<1>3. LeftKnown'
  BY <1>1 DEF ChatInv, LeftKnown
<1>4. ScreenStands'
  BY <1>1, CleanIs DEF ChatInv, ScreenStands, OnScreen
<1>5. CalmKnown'
  BY <1>1 DEF CalmKnown
<1> QED BY <1>2, <1>3, <1>4, <1>5 DEF ChatInv

LEMMA ChatSame ==
  ASSUME ChatInv, StorageTypes', ScreenTypes', ListIsStored',
         UNCHANGED <<place, shown, streams, typing, asked>>
  PROVE  ChatInv'
<1>1. StreamTypes' /\ LeftKnown' /\ CalmKnown'
  BY DEF ChatInv, StreamTypes, LeftKnown, CalmKnown
<1>2. ScreenStands'
  BY DEF ChatInv, ScreenStands
<1> QED BY <1>1, <1>2 DEF ChatInv

\* An answer on screen is over, and nothing waits there any more.
LEMMA ChatEnds ==
  ASSUME ChatInv, NEW s \in streams, OnScreen(s), Ended(s), shown' \in Clean,
         StorageTypes', ListIsStored'
  PROVE  ChatInv'
<1>1. /\ streams' = streams \ {s} /\ typing' = FALSE /\ abortable' = 0
      /\ UNCHANGED <<place, agreed, current, digest, asked, moves>>
  BY DEF Ended
<1>2. ScreenTypes'
  <2>1. 0 \in 0 .. MaxExchanges
    BY AiChatAssumption
  <2> QED BY <1>1, <2>1 DEF ChatInv, ScreenTypes
<1>3. StreamTypes' /\ LeftKnown' /\ CalmKnown'
  BY <1>1 DEF ChatInv, StreamTypes, LeftKnown, CalmKnown
<1>4. ScreenStands'
  BY <1>1, CleanIs DEF ChatInv, ScreenStands
<1> QED BY <1>2, <1>3, <1>4 DEF ChatInv

LEMMA AnswerEndsKeeps ==
  ASSUME ChatInv, AnswerEnds
  PROVE  ChatInv'
<1>1. PICK s \in streams : /\ OnScreen(s) /\ Ended(s)
                           /\ shown' = Answered(s.by, shown, Reply(s.id)) /\ Save(s, shown')
  BY DEF AnswerEnds
<1>2. s \in StreamSet /\ s.id \in 0 .. MaxExchanges /\ s.thread \in Threads
      /\ s.knew \in [Threads -> Saved]
  BY DEF ChatInv, StreamTypes, StreamSet
<1>3. Reply(s.id) \in CleanMessage
  BY <1>2, MadeMessages
<1>4. shown' \in Clean
  BY <1>1, <1>3, AnsweredCleans DEF ChatInv, ScreenStands
<1>5. place' = place
  BY <1>1 DEF Ended
<1>6. StorageTypes' /\ ListIsStored'
  <2>1. PICK msgs : msgs = shown'
    OBVIOUS
  <2>2. StorageTypes /\ Save(s, msgs) /\ msgs \in Clean
    BY <1>1, <1>4, <2>1 DEF ChatInv
  <2> QED BY <1>2, <1>5, <2>2, Kept
<1> QED BY <1>1, <1>4, <1>6, ChatEnds

LEMMA AnswerFailsKeeps ==
  ASSUME ChatInv, AnswerFails
  PROVE  ChatInv'
<1>1. PICK s \in streams :
         /\ OnScreen(s) /\ Ended(s)
         /\ shown' = FailedWith(s.by, shown)
         /\ IF s.by = "assistant"
            THEN copies' = [copies EXCEPT ![s.thread] = shown'] /\ UNCHANGED <<stored, last, threads>>
            ELSE Save(s, shown')
  BY DEF AnswerFails
<1>2. s \in StreamSet /\ s.thread \in Threads /\ s.knew \in [Threads -> Saved] /\ s.by \in Places
  BY DEF ChatInv, StreamTypes, StreamSet
<1>3. s.by = "assistant" \/ shown \in Clean
  BY <1>1, <1>2 DEF ChatInv, ScreenStands, Places
<1>4. shown' \in Clean
  BY <1>1, <1>3, FailedCleans DEF ChatInv, ScreenStands
<1>5. place' = place
  BY <1>1 DEF Ended
<1>6. CASE s.by = "assistant"
  <2>1. shown' \in Saved
    BY <1>4 DEF Saved
  <2>2. StorageTypes' /\ ListIsStored'
    BY <1>1, <1>5, <1>6, <2>1 DEF ChatInv, StorageTypes, ListIsStored
  <2> QED BY <1>1, <1>4, <2>2, ChatEnds
<1>7. CASE s.by # "assistant"
  <2>1. PICK msgs : msgs = shown'
    OBVIOUS
  <2>2. StorageTypes /\ Save(s, msgs) /\ msgs \in Clean
    BY <1>1, <1>4, <1>7, <2>1 DEF ChatInv
  <2>3. StorageTypes' /\ ListIsStored'
    BY <1>2, <1>5, <2>2, Kept
  <2> QED BY <1>1, <1>4, <2>3, ChatEnds
<1> QED BY <1>6, <1>7

LEMMA StoppedKeeps ==
  ASSUME ChatInv, Stopped
  PROVE  ChatInv'
<1>1. PICK s \in streams :
         /\ OnScreen(s) /\ Ended(s)
         /\ IF s.by = "assistant"
            THEN shown' = Withdrawn(shown) /\ copies' = [copies EXCEPT ![s.thread] = shown']
            ELSE UNCHANGED <<shown, copies>>
         /\ UNCHANGED <<stored, last, threads>>
  BY DEF Stopped
<1>2. s \in StreamSet /\ s.by \in Places
  BY DEF ChatInv, StreamTypes, StreamSet
<1>3. place' = place
  BY <1>1 DEF Ended
<1>4. shown' \in Clean
  <2>1. CASE s.by = "assistant"
    BY <1>1, <2>1, WithdrawnCleans DEF ChatInv, ScreenStands
  <2>2. CASE s.by # "assistant"
    BY <1>1, <1>2, <2>2 DEF ChatInv, ScreenStands, Places
  <2> QED BY <2>1, <2>2
<1>5. StorageTypes' /\ ListIsStored'
  <2>1. shown' \in Saved
    BY <1>4 DEF Saved
  <2> QED BY <1>1, <1>3, <2>1 DEF ChatInv, StorageTypes, ListIsStored
<1> QED BY <1>1, <1>4, <1>5, ChatEnds

LEMMA LeftBehindKeeps ==
  ASSUME ChatInv, LeftBehind
  PROVE  ChatInv'
<1>1. PICK s \in streams :
         /\ ~OnScreen(s) /\ Ended(s)
         /\ \/ LET msgs == Answered(s.by, s.left, Reply(s.id)) IN
               /\ Save(s, msgs)
               /\ shown' = IF <<s.by, place, current>> = <<"elsewhere", "assistant", s.thread>>
                           THEN msgs ELSE shown
            \/ UNCHANGED <<storage, threads, shown>>
  BY DEF LeftBehind
<1>2. /\ s \in StreamSet /\ s.thread \in Threads /\ s.knew \in [Threads -> Saved]
      /\ s.id \in 0 .. MaxExchanges
  BY DEF ChatInv, StreamTypes, StreamSet
<1>3. PICK msgs : msgs = Answered(s.by, s.left, Reply(s.id))
  OBVIOUS
<1>4. msgs \in Clean
  <2>1. Reply(s.id) \in CleanMessage
    BY <1>2, MadeMessages
  <2>2. OneWaits(s.left)
    BY <1>1 DEF ChatInv, LeftKnown, OnScreen
  <2> QED BY <1>3, <2>1, <2>2, AnsweredCleans
<1>5. /\ streams' = streams \ {s}
      /\ UNCHANGED <<typing, abortable, place, agreed, current, digest, asked, moves>>
  BY <1>1 DEF Ended
<1>6. StorageTypes' /\ ListIsStored' /\ (shown' \in Clean \/ shown' = shown)
  <2>1. CASE Save(s, msgs) /\ (shown' = msgs \/ shown' = shown)
    <3>1. StorageTypes' /\ ListIsStored'
      BY <1>2, <1>4, <1>5, <2>1, Kept DEF ChatInv
    <3> QED BY <1>4, <2>1, <3>1
  <2>2. CASE UNCHANGED <<storage, threads, shown>>
    BY <1>5, <2>2 DEF storage, ChatInv, StorageTypes, ListIsStored
  <2> QED BY <1>1, <1>3, <2>1, <2>2
<1>7. ScreenTypes'
  BY <1>5 DEF ChatInv, ScreenTypes
<1>8. StreamTypes' /\ LeftKnown'
  BY <1>5 DEF ChatInv, StreamTypes, LeftKnown
<1>9. CalmKnown'
  BY <1>1, <1>5 DEF ChatInv, CalmKnown
<1>10. ScreenStands'
  <2>1. \A u \in streams' : OnScreen(u) => u.by = place'
    BY <1>5 DEF ChatInv, ScreenStands
  <2>2. CASE shown' \in Clean
    BY <2>1, <2>2, CleanIs DEF ScreenStands
  <2>3. CASE shown' = shown
    <3>1. (\E u \in streams : OnScreen(u)) => \E u \in streams' : OnScreen(u)
      BY <1>1, <1>5
    <3> QED BY <1>5, <2>1, <2>3, <3>1 DEF ChatInv, ScreenStands
  <2> QED BY <1>6, <2>2, <2>3
<1> QED BY <1>6, <1>7, <1>8, <1>9, <1>10 DEF ChatInv

LEMMA ChunkKeeps ==
  ASSUME ChatInv, Chunk
  PROVE  ChatInv'
<1>1. PICK s \in streams : shown' = Put(shown, [shown[Slot(shown)] EXCEPT !.of = @ \cup {s.id}, !.pending = FALSE], shown)
  BY DEF Chunk
<1>2. /\ Slot(shown) # 0
      /\ UNCHANGED <<place, agreed, storage, threads, current, typing, abortable, streams,
                     digest, asked, moves>>
  BY DEF Chunk
<1>3. PICK k : k = Slot(shown)
  OBVIOUS
<1>4. PICK m : m = [shown[k] EXCEPT !.of = @ \cup {s.id}, !.pending = FALSE]
  OBVIOUS
<1>5. shown' = Put(shown, m, shown) /\ shown' = [shown EXCEPT ![k] = m]
  BY <1>1, <1>2, <1>3, <1>4 DEF Put
<1>6. OneWaits(shown) /\ shown \in Seq(Message) /\ s.id \in 0 .. MaxExchanges
  BY DEF ChatInv, ScreenStands, OneWaits, StreamTypes, StreamSet
<1>7. ASSUME k \in 1 .. Len(shown)
      PROVE  m \in CleanMessage /\ m.role = shown[k].role
  <2>1. PICK o : o = shown[k]
    OBVIOUS
  <2>2. o \in Message
    BY <1>6, <1>7, <2>1, ElementOfSeq
  <2>3. m = [o EXCEPT !.of = @ \cup {s.id}, !.pending = FALSE]
    BY <1>4, <2>1
  <2>4. m \in CleanMessage /\ m.role = o.role
    BY <1>6, <2>2, <2>3 DEF Message, CleanMessage
  <2> QED BY <2>1, <2>4
<1>8. shown' \in Clean \/ shown' = shown
  <2>1. CASE k \in 1 .. Len(shown)
    <3>1. m \in CleanMessage
      BY <1>7, <2>1
    <3>2. PICK or \in Clean : or = <<>>
      BY EmptySeq DEF Clean
    <3>3. Put(shown, m, or) \in Clean
      BY <1>6, <3>1, <3>2, PutCleans
    <3>4. Put(shown, m, or) = shown'
      BY <1>2, <1>3, <1>5 DEF Put
    <3> QED BY <3>3, <3>4
  <2>2. CASE k \notin 1 .. Len(shown)
    <3>1. DOMAIN shown = 1 .. Len(shown)
      BY <1>6, LenProperties
    <3> QED BY <1>5, <1>6, <2>2, <3>1
  <2> QED BY <2>1, <2>2
<1>9. StorageTypes' /\ ScreenTypes' /\ ListIsStored' /\ StreamTypes' /\ LeftKnown'
  BY <1>2 DEF storage, ChatInv, StorageTypes, ScreenTypes, ListIsStored, StreamTypes, LeftKnown
<1>10. ScreenStands'
  <2>1. CASE shown' \in Clean
    BY <1>2, <2>1, CleanIs DEF ChatInv, ScreenStands
  <2>2. CASE shown' = shown
    BY <1>2, <2>2 DEF ChatInv, ScreenStands
  <2> QED BY <1>8, <2>1, <2>2
<1>11. CalmKnown'
  <2>1. SUFFICES ASSUME NEW u \in streams, u.calm
                 PROVE  streams = {u} /\ OnScreen(u) /\ LastAsked(shown', u.id)
    BY <1>2 DEF CalmKnown
  <2>2. streams = {u} /\ OnScreen(u) /\ LastAsked(shown, u.id)
    BY <2>1 DEF ChatInv, CalmKnown
  <2>3. k = Len(shown) /\ Len(shown) \in Nat /\ Len(shown) >= 2
    BY <1>3, <1>6, <2>2, SlotIsLast, LenProperties DEF LastAsked
  <2>4. m \in CleanMessage /\ m.role = "assistant"
    BY <1>7, <2>2, <2>3 DEF LastAsked
  <2>5. /\ Len(shown') = Len(shown)
        /\ \A i \in 1 .. Len(shown) : shown'[i] = IF i = k THEN m ELSE shown[i]
    <3>1. m \in Message
      BY <2>4, CleanIsMessage
    <3>2. PICK new : new = shown'
      OBVIOUS
    <3>3. new = [shown EXCEPT ![k] = m]
      BY <1>5, <3>2
    <3>4. Len(new) = Len(shown) /\ \A i \in 1 .. Len(shown) : new[i] = IF i = k THEN m ELSE shown[i]
      BY <1>6, <3>1, <3>3, Replaced
    <3> QED BY <3>2, <3>4
  <2>6. ~m.pending
    BY <2>4, CleanIsMessage
  <2> QED BY <2>2, <2>3, <2>4, <2>5, <2>6 DEF LastAsked
<1> QED BY <1>9, <1>10, <1>11 DEF ChatInv

LEMMA Questions ==
  ASSUME NEW msgs \in Clean, NEW n \in 0 .. MaxExchanges, place \in Places,
         NEW new, new = msgs \o <<Ask(n), Awaited>>
  PROVE  /\ OneWaits(new) /\ LastAsked(new, n)
         /\ place = "elsewhere" => new \in Clean
<1>1. /\ Awaited.role = "assistant" /\ Awaited.of = {}
      /\ Awaited.pending = (place = "assistant") /\ Awaited \in Message
  <2>1. (place = "assistant") \in BOOLEAN
    OBVIOUS
  <2>2. Awaited.role = "assistant" /\ Awaited.of = {} /\ Awaited.pending = (place = "assistant")
    BY DEF Awaited
  <2>3. PICK b \in BOOLEAN : b = (place = "assistant")
    BY <2>1
  <2>4. Awaited = [role |-> "assistant", of |-> {}, pending |-> b]
    BY <2>3 DEF Awaited
  <2>5. Awaited \in Message
    BY <2>4 DEF Message
  <2> QED BY <2>2, <2>5
<1>2. PICK w : w = Awaited
  OBVIOUS
<1>3. Ask(n) \in CleanMessage /\ Ask(n) \in Message /\ ~Ask(n).pending
  BY MadeMessages, CleanIsMessage
<1>4. PICK two : two = <<Ask(n), w>>
  OBVIOUS
<1>5. two \in Seq(Message) /\ Len(two) = 2 /\ two[1] = Ask(n) /\ two[2] = w
  BY <1>1, <1>2, <1>3, <1>4
<1>6. msgs \in Seq(Message) /\ Len(msgs) \in Nat /\ \A i \in 1 .. Len(msgs) : ~msgs[i].pending
  BY CleanIs, LenProperties
<1>7. /\ new \in Seq(Message) /\ Len(new) = Len(msgs) + 2
      /\ \A i \in 1 .. Len(msgs) + 2 : new[i] = IF i <= Len(msgs) THEN msgs[i] ELSE two[i - Len(msgs)]
  BY <1>2, <1>4, <1>5, <1>6, ConcatProperties
<1>8. /\ \A i \in 1 .. Len(msgs) : new[i] = msgs[i]
      /\ new[Len(msgs) + 1] = Ask(n) /\ new[Len(msgs) + 2] = w
  BY <1>5, <1>6, <1>7
<1>9. \A i \in 1 .. Len(new) : new[i].pending => i = Len(new) /\ w.pending
  <2> SUFFICES ASSUME NEW i \in 1 .. Len(new), new[i].pending
               PROVE  i = Len(new) /\ w.pending
    OBVIOUS
  <2>1. CASE i \in 1 .. Len(msgs)
    BY <1>6, <1>8, <2>1
  <2>2. CASE i = Len(msgs) + 1
    BY <1>3, <1>8, <2>2
  <2>3. CASE i = Len(msgs) + 2
    BY <1>7, <1>8, <2>3
  <2> QED BY <1>6, <1>7, <2>1, <2>2, <2>3
<1>10. OneWaits(new)
  <2>1. new[Len(new)] = w
    BY <1>7, <1>8
  <2> QED BY <1>1, <1>2, <1>7, <1>9, <2>1 DEF OneWaits
<1>11. LastAsked(new, n)
  <2>1. Len(new) >= 2 /\ Len(new) - 1 = Len(msgs) + 1 /\ Len(new) = Len(msgs) + 2
    BY <1>6, <1>7
  <2> QED BY <1>1, <1>2, <1>8, <1>9, <2>1 DEF LastAsked
<1>12. place = "elsewhere" => new \in Clean
  <2>1. place = "elsewhere" => ~w.pending
    BY <1>1, <1>2
  <2> QED BY <1>7, <1>9, <2>1, CleanIs
<1> QED BY <1>10, <1>11, <1>12

LEMMA SendKeeps ==
  ASSUME ChatInv, Send
  PROVE  ChatInv'
<1>1. /\ ComposerOn \/ StarterOn \/ QuickInputOn
      /\ asked < MaxExchanges /\ asked' = asked + 1
      /\ shown' = shown \o <<Ask(asked + 1), Awaited>>
      /\ typing' = TRUE /\ abortable' = asked + 1
      /\ UNCHANGED <<place, agreed, stored, copies, threads, digest, moves>>
  BY DEF Send
<1>2. PICK t \in IF current = "none" THEN Fresh ELSE {current} :
          /\ current' = t /\ last' = IF current = "none" THEN t ELSE last
          /\ streams' = Disturbed(streams) \cup
                {[id |-> asked + 1, by |-> place, thread |-> t, knew |-> threads,
                  left |-> Absent, calm |-> streams = {}]}
  BY DEF Send
<1>3. t \in Threads
  BY <1>2 DEF Fresh, ChatInv, ScreenTypes
<1>4. /\ asked \in 0 .. MaxExchanges /\ asked + 1 \in 1 .. MaxExchanges
      /\ asked + 1 \in 0 .. MaxExchanges /\ asked \in Nat /\ MaxExchanges \in Nat
  BY <1>1, AiChatAssumption DEF ChatInv, ScreenTypes
<1>5. shown \in Clean /\ place \in Places
  <2>1. <<>> \in Clean
    BY EmptySeq DEF Clean
  <2> QED BY <1>1, <2>1 DEF ComposerOn, StarterOn, QuickInputOn, ChatInv, ScreenStands, ScreenTypes
<1>6. OneWaits(shown') /\ LastAsked(shown', asked + 1) /\ (place = "elsewhere" => shown' \in Clean)
  <2>1. PICK n \in 0 .. MaxExchanges : n = asked + 1
    BY <1>4
  <2>2. PICK new : new = shown \o <<Ask(n), Awaited>>
    OBVIOUS
  <2>3. OneWaits(new) /\ LastAsked(new, n) /\ (place = "elsewhere" => new \in Clean)
    BY <1>5, <2>2, Questions
  <2>4. shown' = new
    BY <1>1, <2>1, <2>2
  <2> QED BY <2>1, <2>3, <2>4
<1>7. PICK b \in BOOLEAN : b = (streams = {})
  OBVIOUS
<1>8. PICK s : s = [id |-> asked + 1, by |-> place, thread |-> t, knew |-> threads,
                    left |-> Absent, calm |-> b]
  OBVIOUS
<1>9. /\ s \in StreamSet /\ s.id = asked + 1 /\ s.by = place /\ s.left = Absent
      /\ s.calm <=> streams = {}
  BY <1>3, <1>4, <1>5, <1>7, <1>8 DEF StreamSet, ChatInv, StorageTypes
<1>10. streams' = Disturbed(streams) \cup {s}
  BY <1>2, <1>7, <1>8
<1>11. /\ \A d \in Disturbed(streams) : \E u \in streams :
            /\ d.id = u.id /\ d.by = u.by /\ d.left = u.left /\ d.calm = FALSE
            /\ d \in StreamSet
  BY DisturbedAre DEF ChatInv
<1>12. StorageTypes' /\ ListIsStored'
  BY <1>1, <1>2, <1>3 DEF ChatInv, StorageTypes, ListIsStored
<1>13. ScreenTypes'
  BY <1>1, <1>2, <1>3, <1>4 DEF ChatInv, ScreenTypes
<1>14. StreamTypes'
  <2>1. \A u \in streams : u.id \in 1 .. asked
    BY DEF ChatInv, StreamTypes
  <2>2. \A d \in Disturbed(streams) : d.id \in 1 .. asked + 1
    BY <1>4, <1>11, <2>1
  <2> QED BY <1>1, <1>4, <1>9, <1>10, <1>11, <2>2 DEF StreamTypes
<1>15. LeftKnown'
  BY <1>9, <1>10, <1>11 DEF ChatInv, LeftKnown
<1>16. ScreenStands'
  BY <1>1, <1>6, <1>9, <1>10, <1>11 DEF ChatInv, ScreenStands, OnScreen
<1>17. CalmKnown'
  <2>1. SUFFICES ASSUME NEW u \in streams', u.calm
                 PROVE  streams' = {u} /\ OnScreen(u) /\ LastAsked(shown', u.id)
    BY DEF CalmKnown
  <2>2. u = s
    BY <1>10, <1>11, <2>1
  <2>3. Disturbed(streams) = {}
    BY <1>9, <2>1, <2>2 DEF Disturbed
  <2> QED BY <1>6, <1>9, <1>10, <2>2, <2>3 DEF OnScreen
<1> QED BY <1>12, <1>13, <1>14, <1>15, <1>16, <1>17 DEF ChatInv

LEMMA QuickUploadKeeps ==
  ASSUME ChatInv, QuickUpload
  PROVE  ChatInv'
<1>1. /\ place = "elsewhere" /\ asked < MaxExchanges /\ asked' = asked + 1
      /\ streams' = Disturbed(streams)
      /\ UNCHANGED <<place, agreed, typing, abortable, digest, moves>>
  BY DEF QuickUpload
<1>2. PICK t \in IF current = "none" THEN Fresh ELSE {current} :
          LET note == shown \o <<Ask(asked + 1), Reply(asked + 1)>> IN
          /\ current' = t /\ shown' = note
          /\ Save([by |-> "elsewhere", thread |-> t, knew |-> threads], note)
  BY DEF QuickUpload
<1>3. t \in Threads
  BY <1>2 DEF Fresh, ChatInv, ScreenTypes
<1>4. asked \in Nat /\ asked + 1 \in 0 .. MaxExchanges
  BY <1>1, AiChatAssumption DEF ChatInv, ScreenTypes
<1>5. PICK two : two = <<Ask(asked + 1), Reply(asked + 1)>>
  OBVIOUS
<1>6. two \in Clean /\ shown \in Clean
  <2>1. PICK n \in 0 .. MaxExchanges : n = asked + 1
    BY <1>4
  <2>2. Ask(n) \in CleanMessage /\ Reply(n) \in CleanMessage
    BY MadeMessages
  <2>3. two = <<Ask(n), Reply(n)>>
    BY <1>5, <2>1
  <2> QED BY <1>1, <2>2, <2>3 DEF Clean, ChatInv, ScreenStands
<1>7. PICK msgs : msgs = shown \o two
  OBVIOUS
<1>8. msgs \in Clean
  BY <1>6, <1>7, ConcatProperties DEF Clean
<1>9. PICK s : s = [by |-> "elsewhere", thread |-> t, knew |-> threads]
  OBVIOUS
<1>10. s.thread = t /\ s.by = "elsewhere" /\ Save(s, msgs) /\ shown' = msgs /\ current' = t
  BY <1>2, <1>5, <1>7, <1>9
<1>11. StorageTypes' /\ ListIsStored'
  BY <1>1, <1>3, <1>8, <1>10, Kept DEF ChatInv
<1>12. ScreenTypes'
  BY <1>1, <1>3, <1>4, <1>10 DEF ChatInv, ScreenTypes
<1> QED BY <1>1, <1>4, <1>8, <1>10, <1>11, <1>12, ChatShows

LEMMA HeaderKeeps ==
  ASSUME ChatInv, NewChat \/ SelectThread \/ SelectDigest \/ DigestAnswered \/ DeleteThread
                  \/ AcceptPrivacy \/ QuickOpen
  PROVE  ChatInv'
<1>1. /\ StorageTypes /\ ScreenTypes /\ ListIsStored /\ Fresh \subseteq Threads
      /\ Digests \subseteq Threads /\ <<>> \in Clean /\ Absent \in Saved
      /\ asked \in Nat
  BY AiChatAssumption, EmptySeq DEF ChatInv, Fresh, Clean, Saved, ScreenTypes
<1>2. CASE NewChat
  <2>1. PICK t \in Fresh : Shows(t, <<>>) /\ last' = t
    BY <1>2 DEF NewChat
  <2>2. UNCHANGED <<place, agreed, stored, copies, threads, typing, abortable, digest, asked>>
    BY <1>2 DEF NewChat
  <2>3. StorageTypes' /\ ScreenTypes' /\ ListIsStored'
    BY <1>1, <2>1, <2>2 DEF Shows, StorageTypes, ScreenTypes, ListIsStored
  <2>4. shown' \in Clean /\ streams' = Disturbed(streams)
    BY <1>1, <2>1 DEF Shows
  <2> QED BY <1>1, <2>2, <2>3, <2>4, ChatShows
<1>3. CASE SelectThread
  <2>1. PICK t \in Threads \ Digests : Listed(t) /\ Shows(t, threads[t]) /\ last' = t
    BY <1>3 DEF SelectThread
  <2>2. UNCHANGED <<place, agreed, stored, copies, threads, typing, abortable, digest, asked>>
    BY <1>3 DEF SelectThread
  <2>3. StorageTypes' /\ ScreenTypes' /\ ListIsStored'
    BY <1>1, <2>1, <2>2 DEF Shows, StorageTypes, ScreenTypes, ListIsStored
  <2>4. shown' \in Clean /\ streams' = Disturbed(streams)
    BY <1>1, <2>1 DEF Shows, Listed, StorageTypes, Saved
  <2> QED BY <1>1, <2>2, <2>3, <2>4, ChatShows
<1>4. CASE SelectDigest
  <2>1. PICK t \in Digests : current' = t /\ digest' = digest \cup {t}
    BY <1>4 DEF SelectDigest
  <2>2. UNCHANGED <<place, agreed, storage, threads, shown, typing, abortable, streams, asked>>
    BY <1>4 DEF SelectDigest
  <2>3. StorageTypes' /\ ScreenTypes' /\ ListIsStored'
    BY <1>1, <2>1, <2>2 DEF storage, StorageTypes, ScreenTypes, ListIsStored
  <2> QED BY <2>2, <2>3, ChatSame
<1>5. CASE DigestAnswered
  <2>1. PICK t \in digest : digest' = digest \ {t} /\ Shows(current, <<Reply(0)>>)
    BY <1>5 DEF DigestAnswered
  <2>2. UNCHANGED <<place, agreed, storage, threads, typing, abortable, asked, moves>>
    BY <1>5 DEF DigestAnswered
  <2>3. <<Reply(0)>> \in Clean
    <3>1. Reply(0) \in CleanMessage
      BY AiChatAssumption, MadeMessages
    <3> QED BY <3>1 DEF Clean
  <2>4. StorageTypes' /\ ScreenTypes' /\ ListIsStored'
    BY <1>1, <2>1, <2>2 DEF Shows, storage, StorageTypes, ScreenTypes, ListIsStored
  <2>5. shown' \in Clean /\ streams' = Disturbed(streams)
    BY <2>1, <2>3 DEF Shows
  <2> QED BY <1>1, <2>2, <2>4, <2>5, ChatShows
<1>6. CASE DeleteThread
  <2>1. PICK t \in Threads \ Digests :
            /\ threads' = [threads EXCEPT ![t] = Absent] /\ stored' = threads'
            /\ copies' = [copies EXCEPT ![t] = Absent]
            /\ IF current = t THEN \E n \in Fresh : Shows(n, <<>>) /\ last' = n
                              ELSE UNCHANGED <<screen, streams, last>>
    BY <1>6 DEF DeleteThread
  <2>2. UNCHANGED <<place, agreed, typing, abortable, digest, asked>>
    BY <1>6 DEF DeleteThread
  <2>3. CASE \E n \in Fresh : Shows(n, <<>>) /\ last' = n
    <3>1. PICK n \in Fresh : Shows(n, <<>>) /\ last' = n
      BY <2>3
    <3>2. StorageTypes' /\ ScreenTypes' /\ ListIsStored'
      BY <1>1, <2>1, <2>2, <3>1 DEF Shows, StorageTypes, ScreenTypes, ListIsStored
    <3>3. shown' \in Clean /\ streams' = Disturbed(streams)
      BY <1>1, <3>1 DEF Shows
    <3> QED BY <1>1, <2>2, <3>2, <3>3, ChatShows
  <2>4. CASE UNCHANGED <<screen, streams, last>>
    <3>1. StorageTypes' /\ ScreenTypes' /\ ListIsStored'
      BY <1>1, <2>1, <2>2, <2>4 DEF screen, StorageTypes, ScreenTypes, ListIsStored
    <3> QED BY <2>2, <2>4, <3>1, ChatSame DEF screen
  <2> QED BY <2>1, <2>3, <2>4
<1>7. CASE AcceptPrivacy
  <2>1. StorageTypes' /\ ScreenTypes' /\ ListIsStored'
    BY <1>1, <1>7 DEF AcceptPrivacy, screen, storage, StorageTypes, ScreenTypes, ListIsStored
  <2> QED BY <1>7, <2>1, ChatSame DEF AcceptPrivacy, screen
<1>8. CASE QuickOpen
  <2>1. /\ place = "elsewhere" /\ last # "none"
        /\ UNCHANGED <<place, agreed, storage, threads, typing, abortable, digest, asked, moves>>
        /\ current' = last /\ streams' = Disturbed(streams)
        /\ shown' = IF copies[last] \in {Absent, <<>>} THEN shown ELSE Recently(copies[last])
    BY <1>8 DEF QuickOpen, Shows
  <2>2. StorageTypes' /\ ScreenTypes' /\ ListIsStored'
    BY <1>1, <2>1 DEF storage, StorageTypes, ScreenTypes, ListIsStored
  <2>3. shown' \in Clean
    <3>1. CASE copies[last] \in {Absent, <<>>}
      BY <2>1, <3>1 DEF ChatInv, ScreenStands
    <3>2. CASE copies[last] \notin {Absent, <<>>}
      <4>1. copies[last] \in Clean
        BY <1>1, <2>1, <3>2 DEF StorageTypes, Saved
      <4> QED BY <2>1, <3>2, <4>1, RecentlyIsClean
    <3> QED BY <3>1, <3>2
  <2> QED BY <1>1, <2>1, <2>2, <2>3, ChatShows
<1> QED BY <1>2, <1>3, <1>4, <1>5, <1>6, <1>7, <1>8

LEMMA MoveKeeps ==
  ASSUME ChatInv, Move
  PROVE  ChatInv'
<1>1. /\ place' = IF place = "assistant" THEN "elsewhere" ELSE "assistant"
      /\ streams' = {[s EXCEPT !.left = IF OnScreen(s) THEN shown ELSE @, !.calm = FALSE]
                      : s \in streams}
      /\ typing' = FALSE /\ abortable' = 0 /\ digest' = {}
      /\ threads' = stored
      /\ IF place' = "assistant" /\ last # "none" /\ copies[last] # Absent
         THEN current' = last /\ shown' = copies[last]
         ELSE current' = "none" /\ shown' = <<>>
      /\ UNCHANGED <<agreed, storage, asked>>
  BY DEF Move
<1>2. StorageTypes' /\ ListIsStored'
  BY <1>1 DEF storage, ChatInv, StorageTypes, ListIsStored
<1>3. ScreenTypes'
  <2>1. place' \in Places /\ agreed' \in BOOLEAN /\ typing' \in BOOLEAN /\ digest' \subseteq Digests
    BY <1>1 DEF ChatInv, ScreenTypes, Places
  <2>2. 0 \in 0 .. MaxExchanges
    BY AiChatAssumption
  <2>3. current' \in Threads \cup {"none"}
    BY <1>1 DEF ChatInv, StorageTypes
  <2>4. asked' \in 0 .. MaxExchanges
    BY <1>1 DEF ChatInv, ScreenTypes
  <2> QED BY <1>1, <2>1, <2>2, <2>3, <2>4 DEF ScreenTypes
<1>4. shown' \in Clean
  <2>1. <<>> \in Clean
    BY EmptySeq DEF Clean
  <2> QED BY <1>1, <2>1 DEF ChatInv, StorageTypes, Saved
<1>5. \A d \in streams' : \E s \in streams :
        /\ d.id = s.id /\ d.by = s.by /\ d.calm = FALSE /\ d \in StreamSet
        /\ d.left = IF OnScreen(s) THEN shown ELSE s.left
  <2>1. SUFFICES ASSUME NEW s \in streams, NEW d,
                        d = [s EXCEPT !.left = IF OnScreen(s) THEN shown ELSE @, !.calm = FALSE]
                 PROVE  /\ d.id = s.id /\ d.by = s.by /\ d.calm = FALSE /\ d \in StreamSet
                        /\ d.left = IF OnScreen(s) THEN shown ELSE s.left
    BY <1>1
  <2>2. PICK to : to = IF OnScreen(s) THEN shown ELSE s.left
    OBVIOUS
  <2>3. s \in StreamSet /\ to \in Seq(Message) \cup {Absent}
    BY <2>2 DEF ChatInv, StreamTypes, StreamSet, ScreenStands, OneWaits
  <2>4. d = [s EXCEPT !.left = to, !.calm = FALSE]
    BY <2>1, <2>2
  <2>5. d.id = s.id /\ d.by = s.by /\ d.calm = FALSE /\ d \in StreamSet /\ d.left = to
    BY <2>3, <2>4 DEF StreamSet
  <2> QED BY <2>2, <2>5
<1>6. StreamTypes'
  BY <1>1, <1>5 DEF ChatInv, StreamTypes
<1>7. LeftKnown'
  <2>1. SUFFICES ASSUME NEW d \in streams', d.left # Absent
                 PROVE  OneWaits(d.left) /\ (d.by = "elsewhere" => d.left \in Clean)
    BY DEF LeftKnown
  <2>2. PICK s \in streams : d.by = s.by /\ d.left = IF OnScreen(s) THEN shown ELSE s.left
    BY <1>5
  <2>3. CASE OnScreen(s)
    BY <2>2, <2>3 DEF ChatInv, ScreenStands
  <2>4. CASE ~OnScreen(s)
    BY <2>2, <2>4 DEF ChatInv, LeftKnown, OnScreen
  <2> QED BY <2>3, <2>4
<1>8. ScreenStands'
  <2>1. \A d \in streams' : ~OnScreen(d)
    <3>1. shown # Absent
      BY CleanIsMessage DEF ChatInv, ScreenStands, OneWaits
    <3> QED BY <1>5, <3>1 DEF OnScreen
  <2> QED BY <1>4, <2>1, CleanIs DEF ScreenStands
<1>9. CalmKnown'
  BY <1>5 DEF CalmKnown
<1> QED BY <1>2, <1>3, <1>6, <1>7, <1>8, <1>9 DEF ChatInv

LEMMA ChatStart ==
  ASSUME PagesInit
  PROVE  ChatInv
<1>1. AiChatInit
  BY DEF PagesInit
<1>2. 0 \in 0 .. MaxExchanges /\ <<>> \in Clean /\ Absent \in Saved
  BY AiChatAssumption, EmptySeq DEF Clean, Saved
<1>3. StorageTypes
  BY <1>1, <1>2 DEF AiChatInit, StorageTypes
<1>4. ScreenTypes
  BY <1>1, <1>2 DEF AiChatInit, ScreenTypes, Places
<1>5. ScreenStands
  BY <1>1, <1>2, CleanIs DEF AiChatInit, ScreenStands
<1> QED BY <1>1, <1>3, <1>4, <1>5
        DEF AiChatInit, ChatInv, StreamTypes, LeftKnown, CalmKnown, ListIsStored

LEMMA ChatKept ==
  ASSUME ChatInv, [PagesNext]_pagesVars
  PROVE  ChatInv'
<1>1. AiChatNext \/ UNCHANGED acVars
  BY DEF PagesNext, pagesVars
<1>2. CASE AiChatNext
  BY <1>2, SendKeeps, ChunkKeeps, AnswerEndsKeeps, AnswerFailsKeeps, StoppedKeeps,
     LeftBehindKeeps, QuickUploadKeeps, HeaderKeeps, MoveKeeps DEF AiChatNext
<1>3. CASE UNCHANGED acVars
  <2>1. StorageTypes' /\ ScreenTypes' /\ ListIsStored'
    BY <1>3 DEF acVars, ChatInv, StorageTypes, ScreenTypes, ListIsStored
  <2> QED BY <1>3, <2>1, ChatSame DEF acVars
<1> QED BY <1>1, <1>2, <1>3

LEMMA AnswerFollows ==
  ASSUME ChatInv, AnswerEnds, NEW u \in streams \ streams', u.calm
  PROVE  Follows(stored'[u.thread], u.id)
<1>1. PICK s \in streams : /\ OnScreen(s) /\ Ended(s)
                           /\ shown' = Answered(s.by, shown, Reply(s.id)) /\ Save(s, shown')
  BY DEF AnswerEnds
<1>2. u = s /\ place' = place
  BY <1>1 DEF Ended
<1>3. s \in StreamSet /\ s.id \in 0 .. MaxExchanges /\ s.thread \in Threads
      /\ s.knew \in [Threads -> Saved]
  BY DEF ChatInv, StreamTypes, StreamSet
<1>4. OneWaits(shown) /\ LastAsked(shown, s.id) /\ shown \in Seq(Message)
  BY <1>2 DEF ChatInv, ScreenStands, CalmKnown, OneWaits
<1>5. Reply(s.id) \in CleanMessage /\ Reply(s.id) \in Message
  BY <1>3, MadeMessages, CleanIsMessage
<1>6. Slot(shown) = Len(shown) /\ Slot(shown) # 0
  BY <1>4, SlotIsLast
<1>7. PICK new : new = shown'
  OBVIOUS
<1>8. PICK k : k = Len(shown)
  OBVIOUS
<1>9. new = [shown EXCEPT ![k] = Reply(s.id)]
  BY <1>1, <1>6, <1>7, <1>8 DEF Answered, Put
<1>10. /\ Len(new) = k /\ k \in Nat /\ k >= 2
       /\ \A i \in 1 .. k : new[i] = IF i = k THEN Reply(s.id) ELSE shown[i]
  <2>1. /\ Len(new) = Len(shown) /\ Len(shown) \in Nat
        /\ \A i \in 1 .. Len(shown) : new[i] = IF i = k THEN Reply(s.id) ELSE shown[i]
    BY <1>4, <1>5, <1>9, Replaced
  <2> QED BY <1>4, <1>8, <2>1 DEF LastAsked
<1>11. new[k - 1] = Ask(s.id) /\ new[k] = Reply(s.id)
  <2>1. shown[k - 1] = Ask(s.id)
    BY <1>4, <1>8 DEF LastAsked
  <2>2. k - 1 \in 1 .. k /\ k - 1 # k /\ k \in 1 .. k
    BY <1>10
  <2> QED BY <1>10, <2>1, <2>2
<1>12. Follows(new, s.id)
  <2>1. k - 1 \in 1 .. Len(new) - 1 /\ k - 1 + 1 = k
    BY <1>10
  <2> QED BY <1>11, <2>1 DEF Follows
<1>13. stored'[s.thread] = new
  <2>1. new \in Clean
    BY <1>1, <1>4, <1>5, <1>7, AnsweredCleans
  <2>2. Save(s, new)
    BY <1>1, <1>7
  <2> QED BY <1>2, <1>3, <2>1, <2>2, Kept DEF ChatInv
<1> QED BY <1>2, <1>12, <1>13

LEMMA ChatTypeHolds ==
  ASSUME ChatInv
  PROVE  AiChatTypeOK
<1>1. Saved \subseteq Seq(Message) \cup {Absent}
  BY CleanIs DEF Saved
<1>2. \A t \in Threads : {stored[t], copies[t], threads[t]} \subseteq Seq(Message) \cup {Absent}
  BY <1>1 DEF ChatInv, StorageTypes
<1>3. shown \in Seq(Message)
  BY DEF ChatInv, ScreenStands, OneWaits
<1>4. \A s \in streams : s.id \in 1 .. asked /\ s.thread \in Threads
  BY DEF ChatInv, StreamTypes, StreamSet
<1>5. last \in Threads \cup {"none"}
  BY DEF ChatInv, StorageTypes
<1> QED BY <1>2, <1>3, <1>4, <1>5 DEF ChatInv, ScreenTypes, Places, AiChatTypeOK

(* What the assistant lists is what the next page load will find, and no      *)
(* message waits on screen for an answer when no answer is on its way,        *)
(* whatever was asked, stopped, deleted and left meanwhile.                   *)
THEOREM ThreadsStayAgreed == PagesSpec => []ThreadsAgree
<1>1. ChatInv /\ [PagesNext]_pagesVars => ChatInv'
  BY ChatKept
<1>2. ChatInv => ThreadsAgree
  <2>1. SUFFICES ASSUME ChatInv, streams = {}
                 PROVE  \A i \in DOMAIN shown : ~shown[i].pending
    BY DEF ChatInv, ThreadsAgree, NoGhost
  <2>2. shown \in Clean
    BY <2>1 DEF ChatInv, ScreenStands
  <2> QED BY <2>2, CleanIs, LenProperties DEF Clean
<1> QED BY <1>1, <1>2, ChatStart, PTL DEF PagesSpec, pagesVars

(* An answer whose conversation stayed on screen, with no other question      *)
(* under way, is saved in that conversation right behind its question.        *)
THEOREM AnswersStandBehind == PagesSpec => AnswersFollowQuestions
<1>1. ChatInv /\ [PagesNext]_pagesVars => ChatInv'
  BY ChatKept
<1>2. ChatInv /\ [PagesNext]_pagesVars =>
        [AnswerEnds => \A s \in streams \ streams' : s.calm =>
          LET msgs == stored'[s.thread]
          IN \E i \in 1 .. Len(msgs) - 1 :
                msgs[i] = Ask(s.id) /\ msgs[i + 1] = Reply(s.id)]_acVars
  BY AnswerFollows DEF Follows
<1> QED BY <1>1, <1>2, ChatStart, PTL DEF PagesSpec, pagesVars, AnswersFollowQuestions

--------------------------------------------------------------------------------
(* Whatever part is open, the state of every part is of its type.             *)
THEOREM PagesAreTyped == PagesSpec => []PagesTypeOK
<1>1. PagesInit => LinkedInv /\ RowsInv /\ WayInv /\ ChatInv
  BY LinkedStart, TransactionsStart, WayStart, ChatStart
<1>2. LinkedInv /\ RowsInv /\ WayInv /\ ChatInv /\ [PagesNext]_pagesVars
        => LinkedInv' /\ RowsInv' /\ WayInv' /\ ChatInv'
  BY LinkedKept, TransactionsKept, WayKept, ChatKept
<1>3. LinkedInv /\ RowsInv /\ WayInv /\ ChatInv => PagesTypeOK
  BY LinkedTypeHolds, TransactionsTypeHolds, OnboardingTypeHolds, ChatTypeHolds DEF PagesTypeOK
<1> QED BY <1>1, <1>2, <1>3, PTL DEF PagesSpec, pagesVars
================================================================================
