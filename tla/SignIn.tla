------------------------------- MODULE SignIn -------------------------------
(* Signing in, signing up and binding a login method without a password:   *)
(* codes sent by email, and the OAuth round trip through a provider.       *)
(* A login method is a subject of a provider; resolving it finds or makes  *)
(* the account it stands for.  internal/api/account_auth.go,               *)
(* account_oauth.go and internal/repository/account_auth.go.               *)
EXTENDS Naturals, FiniteSets

CONSTANTS
    Member,         \* accounts that exist, with a password
    Newcomer,       \* accounts that signing up may create
    Email,          \* subjects of the provider "email"
    Foreign,        \* subjects of one OAuth provider
    Browser,
    Nobody,         \* no account, and a request without a session
    NoSubject,
    Challenge,      \* ids of challenges, 1..n, used in order
    Flow,           \* OAuth round trips, 1..n, used in order
    PublicSignup,   \* cfg.Auth.PublicRegistration
    Guesses,        \* wrong codes a challenge survives
    PerEmail,       \* challenges an address may have within an hour
    SiteWide,       \* challenges the site may send within an hour
    Cooldown, CodeLife, Hour, StateLife, TicketLife, MaxTime

VARIABLES
    now, account, identity, challenge, flow,
    linker          \* history: who asked for a link, and who was present

vars == <<now, account, identity, challenge, flow, linker>>

Account == Member \cup Newcomer
Subject == Email \cup Foreign

\* Bounds and times are numbers, and a ticket lives no longer than a state.
SignInAssumption ==
    /\ Nobody \notin Account /\ NoSubject \notin Subject
    /\ Guesses \in Nat /\ MaxTime \in Nat
    /\ StateLife \in Nat /\ TicketLife \in 0..StateLife

NoChallenge == [email |-> NoSubject, bind |-> Nobody, made |-> 0,
                wrong |-> 0, consumed |-> FALSE, mail |-> "none", uses |-> 0]
NoFlow == [stage |-> "none", browser |-> "-", bind |-> Nobody,
           present |-> Nobody, subject |-> NoSubject, until |-> 0, uses |-> 0]

TypeOK ==
    /\ now \in 0..MaxTime
    /\ account \subseteq Account
    /\ identity \in [Subject -> Account \cup {Nobody}]
    /\ challenge \in [Challenge ->
         [email : Email \cup {NoSubject}, bind : Account \cup {Nobody},
          made : 0..MaxTime, wrong : 0..Guesses, consumed : BOOLEAN,
          mail : {"none", "sending", "sent", "failing", "failed"}, uses : 0..2]]
    /\ flow \in [Flow ->
         [stage : {"none", "state", "asking", "completion", "resolving", "over"},
          browser : Browser \cup {"-"}, bind : Account \cup {Nobody},
          present : Account \cup {Nobody},
          subject : Foreign \cup {NoSubject},
          until : 0..(MaxTime + StateLife), uses : 0..2]]
    /\ linker \in [Subject -> {<<>>} \cup ((Account \cup {Nobody}) \X
                                           (Account \cup {Nobody}))]

Init ==
    /\ now = 0
    /\ account = Member
    /\ identity = [s \in Subject |-> Nobody]
    /\ challenge = [c \in Challenge |-> NoChallenge]
    /\ flow = [f \in Flow |-> NoFlow]
    /\ linker = [s \in Subject |-> <<>>]

-----------------------------------------------------------------------------
\* Resolving a subject, in one transaction under the advisory lock of the
\* subject: the account it has, the account to bind it to, or a new one.

ProviderOf(s) == IF s \in Email THEN Email ELSE Foreign

Resolved(s, bind) ==
    {u \in Account :
        IF identity[s] # Nobody THEN u = identity[s] /\ bind \in {Nobody, u}
        ELSE IF bind # Nobody
        THEN u = bind /\ \A t \in ProviderOf(s) : identity[t] # bind
        ELSE PublicSignup /\ u \in Newcomer \ account}

ResolveIdentity(s, asked, present, u) ==
    /\ account' = account \cup {u}
    /\ identity' = [identity EXCEPT ![s] = u]
    /\ linker' = [linker EXCEPT ![s] = IF identity[s] = Nobody
                                       THEN <<asked, present>> ELSE @]

-----------------------------------------------------------------------------
\* A code by email.

Recent(c, age) == challenge[c].mail # "none" /\ challenge[c].made + age > now

MaySend(e) ==
    /\ \A c \in Challenge : Recent(c, Cooldown) => challenge[c].email # e
    /\ Cardinality({c \in Challenge : Recent(c, Hour) /\ challenge[c].email = e})
         < PerEmail
    /\ Cardinality({c \in Challenge : Recent(c, Hour)}) < SiteWide

\* The budgets are checked and the challenge stored under one global lock;
\* the challenge is committed before the mail is sent.
EmailCode(c, e, u) ==
    /\ challenge[c] = NoChallenge
    /\ \A d \in Challenge : d < c => challenge[d] # NoChallenge
    /\ MaySend(e)
    /\ challenge' = [challenge EXCEPT ![c] =
         [NoChallenge EXCEPT !.email = e, !.bind = u, !.made = now, !.mail = "sending"]]
    /\ UNCHANGED <<now, account, identity, flow, linker>>

\* The mail server takes the mail or the call fails, delivered or not.
Delivery(c) ==
    /\ challenge[c].mail = "sending"
    /\ \E m \in {"sent", "failing"} : challenge' = [challenge EXCEPT ![c].mail = m]
    /\ UNCHANGED <<now, account, identity, flow, linker>>

\* A failed send consumes the challenge, unless that fails too.
InvalidateEmail(c) ==
    /\ challenge[c].mail = "failing"
    /\ \E done \in BOOLEAN :
         challenge' = [challenge EXCEPT ![c].mail = "failed",
                                        ![c].consumed = @ \/ done]
    /\ UNCHANGED <<now, account, identity, flow, linker>>

Open(c, u) ==
    /\ challenge[c].mail # "none"
    /\ challenge[c].bind = u
    /\ ~challenge[c].consumed
    /\ challenge[c].wrong < Guesses
    /\ now < challenge[c].made + CodeLife

WrongCode(c, u) ==
    /\ Open(c, u)
    /\ challenge' = [challenge EXCEPT ![c].wrong = @ + 1]
    /\ UNCHANGED <<now, account, identity, flow, linker>>

SpentTwice(ch) == [ch EXCEPT !.uses = IF @ < 2 THEN @ + 1 ELSE @]
\* The right code resolves the address and is spent, in one transaction: if
\* the address cannot be resolved the challenge stays open.
Spent(ch) == [ch EXCEPT !.consumed = TRUE, !.uses = IF @ < 2 THEN @ + 1 ELSE @]

RightCode(c, u) ==
    /\ Open(c, u)
    /\ \E a \in Resolved(challenge[c].email, u) :
         ResolveIdentity(challenge[c].email, challenge[c].bind, u, a)
    /\ challenge' = [challenge EXCEPT ![c] = Spent(@)]
    /\ UNCHANGED <<now, flow>>

-----------------------------------------------------------------------------
\* The OAuth round trip.  A token of a flow is taken by deleting its row, so
\* that of two requests with one token only the first finds it.

OAuthStart(f, b, u) ==
    /\ flow[f] = NoFlow
    /\ \A g \in Flow : g < f => flow[g] # NoFlow
    /\ flow' = [flow EXCEPT ![f] =
         [NoFlow EXCEPT !.stage = "state", !.browser = b, !.bind = u,
                        !.until = now + StateLife]]
    /\ UNCHANGED <<now, account, identity, challenge, linker>>

TakeFlow(f, kind, b) ==
    flow[f].stage = kind /\ flow[f].browser = b /\ now < flow[f].until

OAuthCallback(f, b) ==
    /\ TakeFlow(f, "state", b)
    /\ flow' = [flow EXCEPT ![f].stage = "asking"]
    /\ UNCHANGED <<now, account, identity, challenge, linker>>

\* The provider names the subject and a ticket takes the place of the state,
\* or the round trip ends here.
ProviderAnswer(f) ==
    /\ flow[f].stage = "asking"
    /\ \/ \E s \in Foreign :
            flow' = [flow EXCEPT ![f].stage = "completion", ![f].subject = s,
                                 ![f].until = now + TicketLife]
       \/ flow' = [flow EXCEPT ![f].stage = "over"]
    /\ UNCHANGED <<now, account, identity, challenge, linker>>

\* The ticket is spent before the session of the request is compared with
\* the account that began: a changed account ends the flow.
SameAccount(f, u) == u = flow[f].bind

OAuthExchange(f, b, u) ==
    /\ TakeFlow(f, "completion", b)
    /\ flow' = [flow EXCEPT
         ![f].stage = IF SameAccount(f, u) THEN "resolving" ELSE "over",
         ![f].present = u,
         ![f].uses = IF @ < 2 THEN @ + 1 ELSE @]
    /\ UNCHANGED <<now, account, identity, challenge, linker>>

FinishExchange(f) ==
    /\ flow[f].stage = "resolving"
    /\ flow' = [flow EXCEPT ![f].stage = "over"]
    /\ LET s == flow[f].subject
           found == Resolved(s, flow[f].bind)
       IN  \/ found = {} /\ UNCHANGED <<account, identity, linker>>
           \/ \E u \in found : ResolveIdentity(s, flow[f].bind, flow[f].present, u)
    /\ UNCHANGED <<now, challenge>>

-----------------------------------------------------------------------------
Tick ==
    /\ now < MaxTime
    /\ now' = now + 1
    /\ UNCHANGED <<account, identity, challenge, flow, linker>>

Next ==
    \/ \E c \in Challenge, u \in account \cup {Nobody} :
         \/ \E e \in Email : EmailCode(c, e, u)
         \/ WrongCode(c, u)
         \/ RightCode(c, u)
    \/ \E c \in Challenge : Delivery(c) \/ InvalidateEmail(c)
    \/ \E f \in Flow, b \in Browser, u \in account \cup {Nobody} :
         OAuthStart(f, b, u) \/ OAuthExchange(f, b, u)
    \/ \E f \in Flow, b \in Browser : OAuthCallback(f, b)
    \/ \E f \in Flow : ProviderAnswer(f) \/ FinishExchange(f)
    \/ Tick

Spec == Init /\ [][Next]_vars

-----------------------------------------------------------------------------
\* A code and a ticket each sign in at most once, whatever requests present
\* them together (VerifyEmailChallenge's row lock, TakeFlow's DELETE).
SingleUse ==
    /\ \A c \in Challenge : challenge[c].uses <= 1
    /\ \A f \in Flow : flow[f].uses <= 1

\* A login method belongs to the account that asked for the link and was
\* signed in when it was made, or to an account made for it by somebody who
\* was signed in as nobody: a session that changes while the provider is
\* asked links nothing (OAuthExchange), nor does a code asked for by another.
LinkedByOwner ==
    \A s \in Subject : identity[s] # Nobody =>
        \/ linker[s] = <<identity[s], identity[s]>>
        \/ linker[s] = <<Nobody, Nobody>> /\ identity[s] \in Newcomer

\* A login method never changes hands, and one account is made for it however
\* many requests resolve it at once.
MethodKeptStep ==
    \A s \in Subject : identity[s] # Nobody => identity'[s] = identity[s]
MethodKept == [][MethodKeptStep]_vars
OneAccountEach == \A u \in account \ Member : \E s \in Subject : identity[s] = u
=============================================================================
