------------------------------- MODULE Sharing -------------------------------
(* Public links to articles: a link shows what the article was when it was     *)
(* shared, until it is revoked or expires.  internal/api/share.go,             *)
(* internal/repository/share.go.                                               *)
EXTENDS Naturals, FiniteSets

CONSTANTS
    Owner,
    Code,               \* public IDs and short codes, drawn in pairs
    MaxAttempts,        \* drawings before a creation gives up
    MaxTime, MaxVersion    \* bounds

VARIABLES
    now,
    article,        \* the version of an article, and whether it can be shared
    share,          \* the article_shares rows, by code
    creating        \* creations under way

vars == <<now, article, share, creating>>

SharingAssumption == "none" \notin Owner /\ MaxTime \in Nat /\ MaxVersion \in Nat

Version == 0..MaxVersion                \* 0: no text, or not ready
Never == MaxTime + 1
NoShare == [by |-> "none", snapshot |-> 0, expires |-> 0, revoked |-> FALSE]
Resting == [on |-> FALSE, snapshot |-> 0, expires |-> 0, attempt |-> 0]

TypeOK ==
    /\ now \in 0..MaxTime /\ article \in Version
    /\ \A c \in Code : share[c].by \in Owner \cup {"none"} /\ share[c].snapshot \in Version
    /\ \A o \in Owner : creating[o].attempt \in 0..MaxAttempts

Init ==
    /\ now = 0 /\ article \in Version
    /\ share = [c \in Code |-> NoShare] /\ creating = [o \in Owner |-> Resting]

Tick ==
    /\ now < MaxTime /\ now' = now + 1
    /\ UNCHANGED <<article, share, creating>>

\* Summaries, repairs and captures rewrite the article.
Edit ==
    /\ article < MaxVersion /\ article' = article + 1
    /\ UNCHANGED <<now, share, creating>>

-----------------------------------------------------------------------------
\* A snapshot of what the owner sees now, with an expiry in the future or none.
Create(o) ==
    /\ creating[o] = Resting /\ article > 0
    /\ \E e \in (now + 1)..Never :
         creating' = [creating EXCEPT ![o] = [on |-> TRUE, snapshot |-> article,
                                              expires |-> e, attempt |-> 0]]
    /\ UNCHANGED <<now, article, share>>

Free(c) == share[c] = NoShare

\* Draw a code; a row that has it already, live or not, makes it draw again.
CreateWithShortCode(o) ==
    LET q == creating[o] IN
    /\ q.on /\ \E c \in Code :
         IF Free(c)
         THEN /\ share' = [share EXCEPT ![c] = [by |-> o, snapshot |-> q.snapshot,
                                                expires |-> q.expires, revoked |-> FALSE]]
              /\ creating' = [creating EXCEPT ![o] = Resting]
         ELSE /\ creating' = [creating EXCEPT ![o] = IF q.attempt + 1 = MaxAttempts
                                                     THEN Resting ELSE [q EXCEPT !.attempt = @ + 1]]
              /\ UNCHANGED share
    /\ UNCHANGED <<now, article>>

\* The owner's own links only; a second revocation changes nothing.
Revoke(o, c) ==
    /\ share[c].by = o /\ share' = [share EXCEPT ![c].revoked = TRUE]
    /\ UNCHANGED <<now, article, creating>>

-----------------------------------------------------------------------------
\* Anyone with the link is shown the snapshot, or nothing.
GetActive(c) == share[c] # NoShare /\ ~share[c].revoked /\ share[c].expires > now

GetPublic(c) == IF GetActive(c) THEN share[c].snapshot ELSE 0

Next ==
    \/ Tick \/ Edit
    \/ \E o \in Owner : \/ Create(o) \/ CreateWithShortCode(o)
                        \/ \E c \in Code : Revoke(o, c)

Spec == Init /\ [][Next]_vars

-----------------------------------------------------------------------------
\* A link that was handed out shows one and the same text, whatever becomes of
\* the article, and once it is revoked or expired it never works again: not for
\* another share that draws the same code, nor by a second revocation.
LinkSettledStep ==
    \A c \in Code : share[c] # NoShare =>
      GetPublic(c)' \in {0, GetPublic(c)} /\ share'[c].by = share[c].by
LinkSettled == [][LinkSettledStep]_vars
=============================================================================
