------------------------------ MODULE MCReaders ------------------------------
(* Small instances of the parts that keep accounts and readers' data, checked  *)
(* together.  The parts share no state, so a behaviour is one of a single      *)
(* part, and the variables of the module are slots that each part reads under  *)
(* its own names.                                                              *)
EXTENDS Naturals

CONSTANTS
    Parts,     \* the parts a run checks
    Passes,    \* times the worker classifies
    Tags       \* made and restored

VARIABLES
    part,           \* the part this behaviour is of
    s1, s2, s3, s4, s5, s6, s7, s8, s9, s10

vars == <<part, s1, s2, s3, s4, s5, s6, s7, s8, s9, s10>>

\* The slots a part leaves out keep one value.
Spare10 == s10 = 0
Spare9 == s9 = 0 /\ Spare10
Spare8 == s8 = 0 /\ Spare9
Spare7 == s7 = 0 /\ Spare8
Spare6 == s6 = 0 /\ Spare7
Spare5 == s5 = 0 /\ Spare6
Spare4 == s4 = 0 /\ Spare5
Spare3 == s3 = 0 /\ Spare4
Keep3 == UNCHANGED <<s3, s4, s5, s6, s7, s8, s9, s10>>
Keep4 == UNCHANGED <<s4, s5, s6, s7, s8, s9, s10>>
Keep5 == UNCHANGED <<s5, s6, s7, s8, s9, s10>>
Keep6 == UNCHANGED <<s6, s7, s8, s9, s10>>
Keep7 == UNCHANGED <<s7, s8, s9, s10>>
Keep8 == UNCHANGED <<s8, s9, s10>>
Keep9 == UNCHANGED <<s9, s10>>
Keep10 == UNCHANGED <<s10>>

\* What the model answers of an article: a category of the list, or none of it.
Answers == {[topic |-> "T", tags |-> {"x"}, category |-> "news"],
            [topic |-> "T", tags |-> {"x", "y"}, category |-> "none"]}

SI == INSTANCE SignIn WITH
    now <- s1, account <- s2, identity <- s3, challenge <- s4, flow <- s5,
    linker <- s6,
    Member <- {"m1"}, Newcomer <- {"n1", "n2"}, Email <- {"e1"},
    Foreign <- {"g1"}, Browser <- {"b1"}, Nobody <- "nobody",
    NoSubject <- "none", Challenge <- {1, 2}, Flow <- {1},
    PublicSignup <- TRUE, Guesses <- 1, PerEmail <- 2, SiteWide <- 2,
    Cooldown <- 1, CodeLife <- 1, Hour <- 2, StateLife <- 1, TicketLife <- 1,
    MaxTime <- 1
RG == INSTANCE Registration WITH
    now <- s1, user <- s2, invite <- s3, share <- s4, lock <- s5,
    request <- s6, origin <- s7,
    Name <- {"admin", "u1", "u2"}, Admin <- "admin", Request <- {"r1", "r2"},
    NoCode <- "no code", NoName <- "no name", Invite <- {"c1"},
    Share <- {"x1"}, TestUsers <- 2, InviteLife <- 2, ShareLife <- 1,
    MaxTime <- 1
TK == INSTANCE Tokens WITH
    now <- s1, refresh <- s2, access <- s3, request <- s4,
    User <- {"u1"}, Request <- {"r1"}, Refresh <- {"t1"}, Nobody <- "nobody",
    NoToken <- "no token", TokenTTL <- 2, RenewBefore <- 2, RefreshTTL <- 2,
    MaxTime <- 4
AG == INSTANCE AuthGuard WITH
    now <- s1, bucket <- s2, request <- s3, admitted <- s4,
    Request <- {"r1", "r2"}, Action <- {"register"},
    Bucket <- {"network", "action", "site", "enrol"},
    Limit <- [b \in {"network", "action", "site", "enrol"} |-> IF b = "network" THEN 2 ELSE 1],
    Slots <- 2, Window <- 2, MaxTime <- 3
TX == INSTANCE RequestTx WITH
    request <- s1, db <- s2,
    Request <- {"r1"}
SH == INSTANCE Sharing WITH
    now <- s1, article <- s2, share <- s3, creating <- s4,
    Owner <- {"o", "p"}, Code <- {"c", "d"}, MaxAttempts <- 2, MaxTime <- 2,
    MaxVersion <- 2
SC == INSTANCE Shortcut WITH
    now <- s1, pairing <- s2, connection <- s3, request <- s4, owner <- s5,
    sharers <- s6, spent <- s7, captured <- s8,
    Request <- {"r1", "r2", "r3", "r4"}, Secret <- {"k1", "k2", "k3"},
    Nobody <- "nobody", MaxTime <- 1
SA == INSTANCE ShareAssets WITH
    content <- s1, i <- s2, normalStart <- s3, result <- s4,
    MaxLen <- 5
RD == INSTANCE Reading WITH
    row <- s1, saves <- s2, lock <- s3, req <- s4, undo <- s5, events <- s6,
    Article <- {1, 2}, Scopes <- {{1, 2}}, Request <- {"r1", "r2", "r3"},
    Nobody <- "nobody", Started <- {1}, MaxSaves <- 1
PF == INSTANCE Profile WITH
    class <- s1, signal <- s2, weight <- s3, tag <- s4, bound <- s5,
    dismissed <- s6, req <- s7, work <- s8, passes <- s9, ever <- s10,
    User <- {"u1"}, Article <- {1}, Request <- {"r1"}, Name <- {"x", "y"},
    Kind <- {"like", "dislike"}, Answer <- Answers, None <- "none",
    Similar <- {<<"x", "x">>, <<"y", "y">>}, Generic <- {"y"},
    MaxSignals <- 1, MaxTags <- 2, MaxPasses <- Passes
BF == INSTANCE BackupFiles WITH
    now <- s1, file <- s2, written <- s3, run <- s4, migration <- s5,
    crashes <- s6,
    Process <- {"server", "worker"}, KeepAll <- 1, Weekly <- 3, Week <- 2,
    Month <- 3, MaxTime <- 4, MaxCrashes <- 1
RS == INSTANCE Restore WITH
    feed <- s1, article <- s2, tag <- s3, link <- s4, note <- s5,
    serial <- s6, disk <- s7, expected <- s8,
    User <- {"u", "v"}, Nobody <- "nobody", Url <- {"a"}, Name <- {"x"},
    MaxArticle <- 1, MaxTag <- Tags, MaxArchives <- 1

-----------------------------------------------------------------------------
Init ==
    /\ part \in Parts
    /\ \/ part = "sign-in" /\ SI!Init /\ Spare7
       \/ part = "registration" /\ RG!Init /\ Spare8
       \/ part = "tokens" /\ TK!Init /\ Spare5
       \/ part = "guard" /\ AG!Init /\ Spare5
       \/ part = "request" /\ TX!Init /\ Spare3
       \/ part = "sharing" /\ SH!Init /\ Spare5
       \/ part = "shortcut" /\ SC!Init /\ Spare9
       \/ part = "share page" /\ SA!Init /\ Spare5
       \/ part = "reading" /\ RD!Init /\ Spare7
       \/ part = "profile" /\ PF!Init
       \/ part = "backup" /\ BF!Init /\ Spare7
       \/ part = "restore" /\ RS!Init /\ Spare9

Next ==
    /\ UNCHANGED part
    /\ \/ part = "sign-in" /\ SI!Next /\ Keep7
       \/ part = "registration" /\ RG!Next /\ Keep8
       \/ part = "tokens" /\ TK!Next /\ Keep5
       \/ part = "guard" /\ AG!Next /\ Keep5
       \/ part = "request" /\ TX!Next /\ Keep3
       \/ part = "sharing" /\ SH!Next /\ Keep5
       \/ part = "shortcut" /\ SC!Next /\ Keep9
       \/ part = "share page" /\ SA!Next /\ Keep5
       \/ part = "reading" /\ RD!Next /\ Keep7
       \/ part = "profile" /\ PF!Next
       \/ part = "backup" /\ BF!Next /\ Keep7
       \/ part = "restore" /\ RS!Next /\ Keep9

Spec == Init /\ [][Next]_vars

-----------------------------------------------------------------------------
TypeOK ==
    /\ part \in Parts
    /\ SI!SignInAssumption /\ RG!RegistrationAssumption /\ TK!TokensAssumption
    /\ AG!GuardAssumption /\ SH!SharingAssumption /\ SC!ShortcutAssumption
    /\ RD!ReadingAssumption /\ PF!ProfileAssumption /\ BF!RetentionAssumption
    /\ RS!RestoreAssumption
    /\ part = "sign-in" => SI!TypeOK
    /\ part = "registration" => RG!TypeOK
    /\ part = "tokens" => TK!TypeOK
    /\ part = "guard" => AG!TypeOK
    /\ part = "request" => TX!TypeOK
    /\ part = "sharing" => SH!TypeOK
    /\ part = "shortcut" => SC!TypeOK
    /\ part = "share page" => SA!TypeOK
    /\ part = "reading" => RD!TypeOK
    /\ part = "profile" => PF!TypeOK
    /\ part = "backup" => BF!TypeOK
    /\ part = "restore" => RS!TypeOK

(* However its requests interleave and time out, a sign-in code, a ticket and  *)
(* an invitation serve once, a linked method is the one its owner proved, no   *)
(* account is left without a method (account_auth.go, user.go), and no window  *)
(* of the guard lets more attempts through than its limit                      *)
(* (auth_rate_limit.go).                                                       *)
AccountsKept ==
    /\ part = "sign-in" => SI!SingleUse /\ SI!LinkedByOwner /\ SI!OneAccountEach
    /\ part = "registration" => RG!CodeAdmitsOne
    /\ part = "guard" => AG!WindowKept

(* A method never changes hands; nobody is admitted by a link already revoked, *)
(* or changes a password another request changed meanwhile; a refresh token    *)
(* gives no access after its logout; a window is not prolonged by attempts.    *)
AccountStep ==
    /\ part = "sign-in" => SI!MethodKeptStep
    /\ part = "registration" => RG!AdmittedByLiveShareStep /\ RG!ChangesFencedStep
    /\ part = "tokens" => TK!LogoutEndsStep
    /\ part = "guard" => AG!WindowFixedStep
AccountsSettled == [][AccountStep]_vars

(* What a request is told is saved is there, all of it, and what follows the   *)
(* commit finds it (rls.go, committed_json.go); a revoked phone captures       *)
(* nothing more, whichever of the pairing, the capture and the revocation is   *)
(* first (shortcut.go); a published page rewrites only what is an image        *)
(* (share.go).                                                                 *)
SharesKept ==
    /\ part = "request" => TX!SavedMeansDurable /\ TX!AllOrNothing
    /\ part = "shortcut" => SC!RevokedIsRevoked
    /\ part = "share page" => SA!ImagesOnly

(* Progress is never taken back but by the reader who asks for it: an undo     *)
(* restores what its own mark replaced and nothing a device wrote since        *)
(* (progress_undo.go); and a link that was handed out keeps its text           *)
(* (share.go).                                                                 *)
ReaderStep ==
    /\ part = "reading" => RD!ProgressKeptStep
    /\ part = "sharing" => SH!LinkSettledStep
ReadersSettled == [][ReaderStep]_vars

(* An interest is earned by a signal and a tag by its reader (preference.go,   *)
(* user_tag.go); pruning leaves no hole in the archives (retention.go), and a  *)
(* restored note is on its author's article (restore.go).                      *)
DataKept ==
    /\ part = "profile" => PF!ProfileKept
    /\ part = "backup" => BF!Covered
    /\ part = "restore" => RS!NotesOwned

(* "old→new id mapping so article_user_tags ... can be reconnected"            *)
(* (backup/snapshot_saved.go): after a restore, an archived tag of a restored  *)
(* article is its tag again.                                                   *)
TagsReconnected == part = "restore" => RS!TagsReconnected

(* "Always cache (even empty) so we don't retry forever"                       *)
(* (cmd/worker/classify.go): an article the model has answered for is not      *)
(* asked for again.                                                            *)
ClassifiedOnce == part = "profile" => PF!ClassifiedOnce
=============================================================================
