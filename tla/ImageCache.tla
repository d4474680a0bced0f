------------------------------ MODULE ImageCache -------------------------------
(* The pictures of one article on their way to a model that sees: downloaded   *)
(* by the process that holds the article's summary job, kept by place under    *)
(* the article's number, swept by age.  The holder is done with them long      *)
(* before its job can pass to another process.                                 *)
(* internal/imagefetch, cmd/worker/main.go, internal/api/article.go.           *)
EXTENDS Naturals, Sequences

CONSTANTS Url, Local,        \* pictures, and those that are the site's own
          Place,             \* 1 .. MaxImages
          TTL,
          MaxEdits, MaxCrashes

VARIABLES
    images,      \* of the article, as it reads now
    dir,         \* the article's directory is there
    file,        \* what its places hold
    tmp,         \* the files being written
    run,         \* the holder
    sweep,       \* the sweep: files it has found old
    edits, crashes

vars == <<images, dir, file, tmp, run, sweep, edits, crashes>>

NoFile == [of |-> "none", whole |-> FALSE, age |-> 0]
Idle == [at |-> "idle", urls |-> << >>, i |-> 1, paths |-> << >>, gotURLs |-> << >>]
Lists == UNION {[1 .. n -> Url] : n \in Place}

TypeOK ==
    /\ images \in Lists /\ dir \in BOOLEAN
    /\ file \in [Place -> {NoFile} \cup [of : Url, whole : BOOLEAN, age : 0 .. TTL + 1]]
    /\ tmp \in [Place -> {"none", "partial", "whole"}]
    /\ run.at \in {"idle", "next", "get", "got", "written", "handed"} /\ run.urls \in Seq(Url)
    /\ run.i \in 1 .. Len(run.urls) + 1 /\ run.paths \in Seq(Place \cup {0}) /\ run.gotURLs \in Seq(Url)
    /\ sweep \subseteq Place /\ edits \in 0 .. MaxEdits /\ crashes \in 0 .. MaxCrashes
    /\ ~dir => \A p \in Place : file[p] = NoFile /\ tmp[p] = "none"

Init ==
    /\ images \in Lists /\ dir = FALSE /\ file = [p \in Place |-> NoFile] /\ tmp = [p \in Place |-> "none"]
    /\ run = Idle /\ sweep = {} /\ edits = 0 /\ crashes = 0

-----------------------------------------------------------------------------
ReCapture == \* the article is read again, with other pictures
    /\ edits < MaxEdits /\ edits' = edits + 1 /\ images' \in Lists \ {images}
    /\ UNCHANGED <<dir, file, tmp, run, sweep, crashes>>

FetchAndStore ==
    /\ run.at \in {"idle", "handed"} /\ run' = [Idle EXCEPT !.at = "next", !.urls = images]
    /\ UNCHANGED <<images, dir, file, tmp, sweep, edits, crashes>>

Here == run.urls[run.i]
Skip == run' = [run EXCEPT !.at = "next", !.i = @ + 1]
Take(path) == run' = [run EXCEPT !.at = "next", !.i = @ + 1, !.paths = Append(@, path), !.gotURLs = Append(@, Here)]

\* One of the site's own is handed over where it is, if it is there.
ownImage ==
    /\ run.at = "next" /\ run.i \in DOMAIN run.urls /\ Here \in Local /\ (Take(0) \/ Skip)
    /\ UNCHANGED <<images, dir, file, tmp, sweep, edits, crashes>>

\* A file at the place is young again, whatever it was made of.
fetchOne ==
    /\ run.at = "next" /\ run.i \in DOMAIN run.urls /\ Here \notin Local /\ dir' = TRUE
    /\ \/ file[run.i] # NoFile /\ file' = [file EXCEPT ![run.i].age = 0] /\ Take(run.i)
       \/ file[run.i] = NoFile /\ run' = [run EXCEPT !.at = "get"] /\ UNCHANGED file
       \/ Skip /\ UNCHANGED file
    /\ UNCHANGED <<images, tmp, sweep, edits, crashes>>

DownloadAnywhere ==
    /\ run.at = "get" /\ UNCHANGED <<images, dir, file, sweep, edits, crashes>>
    /\ \/ Skip /\ UNCHANGED tmp
       \/ tmp' = [tmp EXCEPT ![run.i] = "partial"] /\ run' = [run EXCEPT !.at = "got"]
\* The download and the decoding, and then a file of that name, which a swept
\* directory no longer takes.
Download ==
    /\ run.at = "get" /\ UNCHANGED <<images, dir, file, sweep, edits, crashes>>
    /\ \/ Skip /\ UNCHANGED tmp
       \/ dir /\ tmp' = [tmp EXCEPT ![run.i] = "partial"] /\ run' = [run EXCEPT !.at = "got"]
Encode ==
    /\ run.at = "got" /\ UNCHANGED <<images, dir, file, sweep, edits, crashes>>
    /\ \/ Skip /\ tmp' = [tmp EXCEPT ![run.i] = "none"]
       \/ tmp' = [tmp EXCEPT ![run.i] = "whole"] /\ run' = [run EXCEPT !.at = "written"]
Rename ==
    /\ run.at = "written" /\ tmp' = [tmp EXCEPT ![run.i] = "none"]
    /\ \/ Skip /\ UNCHANGED file
       \/ Take(run.i) /\ file' = [file EXCEPT ![run.i] = [of |-> Here, whole |-> tmp[run.i] = "whole", age |-> 0]]
    /\ UNCHANGED <<images, dir, sweep, edits, crashes>>

Return ==
    /\ run.at = "next" /\ run.i \notin DOMAIN run.urls /\ run' = [run EXCEPT !.at = "handed"]
    /\ UNCHANGED <<images, dir, file, tmp, sweep, edits, crashes>>

Crash ==
    /\ run.at # "idle" /\ crashes < MaxCrashes /\ crashes' = crashes + 1 /\ run' = Idle
    /\ UNCHANGED <<images, dir, file, tmp, sweep, edits>>

\* The sweep looks at a file's age first, and removes it later, and the
\* directory when nothing is left.
Stat(p) ==
    /\ file[p] # NoFile /\ file[p].age > TTL /\ p \notin sweep /\ sweep' = sweep \cup {p}
    /\ UNCHANGED <<images, dir, file, tmp, run, edits, crashes>>
CleanupExpired(p) ==
    /\ p \in sweep /\ sweep' = sweep \ {p} /\ file' = [file EXCEPT ![p] = NoFile]
    /\ UNCHANGED <<images, dir, tmp, run, edits, crashes>>
SweepTmp(p) == \* what a crash has left, in time
    /\ tmp[p] # "none" /\ run.at \in {"idle", "handed"} /\ tmp' = [tmp EXCEPT ![p] = "none"]
    /\ UNCHANGED <<images, dir, file, run, sweep, edits, crashes>>
RemoveDir ==
    /\ dir /\ dir' = FALSE /\ \A p \in Place : file[p] = NoFile /\ tmp[p] = "none"
    /\ UNCHANGED <<images, file, tmp, run, sweep, edits, crashes>>

\* A day; no summary takes as long.
Tick ==
    /\ run.at \in {"idle", "handed"} /\ run' = Idle
    /\ file' = [p \in Place |-> IF file[p] = NoFile \/ file[p].age > TTL THEN file[p] ELSE [file[p] EXCEPT !.age = @ + 1]]
    /\ UNCHANGED <<images, dir, tmp, sweep, edits, crashes>>

Next ==
    \/ ReCapture \/ FetchAndStore \/ ownImage \/ fetchOne \/ Download \/ Encode \/ Rename \/ Return
    \/ Crash \/ RemoveDir \/ Tick \/ \E p \in Place : Stat(p) \/ CleanupExpired(p) \/ SweepTmp(p)

Spec == Init /\ [][Next]_vars

-----------------------------------------------------------------------------
\* Whenever a process dies in the middle, a download fails or the sweep passes,
\* a file that is found at a place is a whole picture.
FilesWhole == \A p \in Place : file[p] # NoFile => file[p].whole

\* "paths[i] is the on-disk JPEG for the URL gotURLs[i]" (imagefetch.go:64-65).
ImageOfUrl ==
    run.at = "handed" =>
      \A k \in DOMAIN run.paths :
        run.paths[k] # 0 /\ file[run.paths[k]] # NoFile => file[run.paths[k]].of = run.gotURLs[k]
=============================================================================
