-------------------------------- MODULE Restore --------------------------------
(* Backup and restore of what readers keep: the snapshot of their feeds, tags, *)
(* saved articles and notes, and its return into a database that has moved on  *)
(* or was made anew, where rows get new serial numbers.                        *)
(* internal/backup/{snapshot,snapshot_saved,restore}.go, internal/api/admin.go.*)
(*                                                                             *)
(* Feeds differ by owner only, as if all had one URL.  Reading progress and    *)
(* preferences are restored as links are, and are left out.                    *)
EXTENDS Integers, FiniteSets, SequencesExt

CONSTANTS User, Nobody, Url, Name, MaxArticle, MaxTag, MaxArchives

RestoreAssumption == MaxArticle \in Nat

VARIABLES
    feed,       \* the owners there is a feed of
    article,    \* by serial number
    tag,        \* by serial number: its owner and name
    link,       \* <<article, tag, user>>
    note,       \* <<user, article>>
    serial,     \* the last numbers given
    disk,       \* the archives
    expected    \* of the restore just made: articles, their archived tags and taggers

vars == <<feed, article, tag, link, note, serial, disk, expected>>
data == <<feed, article, tag, link, note, serial>>

Owner == User \cup {Nobody}
Ids == 1 .. MaxArticle
TagIds == 1 .. MaxTag
Row == [feed : Owner, url : Url, parent : {0} \cup Ids, kind : {"plain", "saved", "clip"}]
Partial(S, T) == UNION {[D -> T] : D \in SUBSET S}
Put(f, k, v) == [x \in DOMAIN f \cup {k} |-> IF x = k THEN v ELSE f[x]]

TypeOK ==
    /\ feed \subseteq Owner
    /\ DOMAIN article \subseteq Ids /\ \A a \in DOMAIN article : article[a] \in Row
    /\ DOMAIN tag \subseteq TagIds /\ \A t \in DOMAIN tag : tag[t] \in User \X Name
    /\ link \subseteq Ids \X TagIds \X User /\ note \subseteq User \X Ids
    /\ serial \in [article : {0} \cup Ids, tag : {0} \cup TagIds]
    /\ Cardinality(disk) <= MaxArchives
    /\ expected \subseteq Ids \X (User \X Name) \X User

Init ==
    /\ feed = {} /\ article = << >> /\ tag = << >> /\ link = {} /\ note = {}
    /\ serial = [article |-> 0, tag |-> 0] /\ disk = {} /\ expected = {}

-----------------------------------------------------------------------------
\* What the readers do.
Quietly == expected' = {} /\ UNCHANGED disk

Subscribe(o) ==
    /\ feed' = feed \cup {o} /\ o \notin feed
    /\ Quietly /\ UNCHANGED <<article, tag, link, note, serial>>

Same(f, o, u, p) ==
    {a \in DOMAIN f : /\ f[a].url = u /\ f[a].parent = p
                      /\ p = 0 => f[a].feed = o /\ f[a].kind # "clip"}

Arrive(o, u, p, k) ==
    LET n == serial.article + 1 IN
    /\ n \in Ids /\ o \in feed
    /\ p # 0 => p \in DOMAIN article /\ article[p].feed = o /\ article[p].parent = 0
                                     /\ k = "plain"
    /\ k = "clip" \/ Same(article, o, u, p) = {}
    /\ article' = Put(article, n, [feed |-> o, url |-> u, parent |-> p, kind |-> k])
    /\ serial' = [serial EXCEPT !.article = n]
    /\ Quietly /\ UNCHANGED <<feed, tag, link, note>>

Note(u, a) ==
    /\ a \in DOMAIN article /\ article[a].feed = u /\ <<u, a>> \notin note
    /\ note' = note \cup {<<u, a>>}
    /\ Quietly /\ UNCHANGED <<feed, article, tag, link, serial>>

MakeTag(u, w) ==
    LET n == serial.tag + 1 IN
    /\ n \in TagIds /\ \A t \in DOMAIN tag : tag[t] # <<u, w>>
    /\ tag' = Put(tag, n, <<u, w>>) /\ serial' = [serial EXCEPT !.tag = n]
    /\ Quietly /\ UNCHANGED <<feed, article, link, note>>

TagArticle(a, t) ==
    /\ a \in DOMAIN article /\ t \in DOMAIN tag
    /\ <<a, t, tag[t][1]>> \notin link
    /\ link' = link \cup {<<a, t, tag[t][1]>>}
    /\ Quietly /\ UNCHANGED <<feed, article, tag, note, serial>>

\* A feed goes with its articles.
Unsubscribe(o) ==
    LET left == {a \in DOMAIN article : article[a].feed # o} IN
    /\ o \in feed /\ feed' = feed \ {o}
    /\ article' = [a \in left |-> article[a]]
    /\ link' = {l \in link : l[1] \in left} /\ note' = {n \in note : n[2] \in left}
    /\ Quietly /\ UNCHANGED <<tag, serial>>

\* A new database.
Wipe ==
    /\ disk # {}
    /\ feed' = {} /\ article' = << >> /\ tag' = << >> /\ link' = {} /\ note' = {}
    /\ serial' = [article |-> 0, tag |-> 0]
    /\ Quietly

-----------------------------------------------------------------------------
\* The articles a backup holds: saved ones, clips, those with a note, and the
\* parents of these.
Archived ==
    LET kept == {a \in DOMAIN article :
                   \/ article[a].parent = 0 /\ article[a].kind # "plain"
                   \/ \E n \in note : n[2] = a}
    IN  kept \cup ({article[a].parent : a \in kept} \ {0})

\* Both halves are read in one transaction.  Older releases did not write the
\* owner of an article's feed.
Build(scoped) ==
    /\ Cardinality(disk) < MaxArchives
    /\ disk' = disk \cup
         {[feed |-> feed, tag |-> tag, link |-> link, scoped |-> scoped,
           rows |-> [a \in Archived |-> article[a]], note |-> {n \in note : n[2] \in Archived}]}
    /\ expected' = {} /\ UNCHANGED data

\* The metadata of an installation that has nothing yet; a backup that came
\* without saved articles.
NoMetadata == [feed |-> {}, tag |-> << >>, link |-> {}]
NoArticles == [rows |-> << >>, note |-> {}, scoped |-> TRUE]

\* The feed of an archived article; the owner is not guessed.
loadFeedIDs(scoped, row, feeds) ==
    IF scoped /\ row.feed # Nobody THEN {row.feed} \cap feeds
    ELSE IF Cardinality(feeds) = 1 THEN feeds ELSE {}

orderSavedArticles(rows) == SetToSortSeq(DOMAIN rows, LAMBDA a, b :
    IF (rows[a].parent = 0) = (rows[b].parent = 0) THEN a < b ELSE rows[a].parent = 0)

\* One archived article: skipped without its feed or parent, a new row, or the
\* row that is there already.
RestoreArticle(s, feeds, acc, a) ==
    LET row == s.rows[a]
        f == loadFeedIDs(s.scoped, row, feeds)
        p == IF row.parent = 0 THEN 0 ELSE acc.map[row.parent]
        there == Same(acc.article, CHOOSE o \in f : TRUE, row.url, p)
        new == acc.serial + 1
    IN  IF f = {} \/ (row.parent # 0 /\ row.parent \notin DOMAIN acc.map) THEN acc
        ELSE IF there # {} /\ (row.parent # 0 \/ row.kind # "clip")
        THEN [acc EXCEPT !.map = Put(acc.map, a, CHOOSE x \in there : TRUE)]
        ELSE [map |-> Put(acc.map, a, new), serial |-> new,
              article |-> Put(acc.article, new, [row EXCEPT !.parent = p,
                                                   !.feed = CHOOSE o \in f : TRUE])]

RestoreTag(m, acc, t) ==
    [serial |-> acc.serial + 1,
     tag |-> IF \E x \in DOMAIN acc.tag : acc.tag[x] = m.tag[t] THEN acc.tag
             ELSE Put(acc.tag, acc.serial + 1, m.tag[t])]

\* All archived articles, parents first; there are no more than numbers.
RestoreArticles(s, feeds) ==
    LET order == orderSavedArticles(s.rows)
        done[i \in 0 .. MaxArticle] ==
          IF i = 0 THEN [serial |-> serial.article, article |-> article, map |-> << >>]
          ELSE IF i \in DOMAIN order THEN RestoreArticle(s, feeds, done[i - 1], order[i])
          ELSE done[i - 1]
    IN  done[MaxArticle]

\* Metadata m and saved articles s.
Restored(m, s) ==
    LET feeds == feed \cup m.feed
        tags == FoldLeft(LAMBDA acc, t : RestoreTag(m, acc, t),
                         [serial |-> serial.tag, tag |-> tag],
                         SetToSortSeq(DOMAIN m.tag, <))
        done == RestoreArticles(s, feeds)
        links == {l \in m.link : l[1] \in DOMAIN done.map}
    IN  /\ serial.tag + Cardinality(DOMAIN m.tag) <= MaxTag /\ done.serial <= MaxArticle
        \* a link to no tag violates a foreign key, which undoes everything
        /\ \A l \in links : l[2] \in DOMAIN tags.tag
        /\ feed' = feeds /\ article' = done.article /\ tag' = tags.tag
        /\ serial' = [article |-> done.serial, tag |-> tags.serial]
        /\ note' = note \cup {<<n[1], done.map[n[2]]>> : n \in {x \in s.note :
                       /\ x[2] \in DOMAIN done.map
                       /\ done.article[done.map[x[2]]].feed = x[1]}}
        /\ link' = link \cup {<<done.map[l[1]], l[2], l[3]>> : l \in links}
        /\ expected' = {<<done.map[l[1]], m.tag[l[2]], l[3]>> : l \in links}
        /\ UNCHANGED disk

\* From the server's disk, where an old backup may lack its second file.
RestoreBackup == \E d \in disk : Restored(d, d) \/ Restored(d, NoArticles)

\* Two files of the administrator's choice.
RestoreBackupUpload ==
    \E m \in disk \cup {NoMetadata}, s \in disk \cup {NoArticles} : Restored(m, s)

Next ==
    \/ \E o \in Owner : Subscribe(o) \/ Unsubscribe(o)
    \/ \E o \in Owner, u \in Url, p \in {0} \cup Ids, k \in {"plain", "saved", "clip"} :
         Arrive(o, u, p, k)
    \/ \E u \in User : (\E a \in Ids : Note(u, a)) \/ (\E w \in Name : MakeTag(u, w))
    \/ \E a \in Ids, t \in TagIds : TagArticle(a, t)
    \/ Wipe
    \/ \E scoped \in BOOLEAN : Build(scoped)
    \/ RestoreBackup \/ RestoreBackupUpload

Spec == Init /\ [][Next]_vars

-----------------------------------------------------------------------------
\* A private note is only ever on an article of its author's own feed: not after
\* any number of restores, of archives that name no owners, of halves that do
\* not belong together, into a database where another reader has that feed.
NotesOwned == \A n \in note : article[n[2]].feed = n[1]

\* After a restore the archived tags of every restored article are its tags.
TagsReconnected ==
    \A e \in expected : \E t \in DOMAIN tag : tag[t] = e[2] /\ <<e[1], t, e[3]>> \in link
=============================================================================
