----------------------------- MODULE EnglishLife -----------------------------
(* Reading texts a paid third party makes of videos: one connection for the    *)
(* installation, paired by an administrator's browser, and jobs that cost.     *)
(* internal/englife/{service,store,client,vault}.go, internal/api/englife.go.  *)
(*                                                                             *)
(* The provider renews the cookie of a session as it likes, takes requests     *)
(* late, and keeps the jobs of its accounts.                                   *)
EXTENDS Naturals, FiniteSets, SequencesExt

CONSTANTS Process, Account, Video, Document, NoAccount,
          Soon, Cool, PairTime,                           \* minutes
          MaxTime, MaxLogin, MaxRenewal, MaxFaults, Quota

EnglishLifeAssumption == NoAccount \notin Account /\ {Soon, Cool} \subseteq Nat

VARIABLES
    now,
    conn,       \* the saved connection
    pair,       \* when the pairing in progress runs out; 0 is none
    job,        \* the jobs here, by account and video
    proc,       \* what each process does under the lock
    session,    \* at the provider: whose each is, and its newest cookie
    remote,     \* at the provider: the jobs made
    left,       \* at the provider: what each account has left
    posts,      \* requests for a job on their way
    faults

vars == <<now, conn, pair, job, proc, session, remote, left, posts, faults>>
provider == <<session, remote, left, posts>>

NoConn == [account |-> NoAccount, session |-> 0, cookie |-> 0, state |-> "ready", at |-> 0]
NoJob == [status |-> "none", remote |-> 0, next |-> 0, text |-> << >>]
Idle == [at |-> "idle", video |-> "", conn |-> NoConn, job |-> NoJob, reply |-> "none", made |-> 0]

States == {"ready", "expired", "quota_exhausted", "unavailable"}
Statuses == {"none", "new", "submitting", "pending", "ready", "failed", "needs_attention"}

TypeOK ==
    /\ now \in 0 .. MaxTime /\ pair \in 0 .. MaxTime + PairTime /\ faults \in 0 .. MaxFaults
    /\ conn.account \in Account \cup {NoAccount} /\ conn.state \in States
    /\ \A a \in Account, v \in Video :
         job[<<a, v>>].status \in Statuses /\ job[<<a, v>>].remote \in 0 .. Len(remote)
    /\ \A p \in Process : proc[p].at \in {"idle", "looking", "submitting", "posted", "document",
                                          "closing", "pairing", "checking"}
    /\ session \in Seq([account : Account, cookie : 0 .. MaxRenewal]) /\ Len(session) <= MaxLogin
    /\ remote \in Seq([account : Account, video : Video, status : {"working", "ready", "failed"}])
    /\ left \in [Account -> 0 .. Quota]

Init ==
    /\ now = 1 /\ conn = NoConn /\ pair = 0 /\ faults = 0
    /\ job = [x \in Account \X Video |-> NoJob] /\ proc = [p \in Process |-> Idle]
    /\ session = << >> /\ remote = << >> /\ left = [a \in Account |-> Quota] /\ posts = {}

-----------------------------------------------------------------------------
Lock == \A p \in Process : proc[p].at = "idle"

\* An answered request, with a renewed cookie or not, or the refusal of a
\* cookie that is not the newest, or no answer.
request(c) ==
    {[err |-> "unavailable", cookie |-> c.cookie]} \cup
    IF session[c.session].cookie # c.cookie THEN {[err |-> "expired", cookie |-> c.cookie]}
    ELSE [err : {"none"}, cookie : {k \in c.cookie .. c.cookie + 1 : k <= MaxRenewal}]

rememberCookies(c, r) == [session EXCEPT ![c.session].cookie = IF r.err = "none" THEN r.cookie ELSE @]
Auth(c, r) == [c EXCEPT !.cookie = r.cookie]

connectionState(err) == IF err = "none" THEN "ready" ELSE err
RemoteQuota(a) == IF left[a] = 0 THEN "quota_exhausted" ELSE "none"
Step(p, r) == proc' = [proc EXCEPT ![p] = r]

Saved(c, err) == [conn EXCEPT !.state = connectionState(err), !.at = now]

\* The end of every call that reached the provider: the cookie it has by now
\* joins whatever was saved meanwhile, and the lock is given back.
Close(p) ==
    /\ proc[p].at = "closing"
    /\ conn' = [conn EXCEPT !.cookie = proc[p].conn.cookie]
    /\ Step(p, Idle) /\ UNCHANGED <<now, pair, job, provider, faults>>

pause(p, r, err) ==
    /\ conn' = Saved(conn, err)
    /\ Step(p, [r EXCEPT !.at = "closing"])

-----------------------------------------------------------------------------
\* What is answered without asking the provider.
Answered(j) ==
    \/ j.status \in {"ready", "failed"} \/ j.next > now
    \/ conn.state = "expired"
    \/ conn.state = "quota_exhausted" /\ j.status \in {"none", "new"}
    \/ conn.state = "unavailable" /\ now - conn.at < Cool

\* A connection that was not available is asked for its quota as well.
Fetch(p, v) ==
    LET j == job[<<conn.account, v>>] IN
    /\ Lock /\ conn # NoConn /\ ~Answered(j)
    /\ \E r \in request(conn) :
         LET c == Auth(conn, r)
             me == [Idle EXCEPT !.video = v, !.conn = c,
                                !.job = IF j = NoJob THEN [NoJob EXCEPT !.status = "new"] ELSE j]
             err == IF conn.state = "unavailable" THEN RemoteQuota(c.account) ELSE "none"
         IN  /\ session' = rememberCookies(conn, r)
             /\ IF r.err # "none" THEN pause(p, me, r.err)
                ELSE /\ conn' = [conn EXCEPT !.at = now,
                                   !.state = IF @ = "unavailable" THEN connectionState(err) ELSE @]
                     /\ Step(p, [me EXCEPT !.at = IF j.remote = 0 THEN "looking" ELSE "document"])
    /\ UNCHANGED <<now, pair, job, remote, left, posts, faults>>

Listed(a, v) == {i \in DOMAIN remote : remote[i].account = a /\ remote[i].video = v
                                        /\ remote[i].status # "failed"}

saveJob(p, j) == job' = [job EXCEPT ![<<proc[p].conn.account, proc[p].video>>] = j]

\* A job the provider has is taken over.  One that was asked for and is not
\* there is never asked for again; the first request is noted before it is sent.
Look(p) ==
    LET me == proc[p]
        a == me.conn.account
    IN  /\ me.at = "looking" /\ UNCHANGED <<now, pair, remote, left, posts, faults>>
        /\ \E r \in request(me.conn) :
             LET you == [me EXCEPT !.conn = Auth(@, r)] IN
             /\ session' = rememberCookies(me.conn, r)
             /\ \/ r.err # "none" /\ pause(p, you, r.err) /\ UNCHANGED job
                \/ /\ r.err = "none" /\ UNCHANGED <<conn, job>>
                   /\ \E i \in Listed(a, me.video) :
                        Step(p, [you EXCEPT !.at = "document", !.job.remote = i, !.job.status = "pending"])
                \/ /\ r.err = "none" /\ Listed(a, me.video) = {} /\ me.job.status # "new"
                   /\ saveJob(p, [me.job EXCEPT !.status = "needs_attention", !.next = now + Cool])
                   /\ Step(p, [you EXCEPT !.at = "closing"]) /\ UNCHANGED conn
                \/ /\ r.err = "none" /\ Listed(a, me.video) = {} /\ me.job.status = "new"
                   /\ IF conn.state = "quota_exhausted" \/ left[a] = 0
                      THEN pause(p, you, "quota_exhausted") /\ UNCHANGED job
                      ELSE LET j == [me.job EXCEPT !.status = "submitting", !.next = now + Soon] IN
                           /\ conn' = Saved(conn, "none") /\ saveJob(p, j)
                           /\ Step(p, [you EXCEPT !.at = "submitting", !.job = j])

Submit(p) ==
    LET me == proc[p] IN
    /\ me.at = "submitting"
    /\ posts' = posts \cup {[by |-> p, conn |-> me.conn, video |-> me.video]}
    /\ Step(p, [me EXCEPT !.at = "posted"])
    /\ UNCHANGED <<now, conn, pair, job, session, remote, left, faults>>

\* The provider gets to a request, whether or not anybody still waits for it.
Take(m) ==
    LET a == m.conn.account
        refusal == IF session[m.conn.session].cookie # m.conn.cookie THEN "expired"
                   ELSE RemoteQuota(a)
        waits == proc[m.by].at = "posted" /\ proc[m.by].conn = m.conn /\ proc[m.by].video = m.video
    IN  /\ posts' = posts \ {m}
        /\ IF refusal = "none"
           THEN /\ remote' = Append(remote, [account |-> a, video |-> m.video, status |-> "working"])
                /\ left' = [left EXCEPT ![a] = @ - 1]
           ELSE UNCHANGED <<remote, left>>
        /\ proc' = IF waits THEN [proc EXCEPT ![m.by].reply = IF refusal = "none" THEN "made" ELSE refusal,
                                              ![m.by].made = Len(remote')]
                   ELSE proc
        /\ UNCHANGED <<now, conn, pair, job, session, faults>>

\* The answer to the request, or no answer.  Only a refusal allows another.
Submitted(p) ==
    LET me == proc[p] IN
    /\ me.at = "posted"
    /\ \/ /\ me.reply = "made"
          /\ saveJob(p, [me.job EXCEPT !.status = "pending", !.remote = me.made])
          /\ Step(p, [me EXCEPT !.at = "closing"]) /\ UNCHANGED conn
       \/ /\ me.reply \in {"expired", "quota_exhausted"}
          /\ saveJob(p, [me.job EXCEPT !.status = "new"]) /\ pause(p, me, me.reply)
       \/ saveJob(p, me.job) /\ pause(p, me, "unavailable")
    /\ UNCHANGED <<now, pair, provider, faults>>

\* The paragraphs of a document, each once, in the order the chapters name
\* them; none unless every chapter has some and they are exactly the segments.
Markdown(d) ==
    LET ids == FlattenSeq(d.chapters)
        first == {i \in DOMAIN ids : \A k \in 1 .. i - 1 : ids[k] # ids[i]}
    IN  IF \/ d.chapters = << >> \/ \E i \in DOMAIN d.chapters : d.chapters[i] = << >>
           \/ ~IsInjective(d.segments) \/ ToSet(ids) # ToSet(d.segments)
        THEN << >>
        ELSE LET at == SetToSortSeq(first, LAMBDA x, y : x < y) IN [i \in DOMAIN at |-> ids[at[i]]]

DocumentWithDuration(p) ==
    LET me == proc[p]
        i == me.job.remote
    IN  /\ me.at = "document" /\ UNCHANGED <<now, pair, remote, left, posts, faults>>
        /\ \E r \in request(me.conn), d \in Document :
             LET you == [me EXCEPT !.conn = Auth(@, r)]
                 malformed == remote[i].status = "ready" /\ Markdown(d) = << >>
                 err == IF r.err # "none" THEN r.err ELSE IF malformed THEN "unavailable" ELSE "none"
                 after == [me.job EXCEPT !.next = now + IF err = "none" THEN Soon ELSE Cool]
             IN  /\ session' = rememberCookies(me.conn, r)
                 /\ \/ err # "none" /\ saveJob(p, after) /\ pause(p, you, err)
                    \/ /\ err = "none" /\ UNCHANGED conn /\ Step(p, [you EXCEPT !.at = "closing"])
                       /\ saveJob(p, CASE remote[i].status = "working" -> [after EXCEPT !.status = "pending"]
                                       [] remote[i].status = "failed" -> [after EXCEPT !.status = "failed"]
                                       [] OTHER -> [after EXCEPT !.status = "ready", !.text = Markdown(d)])

-----------------------------------------------------------------------------
Pair(p) ==
    /\ Lock /\ pair' = now + PairTime /\ UNCHANGED <<now, conn, job, proc, provider, faults>>

\* A browser that just signed in at the provider brings its cookies.
Complete(p, a) ==
    /\ Lock /\ pair > now /\ Len(session) < MaxLogin
    /\ session' = Append(session, [account |-> a, cookie |-> 0])
    /\ Step(p, [Idle EXCEPT !.at = "pairing",
                  !.conn = [NoConn EXCEPT !.account = a, !.session = Len(session'),
                              !.state = connectionState(RemoteQuota(a))]])
    /\ UNCHANGED <<now, conn, pair, job, remote, left, posts, faults>>

\* The pairing is used up with the connection saved, or has run out.
CompletePair(p) ==
    /\ proc[p].at = "pairing" /\ Step(p, Idle)
    /\ IF pair > now THEN conn' = [proc[p].conn EXCEPT !.at = now] /\ pair' = 0 ELSE UNCHANGED <<conn, pair>>
    /\ UNCHANGED <<now, job, provider, faults>>

Check(p) ==
    /\ Lock /\ conn # NoConn
    /\ \E r \in request(conn) :
         /\ session' = rememberCookies(conn, r)
         /\ Step(p, [Idle EXCEPT !.at = "checking",
                       !.conn = [Auth(conn, r) EXCEPT
                                   !.state = connectionState(IF r.err # "none" THEN r.err
                                                             ELSE RemoteQuota(conn.account))]])
    /\ UNCHANGED <<now, conn, pair, job, remote, left, posts, faults>>

Checked(p) ==
    /\ proc[p].at = "checking" /\ conn' = [proc[p].conn EXCEPT !.at = now] /\ Step(p, Idle)
    /\ UNCHANGED <<now, pair, job, provider, faults>>

Disconnect(p) ==
    /\ Lock /\ conn' = NoConn /\ pair' = 0 /\ UNCHANGED <<now, job, proc, provider, faults>>

-----------------------------------------------------------------------------
\* A process dies, or its time is up: the lock is free and nothing more is
\* saved, while a request for a job may still arrive.
Crash(p) ==
    /\ proc[p].at # "idle" /\ faults < MaxFaults /\ faults' = faults + 1 /\ Step(p, Idle)
    /\ UNCHANGED <<now, conn, pair, job, provider>>

\* The provider gets on with a job; a quota is filled up; a session ends.
Progress(i, s) ==
    /\ remote[i].status = "working" /\ remote' = [remote EXCEPT ![i].status = s]
    /\ UNCHANGED <<now, conn, pair, job, proc, session, left, posts, faults>>

Refill(a) ==
    /\ left[a] < Quota /\ left' = [left EXCEPT ![a] = Quota]
    /\ UNCHANGED <<now, conn, pair, job, proc, session, remote, posts, faults>>

Tick == now < MaxTime /\ now' = now + 1 /\ UNCHANGED <<conn, pair, job, proc, provider, faults>>

Next ==
    \/ \E p \in Process : Pair(p) \/ CompletePair(p) \/ Check(p) \/ Checked(p) \/ Disconnect(p)
                          \/ Look(p) \/ Submit(p) \/ Submitted(p) \/ DocumentWithDuration(p)
                          \/ Close(p) \/ Crash(p)
    \/ \E p \in Process, a \in Account : Complete(p, a)
    \/ \E p \in Process, v \in Video : Fetch(p, v)
    \/ \E m \in posts : Take(m)
    \/ \E i \in DOMAIN remote, s \in {"ready", "failed"} : Progress(i, s)
    \/ \E a \in Account : Refill(a)
    \/ Tick

Spec == Init /\ [][Next]_vars

-----------------------------------------------------------------------------
\* A video costs an account at most one job, however answers are lost, requests
\* arrive late and processes die between noting, sending and recording one.
ChargedOnce ==
    \A i, k \in DOMAIN remote :
       i # k => <<remote[i].account, remote[i].video>> # <<remote[k].account, remote[k].video>>

\* Whatever a call came to, the cookie kept is the newest the provider gave,
\* unless a process died before it could be kept.
SessionKept ==
    Lock /\ conn # NoConn /\ faults = 0 => conn.cookie = session[conn.session].cookie

\* A finished text is all of its document, once.
WholeText ==
    \A x \in Account \X Video : job[x].status = "ready" => job[x].text # << >> /\ IsInjective(job[x].text)

PaidForOnce == ChargedOnce /\ SessionKept /\ WholeText
=============================================================================
