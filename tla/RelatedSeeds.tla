----------------------------- MODULE RelatedSeeds -----------------------------
(* Which of the readers' sites the related-site sync visits: its budget of     *)
(* seeds is shared among the owners, round robin from a start that moves with  *)
(* the six-hour window.  internal/repository/explore_registry.go.              *)
EXTENDS Naturals, Sequences, FiniteSets

CONSTANTS
    Owners,         \* how many; an owner is a number from 1
    Row,            \* what a feed or an article names as its site
    Canonical,      \* its canonical URL, or "" if it has none
    PerOwner,       \* seeds kept for an owner
    Limit           \* seeds a sync visits

VARIABLES
    rows,           \* each owner's rows, newest first
    window,         \* windows so far
    visited         \* the seeds each of them selected

vars == <<rows, window, visited>>

Owner == 1..Owners
Seqs == UNION {[1..n -> Row] : n \in 0..2}

TypeOK ==
    /\ rows \in [Owner -> Seqs] /\ window \in 0..Owners
    /\ \A i \in Owner : visited[i] \subseteq {Canonical[r] : r \in Row}
                        /\ Cardinality(visited[i]) <= Limit

Init ==
    /\ rows \in [Owner -> Seqs]
    /\ window = 0 /\ visited = [i \in Owner |-> {}]

\* The first few canonical URLs of an owner, each once.
Add(s, r) ==
    IF Len(s) >= PerOwner \/ Canonical[r] = "" \/ \E i \in 1..Len(s) : s[i] = Canonical[r]
    THEN s ELSE Append(s, Canonical[r])

Seeds(o) ==
    LET kept[i \in 0..Len(rows[o])] ==
          IF i = 0 THEN <<>> ELSE Add(kept[i - 1], rows[o][i])
    IN  kept[Len(rows[o])]

\* The owners with seeds, in order.
Collected == LET has == {o \in Owner : Seeds(o) # <<>>}
             IN  [i \in 1..Cardinality(has) |->
                    CHOOSE o \in has : Cardinality({p \in has : p <= o}) = i]

Select(w) ==
    LET owners == Collected
        n == Len(owners)
        start == ((w % n) * Limit) % n
        \* the k-th visit, counted from 0: every owner's first seed, then the second
        visit(k) == LET s == Seeds(owners[((start + k) % n) + 1])
                        rank == (k \div n) + 1
                    IN  IF rank <= Len(s) THEN {s[rank]} ELSE {}
        chosen[k \in 0..(PerOwner * n)] ==
            IF k = 0 THEN {}
            ELSE IF Cardinality(chosen[k - 1]) = Limit THEN chosen[k - 1]
            ELSE chosen[k - 1] \cup visit(k - 1)
    IN  IF n = 0 THEN {} ELSE chosen[PerOwner * n]

LoadRelatedSeeds ==
    /\ window < Owners
    /\ window' = window + 1 /\ visited' = [visited EXCEPT ![window + 1] = Select(window + 1)]
    /\ UNCHANGED rows

Next == LoadRelatedSeeds

Spec == Init /\ [][Next]_vars

-----------------------------------------------------------------------------
\* Within n / Limit consecutive windows, rounded up, the newest site of every
\* owner has been visited, however the owners' sites repeat each other and
\* whatever the owners without a usable one.
EveryOwnerReached ==
    LET n == Len(Collected)
        rounds == (n + Limit - 1) \div Limit
    IN  \A first \in 1..Owners : first + rounds - 1 <= window =>
            \A i \in 1..n : \E w \in first..(first + rounds - 1) :
                Seeds(Collected[i])[1] \in visited[w]
=============================================================================
