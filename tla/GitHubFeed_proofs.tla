------------------------- MODULE GitHubFeed_proofs -------------------------
(***************************************************************************)
(* Proofs about the webhooks of a GitHub branch, for any number of paths,  *)
(* mounts, requests, pushes and repetitions; and the lemmas on sequences and *)
(* ledgers that the proofs about the other sources use as well.            *)
(***************************************************************************)
EXTENDS GitHubFeed, FiniteSetTheorems, TLAPS

-----------------------------------------------------------------------------
(* Finite sets as sequences.                                               *)

\* SetToSeq lists each element of a finite set once, and nothing else.
LEMMA SetToSeqFacts ==
  ASSUME NEW S, IsFiniteSet(S)
  PROVE  /\ SetToSeq(S) \in Seq(S)
         /\ DOMAIN SetToSeq(S) = 1..Cardinality(S)
         /\ Cardinality(S) \in Nat
         /\ \A x \in S : \E i \in DOMAIN SetToSeq(S) : SetToSeq(S)[i] = x
         /\ \A i, j \in DOMAIN SetToSeq(S) : SetToSeq(S)[i] = SetToSeq(S)[j] => i = j
<1> DEFINE n == Cardinality(S)
           s == SetToSeq(S)
<1>1. n \in Nat /\ ExistsBijection(1..n, S)
  BY FS_CardinalityType
<1>2. PICK f : f \in Bijection(1..n, S)
  BY <1>1 DEF ExistsBijection
<1>3. f \in [1..n -> S] /\ IsInjective(f)
  BY <1>2 DEF Bijection, Injection
<1>4. s \in [1..n -> S] /\ IsInjective(s)
  BY <1>3 DEF SetToSeq
<1>5. IsFiniteSet(1..n) /\ Cardinality(1..n) = n
  BY <1>1, FS_Interval
<1>6. s \in Injection(1..n, S)
  BY <1>4 DEF Injection
<1>7. s \in Surjection(1..n, S)
  BY <1>5, <1>6, FS_Injection
<1>8. \A x \in S : \E i \in 1..n : s[i] = x
  BY <1>7 DEF Surjection
<1>9. \A i, j \in DOMAIN s : s[i] = s[j] => i = j
  BY <1>4 DEF IsInjective
<1> QED
  BY <1>1, <1>4, <1>8, <1>9

\* The images of the members of a finite set are finitely many.
LEMMA FiniteRange ==
  ASSUME NEW S, IsFiniteSet(S), NEW f, DOMAIN f = S
  PROVE  IsFiniteSet({f[x] : x \in S})
<1> DEFINE T == {f[x] : x \in S}
           g == [x \in S |-> f[x]]
<1>1. g \in Surjection(S, T)
  BY DEF Surjection
<1> QED
  BY <1>1, FS_Surjection

\* Of two numbers of a finite set the greater has more numbers below it.
LEMMA RankGrows ==
  ASSUME NEW S \in SUBSET Nat, IsFiniteSet(S), NEW m \in S, NEW n \in S, m < n
  PROVE  Cardinality({x \in S : x < m}) < Cardinality({x \in S : x < n})
<1> DEFINE A == {x \in S : x < m}
           B == {x \in S : x < n}
<1>0. m \in Nat /\ n \in Nat /\ \A x \in S : x \in Nat
  OBVIOUS
<1>1. A \in SUBSET B /\ m \in B /\ m \notin A /\ B \in SUBSET S
  <2>1. ASSUME NEW x \in A PROVE x \in B
    <3>1. x \in Nat /\ x < m
      BY <1>0
    <3> QED
      BY <1>0, <3>1
  <2>2. m \in B /\ m \notin A
    BY <1>0
  <2>3. B \in SUBSET S
    OBVIOUS
  <2> HIDE DEF A, B
  <2>4. A \in SUBSET B
    BY <2>1
  <2> QED
    BY <2>2, <2>3, <2>4
<1>2. IsFiniteSet(B)
  BY <1>1, FS_Subset
<1> HIDE DEF A, B
<1>3. /\ IsFiniteSet(A) /\ Cardinality(A) <= Cardinality(B)
      /\ Cardinality(B) = Cardinality(A) => B = A
  BY <1>1, <1>2, FS_Subset
<1>4. Cardinality(A) \in Nat /\ Cardinality(B) \in Nat
  BY <1>2, <1>3, FS_CardinalityType
<1>5. Cardinality(A) < Cardinality(B)
  BY <1>1, <1>3, <1>4
<1> QED
  BY <1>5 DEF A, B

\* A finite set of numbers can be counted off in increasing order.
LEMMA AscendingExists ==
  ASSUME NEW S \in SUBSET Nat, IsFiniteSet(S)
  PROVE  \E s \in [1..Cardinality(S) -> S] :
           \A i, j \in DOMAIN s : i < j => s[i] < s[j]
<1> DEFINE N == Cardinality(S)
           below(n) == {x \in S : x < n}
           rank == [n \in S |-> Cardinality(below(n)) + 1]
           s == [i \in 1..N |-> CHOOSE n \in S : rank[n] = i]
<1>1. N \in Nat
  BY FS_CardinalityType
<1>2. ASSUME NEW n \in S PROVE rank[n] \in 1..N
  <2>1. below(n) \in SUBSET S /\ below(n) # S
    OBVIOUS
  <2>2. IsFiniteSet(below(n)) /\ Cardinality(below(n)) <= N /\ Cardinality(below(n)) # N
    BY <2>1, FS_Subset
  <2>3. Cardinality(below(n)) \in Nat
    BY <2>2, FS_CardinalityType
  <2> HIDE DEF N, below
  <2> QED
    BY <1>1, <2>2, <2>3
<1>3. ASSUME NEW m \in S, NEW n \in S, m < n PROVE rank[m] < rank[n]
  <2>1. Cardinality(below(m)) < Cardinality(below(n))
    BY <1>3, RankGrows
  <2>2. rank[m] \in Nat /\ rank[n] \in Nat
    BY <1>2
  <2>3. Cardinality(below(m)) \in Nat /\ Cardinality(below(n)) \in Nat
    <3>1. below(m) \in SUBSET S /\ below(n) \in SUBSET S
      OBVIOUS
    <3> QED
      BY <3>1, FS_Subset, FS_CardinalityType
  <2> HIDE DEF below
  <2> QED
    BY <2>1, <2>3
<1>4. rank \in Injection(S, 1..N)
  <2>1. rank \in [S -> 1..N]
    BY <1>2
  <2> HIDE DEF rank
  <2>2. IsInjective(rank)
    <3> SUFFICES ASSUME NEW m \in S, NEW n \in S, rank[m] = rank[n] PROVE m = n
      BY <2>1 DEF IsInjective
    <3>1. rank[m] \in Nat /\ rank[n] \in Nat /\ m \in Nat /\ n \in Nat
      BY <2>1
    <3> QED
      BY <1>3, <3>1
  <2> QED
    BY <2>1, <2>2 DEF Injection
<1>5. rank \in Surjection(S, 1..N)
  <2>1. IsFiniteSet(1..N) /\ Cardinality(1..N) = N
    BY <1>1, FS_Interval
  <2> HIDE DEF rank
  <2> QED
    BY <1>4, <2>1, FS_Injection
<1> HIDE DEF rank
<1>6. ASSUME NEW i \in 1..N PROVE s[i] \in S /\ rank[s[i]] = i
  <2>1. \E n \in S : rank[n] = i
    BY <1>5 DEF Surjection
  <2> QED
    BY <2>1
<1>7. s \in [1..N -> S]
  BY <1>6
<1> HIDE DEF s
<1>8. ASSUME NEW i \in 1..N, NEW j \in 1..N, i < j PROVE s[i] < s[j]
  <2>1. s[i] \in S /\ s[j] \in S /\ s[i] \in Nat /\ s[j] \in Nat
    BY <1>7
  <2>2. rank[s[i]] < rank[s[j]]
    BY <1>6, <1>8
  <2>3. s[i] # s[j] /\ ~(s[j] < s[i])
    BY <1>3, <1>6, <1>8, <2>1
  <2> QED
    BY <2>1, <2>3
<1> QED
  BY <1>7, <1>8

\* Ascending lists each number of a finite set, and nothing else.
LEMMA AscendingFacts ==
  ASSUME NEW S \in SUBSET Nat, IsFiniteSet(S)
  PROVE  /\ Ascending(S) \in Seq(S)
         /\ DOMAIN Ascending(S) = 1..Cardinality(S)
         /\ Cardinality(S) \in Nat
         /\ \A x \in S : \E i \in DOMAIN Ascending(S) : Ascending(S)[i] = x
<1> DEFINE N == Cardinality(S)
           s == Ascending(S)
<1>1. N \in Nat /\ IsFiniteSet(1..N) /\ Cardinality(1..N) = N
  BY FS_CardinalityType, FS_Interval
<1>2. /\ s \in [1..N -> S]
      /\ \A i, j \in DOMAIN s : i < j => s[i] < s[j]
  BY AscendingExists DEF Ascending
<1> HIDE DEF s
<1>3. IsInjective(s)
  <2> SUFFICES ASSUME NEW i \in 1..N, NEW j \in 1..N, s[i] = s[j] PROVE i = j
    BY <1>2 DEF IsInjective
  <2>1. i \in Nat /\ j \in Nat
    BY <1>1
  <2>2. s[i] \in S
    BY <1>2
  <2>3. s[i] \in Nat
    BY <2>2
  <2> QED
    BY <1>2, <2>1, <2>3
<1>4. s \in Surjection(1..N, S)
  BY <1>1, <1>2, <1>3, FS_Injection DEF Injection
<1>5. \A x \in S : \E i \in 1..N : s[i] = x
  BY <1>4 DEF Surjection
<1> QED
  BY <1>1, <1>2, <1>5 DEF s

\* What is left of a sequence, and what is added to one.
LEMMA TailFacts ==
  ASSUME NEW X, NEW q \in Seq(X), q # <<>>
  PROVE  /\ Tail(q) \in Seq(X) /\ Len(q) \in Nat \ {0}
         /\ DOMAIN q = 1..Len(q) /\ DOMAIN Tail(q) = 1..(Len(q) - 1)
         /\ Len(Tail(q)) = Len(q) - 1
         /\ \A i \in 1..(Len(q) - 1) : Tail(q)[i] = q[i + 1]
         /\ Head(q) = q[1] /\ Head(q) \in X
  OBVIOUS

LEMMA AppendFacts ==
  ASSUME NEW X, NEW q \in Seq(X), NEW x \in X
  PROVE  /\ Append(q, x) \in Seq(X) /\ Len(q) \in Nat
         /\ DOMAIN q = 1..Len(q) /\ DOMAIN Append(q, x) = 1..(Len(q) + 1)
         /\ Len(Append(q, x)) = Len(q) + 1
         /\ \A i \in 1..Len(q) : Append(q, x)[i] = q[i]
         /\ Append(q, x)[Len(q) + 1] = x
  OBVIOUS

-----------------------------------------------------------------------------
(* The intake.                                                             *)

LedgerOf(ledger, names) ==
  /\ ledger = [changes |-> ledger.changes, artifact |-> ledger.artifact]
  /\ ledger.artifact \in [names -> Availability]

LEMMA EmptyLedgerTyped ==
  ASSUME NEW names
  PROVE  LedgerOf(EmptyLedger(names), names)
  BY DEF EmptyLedger, LedgerOf, Availability

\* A change makes its name available, or deleted; a rename empties the name
\* it comes from; nothing else moves.
LEMMA ArtifactsAfterFacts ==
  ASSUME NEW names, NEW ledger, LedgerOf(ledger, names), NEW change
  PROVE  /\ ArtifactsAfter(ledger, change) \in [names -> Availability]
         /\ \A n \in names :
              /\ n = change.name =>
                   ArtifactsAfter(ledger, change)[n] =
                     IF change.kind = "DELETE" THEN "DELETED" ELSE "AVAILABLE"
              /\ n # change.name /\ change.kind = "MOVE" /\ n = change.previous =>
                   ArtifactsAfter(ledger, change)[n] = "NONE"
              /\ n # change.name /\ ~(change.kind = "MOVE" /\ n = change.previous) =>
                   ArtifactsAfter(ledger, change)[n] = ledger.artifact[n]
<1> DEFINE here == IF change.kind = "DELETE" THEN "DELETED" ELSE "AVAILABLE"
           after(n) == CASE n = change.name -> here
                         [] change.kind = "MOVE" /\ n = change.previous
                              /\ n # change.name -> "NONE"
                         [] OTHER -> ledger.artifact[n]
<1>1. ArtifactsAfter(ledger, change) = [n \in names |-> after(n)]
  BY DEF ArtifactsAfter, LedgerOf
<1>2. ASSUME NEW n \in names
      PROVE  /\ n = change.name => after(n) = here
             /\ n # change.name /\ change.kind = "MOVE" /\ n = change.previous =>
                  after(n) = "NONE"
             /\ n # change.name /\ ~(change.kind = "MOVE" /\ n = change.previous) =>
                  after(n) = ledger.artifact[n]
  OBVIOUS
<1>3. \A n \in names : ledger.artifact[n] \in Availability
  BY DEF LedgerOf
<1>4. here \in Availability
  BY DEF Availability
<1> HIDE DEF after
<1>5. \A n \in names : after(n) \in Availability
  BY <1>2, <1>3, <1>4 DEF Availability
<1> QED
  BY <1>1, <1>2, <1>5

LEMMA RegisteredTyped ==
  ASSUME NEW names, NEW ledger, LedgerOf(ledger, names), NEW change
  PROVE  LedgerOf(Registered(ledger, change), names)
  BY ArtifactsAfterFacts DEF Registered, LedgerOf

-----------------------------------------------------------------------------
(* GitHub: the branch, its deliveries and the mounts that take them in.     *)

GitChange ==
  [fingerprint : {"commit", "blob"} \X Nat \X Path, kind : Kind, name : Path,
   previous : Path, delivery : Nat]
GitWork == [change : GitChange, commit : Nat]
RequestRecord ==
  [delivery : Nat, todo : Seq(GitMount), batch : Seq(GitWork),
   at : {"idle", "next", "mark", "persist"}]
ScanRecord ==
  [at : {"none", "list", "persist", "done", "failed"}, batch : Seq(GitWork)]

\* The shapes of the branch, of the mounts and of the requests.
GitTyped ==
  /\ branch = [content |-> branch.content, commits |-> branch.commits,
               pushes |-> branch.pushes]
  /\ branch.content \in [Path -> Nat]
  /\ branch.commits \in Seq(Commit) /\ branch.pushes \in Seq(Push)
  /\ lastSeen \in [GitMount -> Nat]
  /\ DOMAIN gitLedger = GitMount
  /\ \A m \in GitMount : LedgerOf(gitLedger[m], Path)
  /\ request \in [Request -> RequestRecord]
  /\ scan \in [GitMount -> ScanRecord]
  /\ done \in [GitMount -> SUBSET Nat] /\ missed \in [GitMount -> SUBSET Nat]
  /\ disorder \subseteq GitMount

\* A push is of commits of the branch.
PushesOnBranch ==
  \A d \in DOMAIN branch.pushes :
    branch.pushes[d].first >= 1 /\ branch.pushes[d].last <= Len(branch.commits)

\* What a mount has seen, and what a request is about, has been pushed.
SeenIsPushed == \A m \in GitMount : lastSeen[m] <= Len(branch.pushes)

\* A request under way has a push to tell of and a mount to tell, and carries
\* commits from the reading of the push to the last of them only.
RequestShape ==
  \A r \in Request :
    /\ request[r].at # "idle" =>
         request[r].delivery \in DOMAIN branch.pushes /\ request[r].todo # <<>>
    /\ request[r].at \in {"idle", "next"} => request[r].batch = <<>>

\* The request r is registering the commit n of the delivery d with mount m.
Carries(r, m, d, n) ==
  /\ request[r].at = "persist" /\ request[r].delivery = d
  /\ Head(request[r].todo) = m
  /\ \E i \in DOMAIN request[r].batch : request[r].batch[i].commit = n

\* Each commit of the delivery a mount saw last is registered, none of its
\* business, dropped with a request, or on its way.
SeenIsCarried ==
  \A m \in GitMount, d \in DOMAIN branch.pushes :
    lastSeen[m] = d =>
      \A n \in branch.pushes[d].first .. branch.pushes[d].last :
        n \in done[m] \cup missed[m] \/ \E r \in Request : Carries(r, m, d, n)

GitInv == GitTyped /\ PushesOnBranch /\ SeenIsPushed /\ RequestShape /\ SeenIsCarried

\* Somebody's next commit is a commit, and leaves a content of the branch.
LEMMA CommitsTyped ==
  ASSUME NEW content \in [Path -> Nat]
  PROVE  /\ NextCommits(content) \subseteq Commit
         /\ \A c \in Commit : ContentAfter(content, c) \in [Path -> Nat]
<1>1. ASSUME NEW c \in NextCommits(content) PROVE c \in Commit
  <2> DEFINE here == {p \in Path : content[p] # 0}
  <2>1. CASE \E p \in Path \ here :
               c = [status |-> "added", file |-> p, from |-> p, content |-> 1]
    BY <2>1 DEF Commit
  <2>2. CASE \E p \in here :
               c = [status |-> "modified", file |-> p, from |-> p, content |-> content[p] + 1]
    BY <2>2 DEF Commit
  <2>3. CASE \E p \in here :
               c = [status |-> "removed", file |-> p, from |-> p, content |-> 0]
    BY <2>3 DEF Commit
  <2>4. CASE \E p \in here, q \in Path \ here :
               c = [status |-> "renamed", file |-> q, from |-> p, content |-> content[p]]
    BY <2>4 DEF Commit
  <2> QED
    BY <2>1, <2>2, <2>3, <2>4 DEF NextCommits
<1>2. ASSUME NEW c \in Commit PROVE ContentAfter(content, c) \in [Path -> Nat]
  BY DEF ContentAfter, Commit
<1> QED
  BY <1>1, <1>2

\* What a commit tells a mount is a change.
LEMMA ChangeTyped ==
  ASSUME GitTyped, NEW n \in DOMAIN branch.commits, NEW delivery \in Nat
  PROVE  Work(ChangeOf(n, delivery), n) \in GitWork
         /\ Work(ChangeOf(n, delivery), n).commit = n
<1> DEFINE c == branch.commits[n]
<1>1. c \in Commit /\ n \in Nat
  BY DEF GitTyped
<1>2. KindOf(c) \in Kind
  BY <1>1, Zenon DEF KindOf, Kind
<1>3. c.file \in Path /\ c.from \in Path
  BY <1>1 DEF Commit
<1>4. <<"commit", n, c.file>> \in {"commit", "blob"} \X Nat \X Path
  BY <1>1, <1>3
<1> QED
  BY <1>1, <1>2, <1>3, <1>4 DEF Work, ChangeOf, Change, GitWork, GitChange

\* What a mount takes in leaves the shapes as they are.
LEMMA TakeTyped ==
  ASSUME GitTyped, NEW m \in GitMount, NEW work \in GitWork, Take(m, work)
  PROVE  /\ DOMAIN gitLedger' = GitMount
         /\ \A k \in GitMount : LedgerOf(gitLedger'[k], Path)
         /\ disorder' \subseteq GitMount
<1>1. /\ gitLedger' = [gitLedger EXCEPT ![m] = Registered(gitLedger[m], work.change)]
      /\ disorder' \subseteq disorder \cup {m}
  BY DEF Take
<1>2. /\ DOMAIN gitLedger = GitMount
      /\ \A k \in GitMount : LedgerOf(gitLedger[k], Path)
      /\ disorder \subseteq GitMount
  BY DEF GitTyped
<1>3. LedgerOf(Registered(gitLedger[m], work.change), Path)
  BY <1>2, RegisteredTyped
<1>4. /\ DOMAIN gitLedger' = GitMount
      /\ \A k \in GitMount : LedgerOf(gitLedger'[k], Path)
  BY <1>1, <1>2, <1>3
<1> QED
  BY <1>1, <1>2, <1>4

\* The request r changes: the others carry what they carried, and what r
\* carried is dropped, registered or still carried.
LEMMA GitRequestStep ==
  ASSUME GitInv, NEW r \in Request, NEW next \in RequestRecord,
         request' = [request EXCEPT ![r] = next],
         UNCHANGED <<branch, lastSeen>>,
         done' \in [GitMount -> SUBSET Nat], missed' \in [GitMount -> SUBSET Nat],
         \A m \in GitMount : done[m] \subseteq done'[m] /\ missed[m] \subseteq missed'[m],
         next.at # "idle" => /\ next.delivery \in DOMAIN branch.pushes
                             /\ next.todo # <<>>,
         next.at \in {"idle", "next"} => next.batch = <<>>,
         \A m \in GitMount, d \in DOMAIN branch.pushes, n \in Nat :
           Carries(r, m, d, n) => n \in done'[m] \cup missed'[m] \/ Carries(r, m, d, n)'
  PROVE  /\ request' \in [Request -> RequestRecord]
         /\ RequestShape' /\ SeenIsCarried'
<1>1. GitTyped /\ RequestShape /\ SeenIsCarried /\ PushesOnBranch
  BY DEF GitInv
<1>2. /\ request' \in [Request -> RequestRecord] /\ request'[r] = next
      /\ \A q \in Request \ {r} : request'[q] = request[q]
  BY <1>1 DEF GitTyped
<1>3. RequestShape'
  BY <1>1, <1>2 DEF RequestShape
<1>4. SeenIsCarried'
  <2> SUFFICES ASSUME NEW m \in GitMount, NEW d \in DOMAIN branch.pushes, lastSeen[m] = d,
                      NEW n \in branch.pushes[d].first .. branch.pushes[d].last
               PROVE  n \in done'[m] \cup missed'[m] \/ \E q \in Request : Carries(q, m, d, n)'
    BY DEF SeenIsCarried
  <2>1. n \in Nat
    <3>1. branch.pushes[d] \in Push
      BY <1>1 DEF GitTyped
    <3> QED
      BY <3>1 DEF Push
  <2>2. n \in done[m] \cup missed[m] \/ \E q \in Request : Carries(q, m, d, n)
    BY <1>1 DEF SeenIsCarried
  <2>3. CASE n \in done[m] \cup missed[m]
    BY <2>3
  <2>4. ASSUME NEW q \in Request, Carries(q, m, d, n)
        PROVE  n \in done'[m] \cup missed'[m] \/ Carries(q, m, d, n)'
    <3>1. CASE q = r
      BY <2>1, <2>4, <3>1
    <3>2. CASE q # r
      BY <1>2, <2>4, <3>2 DEF Carries
    <3> QED
      BY <3>1, <3>2
  <2> QED
    BY <2>2, <2>3, <2>4
<1> QED
  BY <1>2, <1>3, <1>4

LEMMA GitStutter ==
  ASSUME GitInv,
         UNCHANGED <<branch, lastSeen, gitLedger, request, scan, done, missed, disorder>>
  PROVE  GitInv'
<1>1. GitTyped' /\ PushesOnBranch' /\ SeenIsPushed' /\ RequestShape'
  BY DEF GitInv, GitTyped, PushesOnBranch, SeenIsPushed, RequestShape
<1>2. SeenIsCarried'
  BY DEF GitInv, SeenIsCarried, Carries
<1> QED
  BY <1>1, <1>2 DEF GitInv

\* The branch grows.
LEMMA GitPush ==
  ASSUME GitInv, PushCommits
  PROVE  GitInv'
<1>1. PICK c \in NextCommits(branch.content) :
        \E more \in {<<>>} \cup {<<d>> : d \in NextCommits(ContentAfter(branch.content, c))} :
          branch' = [content |-> IF more = <<>> THEN ContentAfter(branch.content, c)
                                 ELSE ContentAfter(ContentAfter(branch.content, c), more[1]),
                     commits |-> branch.commits \o <<c>> \o more,
                     pushes |-> Append(branch.pushes,
                       [first |-> Len(branch.commits) + 1,
                        last |-> Len(branch.commits \o <<c>> \o more)])]
  BY DEF PushCommits
<1>2. PICK more \in {<<>>} \cup {<<d>> : d \in NextCommits(ContentAfter(branch.content, c))} :
          branch' = [content |-> IF more = <<>> THEN ContentAfter(branch.content, c)
                                 ELSE ContentAfter(ContentAfter(branch.content, c), more[1]),
                     commits |-> branch.commits \o <<c>> \o more,
                     pushes |-> Append(branch.pushes,
                       [first |-> Len(branch.commits) + 1,
                        last |-> Len(branch.commits \o <<c>> \o more)])]
  BY <1>1
<1>3. UNCHANGED <<lastSeen, gitLedger, request, scan, gitUsed, upTo, done, missed, disorder>>
  BY DEF PushCommits
<1>4. GitTyped /\ PushesOnBranch /\ SeenIsPushed /\ RequestShape /\ SeenIsCarried
  BY DEF GitInv
<1>5. /\ branch.content \in [Path -> Nat]
      /\ branch.commits \in Seq(Commit) /\ Len(branch.commits) \in Nat
      /\ branch.pushes \in Seq(Push) /\ Len(branch.pushes) \in Nat
  BY <1>4 DEF GitTyped
<1>6. c \in Commit /\ ContentAfter(branch.content, c) \in [Path -> Nat]
  BY <1>5, CommitsTyped
<1>7. more \in Seq(Commit) /\ (more # <<>> => more[1] \in Commit)
  <2>1. CASE more = <<>>
    BY <2>1
  <2>2. CASE \E d \in NextCommits(ContentAfter(branch.content, c)) : more = <<d>>
    <3>1. PICK d \in NextCommits(ContentAfter(branch.content, c)) : more = <<d>>
      BY <2>2
    <3>2. d \in Commit
      BY <1>6, CommitsTyped
    <3> QED
      BY <3>1, <3>2
  <2> QED
    BY <2>1, <2>2
<1> DEFINE commits == branch.commits \o <<c>> \o more
           new == [first |-> Len(branch.commits) + 1, last |-> Len(commits)]
<1>8. commits \in Seq(Commit) /\ Len(commits) \in Nat /\ Len(branch.commits) <= Len(commits)
  BY <1>5, <1>6, <1>7
<1> HIDE DEF commits
<1>9. new \in Push
  BY <1>5, <1>8 DEF Push
<1> HIDE DEF new
<1>10. branch'.content \in [Path -> Nat]
  BY <1>2, <1>6, <1>7, CommitsTyped
<1>11. /\ branch' = [content |-> branch'.content, commits |-> commits,
                     pushes |-> Append(branch.pushes, new)]
  BY <1>2 DEF commits, new
<1>12. /\ branch'.pushes \in Seq(Push) /\ Len(branch'.pushes) = Len(branch.pushes) + 1
       /\ DOMAIN branch'.pushes = 1..(Len(branch.pushes) + 1)
       /\ DOMAIN branch.pushes = 1..Len(branch.pushes)
       /\ \A d \in 1..Len(branch.pushes) : branch'.pushes[d] = branch.pushes[d]
       /\ branch'.pushes[Len(branch.pushes) + 1] = new
  BY <1>5, <1>9, <1>11, AppendFacts
<1>13. branch'.commits = commits
  BY <1>11
<1>14. GitTyped'
  BY <1>3, <1>4, <1>8, <1>10, <1>11, <1>12, <1>13 DEF GitTyped
<1>15. PushesOnBranch'
  <2> SUFFICES ASSUME NEW d \in DOMAIN branch'.pushes
               PROVE  branch'.pushes[d].first >= 1 /\ branch'.pushes[d].last <= Len(commits)
    BY <1>13 DEF PushesOnBranch
  <2>1. CASE d \in 1..Len(branch.pushes)
    <3>1. /\ branch'.pushes[d] = branch.pushes[d] /\ branch.pushes[d] \in Push
          /\ branch.pushes[d].first >= 1 /\ branch.pushes[d].last <= Len(branch.commits)
      BY <1>4, <1>12, <2>1 DEF PushesOnBranch, GitTyped
    <3> QED
      BY <1>5, <1>8, <3>1 DEF Push
  <2>2. CASE d = Len(branch.pushes) + 1
    BY <1>5, <1>8, <1>12, <2>2 DEF new
  <2> QED
    BY <1>5, <1>12, <2>1, <2>2
<1>16. SeenIsPushed'
  BY <1>3, <1>4, <1>5, <1>12 DEF SeenIsPushed, GitTyped
<1>17. RequestShape'
  BY <1>3, <1>4, <1>5, <1>12 DEF RequestShape
<1>18. SeenIsCarried'
  <2> SUFFICES ASSUME NEW m \in GitMount, NEW d \in DOMAIN branch'.pushes, lastSeen[m] = d,
                      NEW n \in branch'.pushes[d].first .. branch'.pushes[d].last
               PROVE  n \in done[m] \cup missed[m] \/ \E r \in Request : Carries(r, m, d, n)
    BY <1>3 DEF SeenIsCarried, Carries
  <2>1. d \in 1..Len(branch.pushes)
    BY <1>4, <1>5, <1>12 DEF SeenIsPushed, GitTyped
  <2> QED
    BY <1>4, <1>12, <2>1 DEF SeenIsCarried
<1> QED
  BY <1>14, <1>15, <1>16, <1>17, <1>18 DEF GitInv

\* A delivery, or its repetition, reaches an instance.
LEMMA GitDeliver ==
  ASSUME GitInv, NEW r \in Request, NEW d \in DOMAIN branch.pushes, Deliver(r, d)
  PROVE  GitInv'
<1> DEFINE mounts == {m \in GitMount : scan[m].at # "none"}
           next == [IdleRequest EXCEPT !.delivery = d, !.at = "next",
                                       !.todo = SetToSeq(mounts)]
<1>1. /\ request[r].at = "idle"
      /\ request' = IF mounts = {} THEN request ELSE [request EXCEPT ![r] = next]
      /\ UNCHANGED <<branch, lastSeen, gitLedger, scan, upTo, done, missed, disorder>>
  BY DEF Deliver
<1>2. GitTyped /\ PushesOnBranch /\ SeenIsPushed
  BY DEF GitInv
<1>3. CASE mounts = {}
  <2>1. UNCHANGED <<branch, lastSeen, gitLedger, request, scan, done, missed, disorder>>
    BY <1>1, <1>3
  <2> QED
    BY <2>1, GitStutter
<1>4. CASE mounts # {}
  <2>1. IsFiniteSet(mounts)
    BY GitFinite, FS_Subset
  <2>2. SetToSeq(mounts) \in Seq(mounts) /\ SetToSeq(mounts) # <<>>
    <3> HIDE DEF mounts
    <3>1. /\ SetToSeq(mounts) \in Seq(mounts)
          /\ \A x \in mounts : \E i \in DOMAIN SetToSeq(mounts) : SetToSeq(mounts)[i] = x
      BY <2>1, SetToSeqFacts
    <3>2. DOMAIN SetToSeq(mounts) # {}
      BY <1>4, <3>1
    <3> QED
      BY <3>1, <3>2
  <2>3. SetToSeq(mounts) \in Seq(GitMount) /\ d \in Nat
    BY <1>2, <2>2 DEF GitTyped
  <2> HIDE DEF mounts
  <2>4. /\ next \in RequestRecord /\ next.at = "next" /\ next.delivery = d
        /\ next.todo # <<>> /\ next.batch = <<>>
    <3>1. IdleRequest \in RequestRecord /\ IdleRequest.batch = <<>>
      BY DEF IdleRequest, RequestRecord
    <3> QED
      BY <2>2, <2>3, <3>1 DEF RequestRecord
  <2> HIDE DEF next
  <2>5. request' = [request EXCEPT ![r] = next]
    BY <1>1, <1>4
  <2>6. \A m \in GitMount, e \in DOMAIN branch.pushes, n \in Nat : ~ Carries(r, m, e, n)
    BY <1>1 DEF Carries
  <2>7. /\ done' \in [GitMount -> SUBSET Nat] /\ missed' \in [GitMount -> SUBSET Nat]
        /\ \A m \in GitMount : done[m] \subseteq done'[m] /\ missed[m] \subseteq missed'[m]
    BY <1>1, <1>2 DEF GitTyped
  <2>8. request' \in [Request -> RequestRecord] /\ RequestShape' /\ SeenIsCarried'
    BY <1>1, <2>4, <2>5, <2>6, <2>7, GitRequestStep
  <2> QED
    BY <1>1, <1>2, <2>8 DEF GitInv, GitTyped, PushesOnBranch, SeenIsPushed
<1> QED
  BY <1>3, <1>4

\* The commits of the push are read for the next mount.
LEMMA GitProcess ==
  ASSUME GitInv, NEW r \in Request, Process(r)
  PROVE  GitInv'
<1> DEFINE d == request[r].delivery
           push == branch.pushes[d]
           ours == {n \in push.first .. push.last : Concerns(branch.commits[n])}
           order == Ascending(ours)
           batch == [i \in DOMAIN order |-> Work(ChangeOf(order[i], d), order[i])]
           next == IF Fresh(Head(request[r].todo), d)
                   THEN [request[r] EXCEPT !.at = "mark", !.batch = batch]
                   ELSE [request[r] EXCEPT !.at = "persist"]
<1>1. /\ request[r].at = "next"
      /\ request' = [request EXCEPT ![r] = next]
      /\ UNCHANGED <<branch, lastSeen, gitLedger, scan, upTo, done, missed, disorder>>
  BY DEF Process
<1>2. GitTyped /\ PushesOnBranch /\ SeenIsPushed /\ RequestShape
  BY DEF GitInv
<1>3. /\ request[r] \in RequestRecord /\ d \in DOMAIN branch.pushes /\ d \in Nat
      /\ request[r].todo # <<>> /\ request[r].batch = <<>>
  BY <1>1, <1>2 DEF GitTyped, RequestShape
<1>4. /\ push \in Push /\ push.first >= 1 /\ push.last <= Len(branch.commits)
  BY <1>2, <1>3 DEF GitTyped, PushesOnBranch
<1> HIDE DEF push, d
<1>5. /\ ours \in SUBSET Nat /\ IsFiniteSet(ours) /\ ours \subseteq DOMAIN branch.commits
  <2>1. /\ push.first \in Nat /\ push.last \in Nat
    BY <1>4 DEF Push
  <2>2. IsFiniteSet(push.first .. push.last)
    <3> DEFINE first == push.first
               last == push.last
    <3>1. first \in Int /\ last \in Int
      BY <2>1
    <3> HIDE DEF first, last
    <3>2. IsFiniteSet(first .. last)
      BY <3>1, FS_Interval
    <3> QED
      BY <3>2 DEF first, last
  <2>3. ours \in SUBSET (push.first .. push.last)
    OBVIOUS
  <2>4. IsFiniteSet(ours)
    BY <2>2, <2>3, FS_Subset
  <2>5. branch.commits \in Seq(Commit)
    BY <1>2 DEF GitTyped
  <2> QED
    BY <1>4, <2>1, <2>3, <2>4, <2>5
<1> HIDE DEF ours
<1>6. /\ order \in Seq(ours) /\ DOMAIN order = 1..Cardinality(ours)
      /\ Cardinality(ours) \in Nat
  BY <1>5, AscendingFacts
<1> HIDE DEF order
<1>7. batch \in Seq(GitWork)
  <2>1. ASSUME NEW i \in 1..Cardinality(ours)
        PROVE  Work(ChangeOf(order[i], d), order[i]) \in GitWork
    <3>1. order[i] \in DOMAIN branch.commits
      <4>1. order[i] \in ours
        BY <1>6
      <4> QED
        BY <1>5, <4>1
    <3> QED
      BY <1>2, <1>3, <3>1, ChangeTyped
  <2> QED
    BY <1>6, <2>1
<1> HIDE DEF batch
<1>8. /\ next \in RequestRecord /\ next.delivery = d /\ next.todo = request[r].todo
      /\ next.at \in {"mark", "persist"}
  BY <1>3, <1>7 DEF RequestRecord, d
<1> HIDE DEF next
<1>9. \A m \in GitMount, e \in DOMAIN branch.pushes, n \in Nat : ~ Carries(r, m, e, n)
  BY <1>1 DEF Carries
<1>10. /\ done' \in [GitMount -> SUBSET Nat] /\ missed' \in [GitMount -> SUBSET Nat]
       /\ \A m \in GitMount : done[m] \subseteq done'[m] /\ missed[m] \subseteq missed'[m]
  BY <1>1, <1>2 DEF GitTyped
<1>11. request' \in [Request -> RequestRecord] /\ RequestShape' /\ SeenIsCarried'
  BY <1>1, <1>3, <1>8, <1>9, <1>10, GitRequestStep
<1> QED
  BY <1>1, <1>2, <1>11 DEF GitInv, GitTyped, PushesOnBranch, SeenIsPushed

\* The delivery is saved as seen: of its commits those that are none of the
\* mount's business are done with, and the request carries the others.
LEMMA GitMark ==
  ASSUME GitInv, NEW r \in Request, MarkSeen(r)
  PROVE  GitInv'
<1> DEFINE m == Head(request[r].todo)
           d == request[r].delivery
           push == branch.pushes[d]
           ours == {request[r].batch[i].commit : i \in DOMAIN request[r].batch}
<1>1. /\ request[r].at = "mark"
      /\ request' = [request EXCEPT ![r].at = "persist"]
      /\ lastSeen' = [lastSeen EXCEPT ![m] = d]
      /\ done' = [done EXCEPT ![m] = done[m] \cup ((push.first .. push.last) \ ours)]
      /\ UNCHANGED <<branch, gitLedger, scan, upTo, missed, disorder>>
  BY DEF MarkSeen
<1>2. GitTyped /\ PushesOnBranch /\ SeenIsPushed /\ RequestShape /\ SeenIsCarried
  BY DEF GitInv
<1>3. /\ request[r] \in RequestRecord /\ d \in DOMAIN branch.pushes /\ d \in Nat
      /\ request[r].todo # <<>> /\ m \in GitMount /\ push \in Push
      /\ d <= Len(branch.pushes)
  <2>1. /\ request[r] \in RequestRecord /\ request[r].todo # <<>>
        /\ d \in DOMAIN branch.pushes /\ branch.pushes \in Seq(Push)
    BY <1>1, <1>2 DEF GitTyped, RequestShape
  <2>2. request[r].todo \in Seq(GitMount)
    BY <2>1 DEF RequestRecord
  <2>3. m \in GitMount
    BY <2>1, <2>2, TailFacts
  <2> QED
    BY <2>1, <2>3
<1>4. /\ request' \in [Request -> RequestRecord]
      /\ request'[r].at = "persist" /\ request'[r].delivery = d
      /\ request'[r].todo = request[r].todo /\ request'[r].batch = request[r].batch
      /\ \A q \in Request \ {r} : request'[q] = request[q]
  BY <1>1, <1>2 DEF GitTyped, RequestRecord
<1> HIDE DEF m, d, push, ours
<1>5. /\ done' \in [GitMount -> SUBSET Nat]
      /\ \A k \in GitMount : done[k] \subseteq done'[k]
      /\ (push.first .. push.last) \ ours \subseteq done'[m]
  <2>1. (push.first .. push.last) \subseteq Nat
    BY <1>3 DEF Push
  <2> QED
    BY <1>1, <1>2, <1>3, <2>1 DEF GitTyped
<1>6. /\ lastSeen' \in [GitMount -> Nat] /\ lastSeen'[m] = d
      /\ \A k \in GitMount \ {m} : lastSeen'[k] = lastSeen[k]
  BY <1>1, <1>2, <1>3 DEF GitTyped
<1>7. GitTyped'
  BY <1>1, <1>2, <1>4, <1>5, <1>6 DEF GitTyped
<1>8. PushesOnBranch' /\ SeenIsPushed'
  BY <1>1, <1>2, <1>3, <1>6 DEF PushesOnBranch, SeenIsPushed
<1>9. RequestShape'
  BY <1>1, <1>2, <1>3, <1>4 DEF RequestShape
<1>10. SeenIsCarried'
  <2> SUFFICES ASSUME NEW k \in GitMount, NEW e \in DOMAIN branch.pushes, lastSeen'[k] = e,
                      NEW n \in branch.pushes[e].first .. branch.pushes[e].last
               PROVE  n \in done'[k] \cup missed[k] \/ \E q \in Request : Carries(q, k, e, n)'
    BY <1>1 DEF SeenIsCarried
  <2>1. CASE k = m
    <3>1. e = d /\ n \in push.first .. push.last
      BY <1>6, <2>1 DEF push
    <3>2. CASE n \in ours
      <4>1. Carries(r, k, e, n)'
        BY <1>4, <2>1, <3>1, <3>2 DEF Carries, ours, m
      <4> QED
        BY <4>1
    <3> QED
      BY <1>5, <2>1, <3>1, <3>2
  <2>2. CASE k # m
    <3>1. n \in done[k] \cup missed[k] \/ \E q \in Request : Carries(q, k, e, n)
      BY <1>2, <1>6, <2>2 DEF SeenIsCarried
    <3>2. ASSUME NEW q \in Request, Carries(q, k, e, n) PROVE Carries(q, k, e, n)'
      <4>1. q # r
        BY <1>1, <3>2 DEF Carries
      <4> QED
        BY <1>4, <3>2, <4>1 DEF Carries
    <3> QED
      BY <1>5, <3>1, <3>2
  <2> QED
    BY <2>1, <2>2
<1> QED
  BY <1>7, <1>8, <1>9, <1>10 DEF GitInv

LEMMA IdleTyped ==
  /\ IdleRequest \in RequestRecord
  /\ IdleRequest.at = "idle" /\ IdleRequest.batch = <<>>
  BY DEF IdleRequest, RequestRecord

\* What a request under way has in hand.
LEMMA RequestFacts ==
  ASSUME GitInv, NEW r \in Request, request[r].at # "idle"
  PROVE  /\ request[r] \in RequestRecord
         /\ request[r].delivery \in DOMAIN branch.pushes
         /\ request[r].todo \in Seq(GitMount) /\ request[r].todo # <<>>
         /\ Head(request[r].todo) \in GitMount
         /\ request[r].batch \in Seq(GitWork)
<1>1. /\ request[r] \in RequestRecord /\ request[r].todo # <<>>
      /\ request[r].delivery \in DOMAIN branch.pushes
  BY DEF GitInv, GitTyped, RequestShape
<1>2. request[r].todo \in Seq(GitMount) /\ request[r].batch \in Seq(GitWork)
  BY <1>1 DEF RequestRecord
<1>3. Head(request[r].todo) \in GitMount
  BY <1>1, <1>2, TailFacts
<1> QED
  BY <1>1, <1>2, <1>3

\* The batch of r is dropped: its commits are missed by the mount at its head.
LEMMA GitDropped ==
  ASSUME GitInv, NEW r \in Request, request[r].at = "persist",
         missed' = [missed EXCEPT ![Head(request[r].todo)] =
           @ \cup {request[r].batch[i].commit : i \in DOMAIN request[r].batch}]
  PROVE  /\ missed' \in [GitMount -> SUBSET Nat]
         /\ \A m \in GitMount : missed[m] \subseteq missed'[m]
         /\ \A m \in GitMount : \A d, n : Carries(r, m, d, n) => n \in missed'[m]
<1> DEFINE m == Head(request[r].todo)
           commits == {request[r].batch[i].commit : i \in DOMAIN request[r].batch}
<1>1. m \in GitMount /\ request[r].batch \in Seq(GitWork)
  BY RequestFacts
<1>2. commits \subseteq Nat
  <2> SUFFICES ASSUME NEW i \in DOMAIN request[r].batch PROVE request[r].batch[i].commit \in Nat
    OBVIOUS
  <2>1. request[r].batch[i] \in GitWork
    BY <1>1
  <2> QED
    BY <2>1 DEF GitWork
<1>3. missed \in [GitMount -> SUBSET Nat]
  BY DEF GitInv, GitTyped
<1>4. ASSUME NEW k, NEW d, NEW n, Carries(r, k, d, n) PROVE k = m /\ n \in commits
  BY <1>4 DEF Carries
<1> HIDE DEF m, commits
<1>5. missed' = [missed EXCEPT ![m] = missed[m] \cup commits]
  BY DEF m, commits
<1> QED
  BY <1>1, <1>2, <1>3, <1>4, <1>5

\* A commit of the batch is registered, or refused.
LEMMA GitPersist ==
  ASSUME GitInv, NEW r \in Request, PersistCommit(r)
  PROVE  GitInv'
<1> DEFINE m == Head(request[r].todo)
           batch == request[r].batch
           work == Head(batch)
<1>1. /\ request[r].at = "persist" /\ batch # <<>>
      /\ UNCHANGED <<branch, lastSeen, scan>>
  BY DEF PersistCommit
<1>2. GitTyped /\ PushesOnBranch /\ SeenIsPushed
  BY DEF GitInv
<1>3. /\ request[r] \in RequestRecord /\ request[r].delivery \in DOMAIN branch.pushes
      /\ request[r].todo # <<>> /\ m \in GitMount /\ batch \in Seq(GitWork)
  BY <1>1, RequestFacts
<1>4. CASE Refused(gitLedger[m], work.change, TRUE)
  <2>1. /\ missed' = [missed EXCEPT ![m] = @ \cup {batch[i].commit : i \in DOMAIN batch}]
        /\ request' = [request EXCEPT ![r] = IdleRequest]
        /\ UNCHANGED <<gitLedger, done, upTo, disorder>>
    BY <1>4 DEF PersistCommit
  <2>2. /\ missed' \in [GitMount -> SUBSET Nat]
        /\ \A k \in GitMount : missed[k] \subseteq missed'[k]
        /\ \A k \in GitMount : \A d, n : Carries(r, k, d, n) => n \in missed'[k]
    BY <1>1, <2>1, GitDropped
  <2>3. /\ done' \in [GitMount -> SUBSET Nat]
        /\ \A k \in GitMount : done[k] \subseteq done'[k]
    BY <1>2, <2>1 DEF GitTyped
  <2>4. request' \in [Request -> RequestRecord] /\ RequestShape' /\ SeenIsCarried'
    BY <1>1, <2>1, <2>2, <2>3, IdleTyped, GitRequestStep
  <2> QED
    BY <1>1, <1>2, <2>1, <2>2, <2>4 DEF GitInv, GitTyped, PushesOnBranch, SeenIsPushed
<1>5. CASE ~ Refused(gitLedger[m], work.change, TRUE)
  <2> DEFINE next == [request[r] EXCEPT !.batch = Tail(batch)]
  <2>1. /\ Take(m, work)
        /\ done' = [done EXCEPT ![m] = @ \cup {work.commit}]
        /\ request' = [request EXCEPT ![r].batch = Tail(@)]
        /\ UNCHANGED missed
    BY <1>5 DEF PersistCommit
  <2>2. /\ Tail(batch) \in Seq(GitWork) /\ work \in GitWork
        /\ Len(batch) \in Nat \ {0} /\ DOMAIN batch = 1..Len(batch)
        /\ DOMAIN Tail(batch) = 1..(Len(batch) - 1)
        /\ \A i \in 1..(Len(batch) - 1) : Tail(batch)[i] = batch[i + 1]
        /\ work = batch[1]
    BY <1>1, <1>3, TailFacts
  <2>3. /\ request' = [request EXCEPT ![r] = next] /\ next \in RequestRecord
        /\ next.at = "persist" /\ next.delivery = request[r].delivery
        /\ next.todo = request[r].todo /\ next.batch = Tail(batch)
    BY <1>1, <1>3, <2>1, <2>2 DEF RequestRecord
  <2> HIDE DEF batch, work, next, m
  <2>4. /\ DOMAIN gitLedger' = GitMount
        /\ \A k \in GitMount : LedgerOf(gitLedger'[k], Path)
        /\ disorder' \subseteq GitMount
    BY <1>2, <1>3, <2>1, <2>2, TakeTyped
  <2>5. /\ done' \in [GitMount -> SUBSET Nat]
        /\ \A k \in GitMount : done[k] \subseteq done'[k]
        /\ work.commit \in done'[m]
    <3>1. work.commit \in Nat
      BY <2>2 DEF GitWork
    <3> QED
      BY <1>2, <1>3, <2>1, <3>1 DEF GitTyped
  <2>6. /\ missed' \in [GitMount -> SUBSET Nat]
        /\ \A k \in GitMount : missed[k] \subseteq missed'[k]
    BY <1>2, <2>1 DEF GitTyped
  <2>7. request'[r] = next
    BY <1>2, <2>3 DEF GitTyped
  <2>8. ASSUME NEW k \in GitMount, NEW d \in DOMAIN branch.pushes, NEW n \in Nat,
               Carries(r, k, d, n)
        PROVE  n \in done'[k] \cup missed'[k] \/ Carries(r, k, d, n)'
    <3>1. k = m /\ request[r].delivery = d
      BY <2>8 DEF Carries, m
    <3>2. PICK i \in DOMAIN batch : batch[i].commit = n
      BY <2>8 DEF Carries, batch
    <3>3. CASE i = 1
      BY <2>2, <2>5, <3>1, <3>2, <3>3
    <3>4. CASE i # 1
      <4>1. i - 1 \in DOMAIN Tail(batch) /\ Tail(batch)[i - 1].commit = n
        BY <2>2, <3>2, <3>4
      <4> QED
        BY <2>3, <2>7, <3>1, <4>1 DEF Carries, m
    <3> QED
      BY <3>3, <3>4
  <2>9. request' \in [Request -> RequestRecord] /\ RequestShape' /\ SeenIsCarried'
    BY <1>1, <1>3, <2>3, <2>5, <2>6, <2>8, GitRequestStep
  <2> QED
    BY <1>1, <1>2, <2>4, <2>6, <2>9, <2>5 DEF GitInv, GitTyped, PushesOnBranch, SeenIsPushed
<1> QED
  BY <1>4, <1>5

\* A request turns to the next mount, or ends.
LEMMA GitNextMount ==
  ASSUME GitInv, NEW r \in Request, NextMount(r)
  PROVE  GitInv'
<1> DEFINE todo == request[r].todo
           next == IF Len(todo) = 1 THEN IdleRequest
                   ELSE [request[r] EXCEPT !.at = "next", !.batch = <<>>, !.todo = Tail(todo)]
<1>1. /\ \/ request[r].at = "persist" /\ request[r].batch = <<>>
         \/ request[r].at = "mark"
      /\ request' = [request EXCEPT ![r] = next]
      /\ UNCHANGED <<branch, lastSeen, gitLedger, scan, upTo, done, missed, disorder>>
  <2>1. /\ \/ request[r].at = "persist" /\ request[r].batch = <<>>
           \/ request[r].at = "mark"
        /\ UNCHANGED <<branch, lastSeen, gitLedger, scan, upTo, done, missed, disorder>>
    BY DEF NextMount
  <2>2. request' = [request EXCEPT ![r] = next]
    BY Zenon DEF NextMount
  <2> QED
    BY <2>1, <2>2
<1>2. GitTyped /\ PushesOnBranch /\ SeenIsPushed
  BY DEF GitInv
<1>3. /\ request[r] \in RequestRecord /\ request[r].delivery \in DOMAIN branch.pushes
      /\ todo \in Seq(GitMount) /\ todo # <<>>
  BY <1>1, RequestFacts
<1>4. /\ Len(todo) \in Nat \ {0} /\ Tail(todo) \in Seq(GitMount)
      /\ Len(Tail(todo)) = Len(todo) - 1
  BY <1>3, TailFacts
<1>5. /\ next \in RequestRecord /\ next.batch = <<>> /\ next.at \in {"idle", "next"}
      /\ next.at # "idle" => /\ next.delivery \in DOMAIN branch.pushes
                             /\ next.todo # <<>>
  <2>1. CASE Len(todo) = 1
    BY <2>1, IdleTyped
  <2>2. CASE Len(todo) # 1
    <3> HIDE DEF todo
    <3>1. Tail(todo) # <<>>
      <4>1. Len(Tail(todo)) # 0 /\ Len(<<>>) = 0
        BY <1>4, <2>2
      <4> QED
        BY <4>1
    <3>2. next = [request[r] EXCEPT !.at = "next", !.batch = <<>>, !.todo = Tail(todo)]
      BY <2>2
    <3>3. /\ next.at = "next" /\ next.batch = <<>> /\ next.todo = Tail(todo)
          /\ next.delivery = request[r].delivery
      BY <1>3, <3>2 DEF RequestRecord
    <3>4. <<>> \in Seq(GitWork)
      OBVIOUS
    <3>5. next \in RequestRecord
      <4> HIDE DEF next
      <4> QED
        BY <1>3, <1>4, <3>2, <3>4 DEF RequestRecord
    <3> QED
      BY <1>3, <3>1, <3>3, <3>5
  <2> QED
    BY <2>1, <2>2
<1> HIDE DEF next
<1>6. \A m \in GitMount, d \in DOMAIN branch.pushes, n \in Nat : ~ Carries(r, m, d, n)
  BY <1>1 DEF Carries
<1>7. /\ done' \in [GitMount -> SUBSET Nat] /\ missed' \in [GitMount -> SUBSET Nat]
      /\ \A m \in GitMount : done[m] \subseteq done'[m] /\ missed[m] \subseteq missed'[m]
  BY <1>1, <1>2 DEF GitTyped
<1>8. request' \in [Request -> RequestRecord] /\ RequestShape' /\ SeenIsCarried'
  BY <1>1, <1>5, <1>6, <1>7, GitRequestStep
<1> QED
  BY <1>1, <1>2, <1>8 DEF GitInv, GitTyped, PushesOnBranch, SeenIsPushed

\* A request ends half-way; before the delivery is saved as seen nothing is
\* lost, afterwards what is left of the batch is missed.
LEMMA GitStop ==
  ASSUME GitInv, NEW r \in Request, Stop(r)
  PROVE  GitInv'
<1>1. /\ request[r].at \in {"mark", "persist"}
      /\ missed' = IF request[r].at = "mark" THEN missed
                   ELSE [missed EXCEPT ![Head(request[r].todo)] =
                     @ \cup {request[r].batch[i].commit : i \in DOMAIN request[r].batch}]
      /\ request' = [request EXCEPT ![r] = IdleRequest]
      /\ UNCHANGED <<branch, lastSeen, gitLedger, scan, upTo, done, disorder>>
  BY DEF Stop
<1>2. GitTyped /\ PushesOnBranch /\ SeenIsPushed
  BY DEF GitInv
<1>3. /\ done' \in [GitMount -> SUBSET Nat]
      /\ \A k \in GitMount : done[k] \subseteq done'[k]
  BY <1>1, <1>2 DEF GitTyped
<1>4. /\ missed' \in [GitMount -> SUBSET Nat]
      /\ \A k \in GitMount : missed[k] \subseteq missed'[k]
      /\ \A k \in GitMount, d \in DOMAIN branch.pushes, n \in Nat :
           Carries(r, k, d, n) => n \in missed'[k]
  <2>1. CASE request[r].at = "mark"
    <3>1. missed' = missed /\ \A k, d, n : ~ Carries(r, k, d, n)
      BY <1>1, <2>1 DEF Carries
    <3> QED
      BY <1>2, <3>1 DEF GitTyped
  <2>2. CASE request[r].at = "persist"
    <3>1. missed' = [missed EXCEPT ![Head(request[r].todo)] =
                     @ \cup {request[r].batch[i].commit : i \in DOMAIN request[r].batch}]
      BY <1>1, <2>2
    <3> QED
      BY <2>2, <3>1, GitDropped
  <2> QED
    BY <1>1, <2>1, <2>2
<1>5. request' \in [Request -> RequestRecord] /\ RequestShape' /\ SeenIsCarried'
  BY <1>1, <1>3, <1>4, IdleTyped, GitRequestStep
<1> QED
  BY <1>1, <1>2, <1>3, <1>4, <1>5 DEF GitInv, GitTyped, PushesOnBranch, SeenIsPushed

\* A mount is made, lists the tree and takes it in: the requests stay as they
\* are, and what is done or missed is not forgotten but where the mount starts.
LEMMA GitMountStep ==
  ASSUME GitInv, NEW m \in GitMount, NEW next \in ScanRecord,
         scan' = [scan EXCEPT ![m] = next],
         UNCHANGED <<branch, lastSeen, request, missed>>,
         DOMAIN gitLedger' = GitMount,
         \A k \in GitMount : LedgerOf(gitLedger'[k], Path),
         done' \in [GitMount -> SUBSET Nat],
         \A k \in GitMount :
           done[k] \subseteq done'[k] \/ DOMAIN branch.commits \subseteq done'[k],
         disorder' \subseteq GitMount
  PROVE  GitInv'
<1>1. GitTyped /\ PushesOnBranch /\ SeenIsPushed /\ RequestShape /\ SeenIsCarried
  BY DEF GitInv
<1>2. GitTyped'
  BY <1>1 DEF GitTyped
<1>3. PushesOnBranch' /\ SeenIsPushed' /\ RequestShape'
  BY <1>1 DEF PushesOnBranch, SeenIsPushed, RequestShape
<1>4. SeenIsCarried'
  <2> SUFFICES ASSUME NEW k \in GitMount, NEW d \in DOMAIN branch.pushes, lastSeen[k] = d,
                      NEW n \in branch.pushes[d].first .. branch.pushes[d].last
               PROVE  n \in done'[k] \cup missed[k] \/ \E q \in Request : Carries(q, k, d, n)
    BY DEF SeenIsCarried, Carries
  <2>1. n \in DOMAIN branch.commits
    <3>1. /\ branch.pushes[d] \in Push /\ branch.commits \in Seq(Commit)
          /\ branch.pushes[d].first >= 1 /\ branch.pushes[d].last <= Len(branch.commits)
      BY <1>1 DEF GitTyped, PushesOnBranch
    <3> QED
      BY <3>1 DEF Push
  <2>2. n \in done[k] \cup missed[k] \/ \E q \in Request : Carries(q, k, d, n)
    BY <1>1 DEF SeenIsCarried
  <2> QED
    BY <2>1, <2>2
<1> QED
  BY <1>2, <1>3, <1>4 DEF GitInv

LEMMA GitScan ==
  ASSUME GitInv, NEW m \in GitMount
  PROVE  /\ MountRepository(m) => GitInv'
         /\ ListTree(m) => GitInv'
         /\ PersistFile(m) => GitInv'
         /\ EndScan(m) => GitInv'
<1>1. /\ GitTyped /\ scan[m] \in ScanRecord /\ DOMAIN gitLedger = GitMount
      /\ \A k \in GitMount : LedgerOf(gitLedger[k], Path)
      /\ done \in [GitMount -> SUBSET Nat] /\ disorder \subseteq GitMount
      /\ branch.commits \in Seq(Commit) /\ Len(branch.commits) \in Nat
  BY DEF GitInv, GitTyped
<1>2. ASSUME MountRepository(m) PROVE GitInv'
  <2> DEFINE next == [scan[m] EXCEPT !.at = "list"]
  <2>1. /\ scan' = [scan EXCEPT ![m] = next]
        /\ done' = [done EXCEPT ![m] = DOMAIN branch.commits]
        /\ UNCHANGED <<branch, lastSeen, gitLedger, request, missed, disorder>>
    BY <1>2 DEF MountRepository
  <2>2. next \in ScanRecord
    BY <1>1 DEF ScanRecord
  <2>3. /\ done' \in [GitMount -> SUBSET Nat]
        /\ \A k \in GitMount :
             done[k] \subseteq done'[k] \/ DOMAIN branch.commits \subseteq done'[k]
    BY <1>1, <2>1
  <2> HIDE DEF next
  <2> QED
    BY <1>1, <2>1, <2>2, <2>3, GitMountStep
<1>3. ASSUME ListTree(m) PROVE GitInv'
  <2> DEFINE present == {p \in Tracked : branch.content[p] # 0}
             creation(p) == Change(<<"blob", branch.content[p], p>>, "CREATE", p, p, 0)
             work == [p \in present |-> Work(creation(p), Len(branch.commits))]
             works == {Work(creation(p), Len(branch.commits)) : p \in present}
             next == [scan[m] EXCEPT !.at = "persist", !.batch = SetToSeq(works)]
  <2>1. /\ scan' = [scan EXCEPT ![m] = next]
        /\ UNCHANGED <<branch, lastSeen, gitLedger, request, done, missed, disorder>>
    BY <1>3 DEF ListTree
  <2>2. IsFiniteSet(works)
    <3>1. IsFiniteSet(present)
      BY TrackedAssumption, GitFinite, FS_Subset
    <3>2. works = {work[p] : p \in present} /\ DOMAIN work = present
      OBVIOUS
    <3> HIDE DEF works, work, present
    <3> QED
      BY <3>1, <3>2, FiniteRange
  <2>3. works \subseteq GitWork
    <3> SUFFICES ASSUME NEW p \in present
                 PROVE  Work(creation(p), Len(branch.commits)) \in GitWork
      OBVIOUS
    <3>1. p \in Path /\ branch.content[p] \in Nat
      BY <1>1, TrackedAssumption DEF GitTyped
    <3>2. <<"blob", branch.content[p], p>> \in {"commit", "blob"} \X Nat \X Path
      BY <3>1
    <3> QED
      BY <1>1, <3>1, <3>2 DEF Work, Change, GitWork, GitChange, Kind
  <2> HIDE DEF works
  <2>4. SetToSeq(works) \in Seq(GitWork)
    <3>1. SetToSeq(works) \in Seq(works)
      BY <2>2, SetToSeqFacts
    <3> QED
      BY <2>3, <3>1
  <2>5. next \in ScanRecord
    BY <1>1, <2>4 DEF ScanRecord
  <2> HIDE DEF next
  <2> QED
    BY <1>1, <2>1, <2>5, GitMountStep
<1>4. ASSUME PersistFile(m) PROVE GitInv'
  <2> DEFINE work == Head(scan[m].batch)
  <2>1. /\ scan[m].batch # <<>> /\ scan[m].batch \in Seq(GitWork)
        /\ UNCHANGED <<branch, lastSeen, request, done, missed>>
    BY <1>1, <1>4 DEF PersistFile, ScanRecord
  <2>2. work \in GitWork /\ Tail(scan[m].batch) \in Seq(GitWork)
    BY <2>1, TailFacts
  <2>3. CASE Refused(gitLedger[m], work.change, TRUE)
    <3> DEFINE next == [scan[m] EXCEPT !.at = "failed", !.batch = <<>>]
    <3>1. /\ scan' = [scan EXCEPT ![m].at = "failed", ![m].batch = <<>>]
          /\ UNCHANGED <<gitLedger, upTo, disorder>>
      BY <1>4, <2>3 DEF PersistFile
    <3>2. scan' = [scan EXCEPT ![m] = next]
      BY <1>1, <3>1 DEF GitTyped, ScanRecord
    <3>3. next \in ScanRecord
      <4>1. <<>> \in Seq(GitWork)
        OBVIOUS
      <4> QED
        BY <1>1, <4>1 DEF ScanRecord
    <3> HIDE DEF next
    <3> QED
      BY <1>1, <2>1, <3>1, <3>2, <3>3, GitMountStep
  <2>4. CASE ~ Refused(gitLedger[m], work.change, TRUE)
    <3> DEFINE next == [scan[m] EXCEPT !.batch = Tail(scan[m].batch)]
    <3>1. /\ scan' = [scan EXCEPT ![m] = next]
          /\ Take(m, work)
      BY <1>4, <2>4 DEF PersistFile
    <3>2. next \in ScanRecord
      BY <1>1, <2>2 DEF ScanRecord
    <3> HIDE DEF next, work
    <3>3. /\ DOMAIN gitLedger' = GitMount
          /\ \A k \in GitMount : LedgerOf(gitLedger'[k], Path)
          /\ disorder' \subseteq GitMount
      BY <1>1, <2>2, <3>1, TakeTyped
    <3> QED
      BY <1>1, <2>1, <3>1, <3>2, <3>3, GitMountStep
  <2> QED
    BY <2>3, <2>4
<1>5. ASSUME EndScan(m) PROVE GitInv'
  <2> DEFINE next == [scan[m] EXCEPT !.at = "done"]
  <2>1. /\ scan' = [scan EXCEPT ![m] = next]
        /\ UNCHANGED <<branch, lastSeen, gitLedger, request, done, missed, disorder>>
    BY <1>5 DEF EndScan
  <2>2. next \in ScanRecord
    BY <1>1 DEF ScanRecord
  <2> HIDE DEF next
  <2> QED
    BY <1>1, <2>1, <2>2, GitMountStep
<1> QED
  BY <1>2, <1>3, <1>4, <1>5

LEMMA GitInitially ==
  GitInit => GitInv
<1> SUFFICES ASSUME GitInit PROVE GitInv
  OBVIOUS
<1>1. PICK present \in SUBSET Path :
        branch = [content |-> [p \in Path |-> IF p \in present THEN 1 ELSE 0],
                  commits |-> <<>>, pushes |-> <<>>]
  BY DEF GitInit
<1>2. /\ branch = [content |-> branch.content, commits |-> branch.commits,
                   pushes |-> branch.pushes]
      /\ branch.content \in [Path -> Nat]
      /\ branch.commits = <<>> /\ branch.pushes = <<>>
  BY <1>1
<1>3. /\ DOMAIN gitLedger = GitMount
      /\ \A m \in GitMount : LedgerOf(gitLedger[m], Path)
  BY EmptyLedgerTyped DEF GitInit
<1>4. request \in [Request -> RequestRecord]
  BY IdleTyped DEF GitInit
<1>5. scan \in [GitMount -> ScanRecord]
  <2>1. NoScan \in ScanRecord
    BY DEF NoScan, ScanRecord
  <2> QED
    BY <2>1 DEF GitInit
<1>6. GitTyped
  <2>1. <<>> \in Seq(Commit) /\ <<>> \in Seq(Push)
    OBVIOUS
  <2>2. /\ lastSeen \in [GitMount -> Nat]
        /\ done \in [GitMount -> SUBSET Nat] /\ missed \in [GitMount -> SUBSET Nat]
        /\ disorder \subseteq GitMount
    BY DEF GitInit
  <2> QED
    BY <1>2, <1>3, <1>4, <1>5, <2>1, <2>2 DEF GitTyped
<1>7. DOMAIN branch.pushes = {} /\ Len(branch.pushes) = 0
  BY <1>2
<1>8. PushesOnBranch /\ SeenIsCarried
  BY <1>7 DEF PushesOnBranch, SeenIsCarried
<1>9. SeenIsPushed
  BY <1>7 DEF GitInit, SeenIsPushed
<1>10. RequestShape
  BY IdleTyped DEF GitInit, RequestShape
<1> QED
  BY <1>6, <1>8, <1>9, <1>10 DEF GitInv

LEMMA GitPreserved ==
  GitInv /\ [GitStep]_gitVars => GitInv'
<1> SUFFICES ASSUME GitInv, [GitStep]_gitVars PROVE GitInv'
  OBVIOUS
<1>1. CASE PushCommits
  BY <1>1, GitPush
<1>2. ASSUME NEW r \in Request, NEW d \in DOMAIN branch.pushes, Deliver(r, d) PROVE GitInv'
  BY <1>2, GitDeliver
<1>3. ASSUME NEW r \in Request, Process(r) PROVE GitInv'
  BY <1>3, GitProcess
<1>4. ASSUME NEW r \in Request, MarkSeen(r) PROVE GitInv'
  BY <1>4, GitMark
<1>5. ASSUME NEW r \in Request, PersistCommit(r) PROVE GitInv'
  BY <1>5, GitPersist
<1>6. ASSUME NEW r \in Request, NextMount(r) PROVE GitInv'
  BY <1>6, GitNextMount
<1>7. ASSUME NEW r \in Request, Stop(r) PROVE GitInv'
  BY <1>7, GitStop
<1>8. ASSUME NEW m \in GitMount,
             MountRepository(m) \/ ListTree(m) \/ PersistFile(m) \/ EndScan(m)
      PROVE  GitInv'
  BY <1>8, GitScan
<1>9. CASE UNCHANGED gitVars
  BY <1>9, GitStutter DEF gitVars
<1> QED
  BY <1>1, <1>2, <1>3, <1>4, <1>5, <1>6, <1>7, <1>8, <1>9 DEF GitStep

LEMMA GitInvariant ==
  GitSpec => []GitInv
  BY GitInitially, GitPreserved, PTL DEF GitSpec

\* Pushes, requests, scans and ledgers keep their shapes; no mount has seen a
\* delivery that was never pushed.
THEOREM GitTypeCorrect ==
  GitSpec => []GitTypeOK
<1>1. GitInv => GitTypeOK
  <2> SUFFICES ASSUME GitInv PROVE GitTypeOK
    OBVIOUS
  <2>1. GitTyped /\ SeenIsPushed
    BY DEF GitInv
  <2>2. lastSeen \in [GitMount -> 0 .. Len(branch.pushes)]
    BY <2>1 DEF GitTyped, SeenIsPushed
  <2>3. \A m \in GitMount : gitLedger[m].artifact \in [Path -> Availability]
    BY <2>1 DEF GitTyped, LedgerOf
  <2>4. \A r \in Request : request[r].at \in {"idle", "next", "mark", "persist"}
    BY <2>1 DEF GitTyped, RequestRecord
  <2>5. \A m \in GitMount : scan[m].at \in {"none", "list", "persist", "done", "failed"}
    BY <2>1 DEF GitTyped, ScanRecord
  <2> QED
    BY <2>1, <2>2, <2>3, <2>4, <2>5 DEF GitTypeOK, GitTyped
<1> QED
  BY <1>1, GitInvariant, PTL

\* A repetition of the delivery a mount saw last is turned away, and nobody
\* works on it, only if each of its commits is registered, none of the mount's
\* business or was lost with a request that failed: with any number of
\* requests at once, mounts and repetitions.
THEOREM SeenAnsweredCorrect ==
  GitSpec => []SeenIsAnswered
<1>1. GitInv => SeenIsAnswered
  <2> SUFFICES ASSUME GitInv, NEW m \in GitMount, NEW d \in DOMAIN branch.pushes,
                      lastSeen[m] = d,
                      \A r \in Request : request[r].at = "idle" \/ request[r].delivery # d,
                      NEW n \in branch.pushes[d].first .. branch.pushes[d].last
               PROVE  n \in done[m] \cup missed[m]
    BY DEF SeenIsAnswered
  <2>1. n \in done[m] \cup missed[m] \/ \E r \in Request : Carries(r, m, d, n)
    BY DEF GitInv, SeenIsCarried
  <2>2. \A r \in Request : ~ Carries(r, m, d, n)
    BY DEF Carries
  <2> QED
    BY <2>1, <2>2
<1> QED
  BY <1>1, GitInvariant, PTL

-----------------------------------------------------------------------------
(* Why the branch is followed.  The changes of a mount in order come with  *)
(* rising commits, so the last change that touches a path is of the last   *)
(* commit that does, once every such commit is dealt with; and the content *)
(* of the branch at a path is what its last commit left there.             *)

Touches(commit, p) == p = commit.file \/ p = commit.from
Leaves(commit, p) == p = commit.file /\ commit.status # "removed"

\* Only a rename comes from another file, only a removal leaves none.
Made(commit) ==
  /\ commit.status # "renamed" => commit.from = commit.file
  /\ commit.content = 0 <=> commit.status = "removed"

\* No commit after the n-th touches the path.
LastAt(commits, n, p) ==
  \A k \in DOMAIN commits : k > n => ~ Touches(commits[k], p)

Told(content, commits) ==
  /\ \A n \in DOMAIN commits : Made(commits[n])
  /\ \A p \in Path, n \in DOMAIN commits :
       Touches(commits[n], p) /\ LastAt(commits, n, p) =>
         (content[p] # 0 <=> Leaves(commits[n], p))

BranchTold == Told(branch.content, branch.commits)

\* Each commit leaves the branch as the last of them says.
LEMMA OneCommitTold ==
  ASSUME NEW content \in [Path -> Nat], NEW commits \in Seq(Commit),
         Told(content, commits), NEW c \in NextCommits(content)
  PROVE  /\ Told(ContentAfter(content, c), Append(commits, c))
         /\ \A p \in Path : ~ Touches(c, p) => ContentAfter(content, c)[p] = content[p]
<1> DEFINE after == ContentAfter(content, c)
           more == Append(commits, c)
<1>1. c \in Commit /\ Made(c)
  <2> DEFINE here == {p \in Path : content[p] # 0}
  <2>1. c \in Commit
    BY CommitsTyped
  <2>2. CASE \E p \in Path \ here :
               c = [status |-> "added", file |-> p, from |-> p, content |-> 1]
    BY <2>1, <2>2 DEF Made
  <2>3. CASE \E p \in here :
               c = [status |-> "modified", file |-> p, from |-> p, content |-> content[p] + 1]
    <3>1. PICK p \in here :
            c = [status |-> "modified", file |-> p, from |-> p, content |-> content[p] + 1]
      BY <2>3
    <3>2. content[p] \in Nat
      OBVIOUS
    <3> QED
      BY <2>1, <3>1, <3>2 DEF Made
  <2>4. CASE \E p \in here :
               c = [status |-> "removed", file |-> p, from |-> p, content |-> 0]
    BY <2>1, <2>4 DEF Made
  <2>5. CASE \E p \in here, q \in Path \ here :
               c = [status |-> "renamed", file |-> q, from |-> p, content |-> content[p]]
    BY <2>1, <2>5 DEF Made
  <2> QED
    BY <2>2, <2>3, <2>4, <2>5 DEF NextCommits
<1>2. /\ Len(commits) \in Nat /\ DOMAIN commits = 1..Len(commits)
      /\ DOMAIN more = 1..(Len(commits) + 1)
      /\ \A n \in 1..Len(commits) : more[n] = commits[n]
      /\ more[Len(commits) + 1] = c
  BY <1>1, AppendFacts
<1>3. \A p \in Path : after[p] = IF p = c.file THEN c.content
                                 ELSE IF p = c.from THEN 0 ELSE content[p]
  BY DEF ContentAfter
<1>4. \A p \in Path : ~ Touches(c, p) => after[p] = content[p]
  BY <1>3 DEF Touches
<1> HIDE DEF after, more
<1>5. ASSUME NEW n \in DOMAIN more PROVE Made(more[n])
  BY <1>1, <1>2 DEF Told
<1>6. ASSUME NEW p \in Path, NEW n \in DOMAIN more, Touches(more[n], p), LastAt(more, n, p)
      PROVE  after[p] # 0 <=> Leaves(more[n], p)
  <2>1. CASE n = Len(commits) + 1
    <3>1. more[n] = c
      BY <1>2, <2>1
    <3>2. CASE p = c.file
      BY <1>1, <1>3, <3>1, <3>2 DEF Made, Leaves
    <3>3. CASE p # c.file
      BY <1>3, <1>6, <3>1, <3>3 DEF Touches, Leaves
    <3> QED
      BY <3>2, <3>3
  <2>2. CASE n \in 1..Len(commits)
    <3>1. ~ Touches(c, p)
      BY <1>2, <1>6, <2>2 DEF LastAt
    <3>2. LastAt(commits, n, p)
      BY <1>2, <1>6, <2>2 DEF LastAt
    <3> QED
      BY <1>2, <1>4, <1>6, <2>2, <3>1, <3>2 DEF Told
  <2> QED
    BY <1>2, <2>1, <2>2
<1>7. Told(after, more)
  BY <1>5, <1>6 DEF Told
<1> QED
  BY <1>4, <1>7 DEF after, more

\* One commit more, or two.
LEMMA OneMore ==
  ASSUME NEW X, NEW q \in Seq(X), NEW x \in X
  PROVE  q \o <<x>> \o <<>> = Append(q, x)
  OBVIOUS

LEMMA TwoMore ==
  ASSUME NEW X, NEW q \in Seq(X), NEW x \in X, NEW y \in X
  PROVE  q \o <<x>> \o <<y>> = Append(Append(q, x), y)
  OBVIOUS

\* The branch after commits: what was there stays, and a path no new commit
\* touches keeps its content.
Grows(content, commits, after, longer) ==
  /\ longer \in Seq(Commit)
  /\ DOMAIN commits \subseteq DOMAIN longer
  /\ \A n \in DOMAIN commits : longer[n] = commits[n]
  /\ \A p \in Path :
       (\A n \in DOMAIN longer \ DOMAIN commits : ~ Touches(longer[n], p)) =>
         after[p] = content[p]

LEMMA OneCommitGrows ==
  ASSUME NEW content \in [Path -> Nat], NEW commits \in Seq(Commit),
         Told(content, commits), NEW c \in NextCommits(content)
  PROVE  Grows(content, commits, ContentAfter(content, c), Append(commits, c))
<1>1. c \in Commit
  BY CommitsTyped
<1>2. /\ Append(commits, c) \in Seq(Commit) /\ Len(commits) \in Nat
      /\ DOMAIN commits = 1..Len(commits)
      /\ DOMAIN Append(commits, c) = 1..(Len(commits) + 1)
      /\ \A n \in 1..Len(commits) : Append(commits, c)[n] = commits[n]
      /\ Append(commits, c)[Len(commits) + 1] = c
  BY <1>1, AppendFacts
<1>3. \A p \in Path : ~ Touches(c, p) => ContentAfter(content, c)[p] = content[p]
  BY OneCommitTold
<1>4. Len(commits) + 1 \in DOMAIN Append(commits, c) \ DOMAIN commits
  BY <1>2
<1>5. DOMAIN commits \subseteq DOMAIN Append(commits, c)
  BY <1>2
<1> QED
  BY <1>2, <1>3, <1>4, <1>5 DEF Grows

LEMMA BranchGrows ==
  ASSUME GitInv, BranchTold, PushCommits
  PROVE  /\ BranchTold'
         /\ Grows(branch.content, branch.commits, branch'.content, branch'.commits)
         /\ \A d \in DOMAIN branch.pushes :
              d \in DOMAIN branch'.pushes /\ branch'.pushes[d] = branch.pushes[d]
         /\ UNCHANGED <<lastSeen, gitLedger, request, scan, upTo, done, missed, disorder>>
<1>1. PICK c \in NextCommits(branch.content) :
        \E more \in {<<>>} \cup {<<d>> : d \in NextCommits(ContentAfter(branch.content, c))} :
          branch' = [content |-> IF more = <<>> THEN ContentAfter(branch.content, c)
                                 ELSE ContentAfter(ContentAfter(branch.content, c), more[1]),
                     commits |-> branch.commits \o <<c>> \o more,
                     pushes |-> Append(branch.pushes,
                       [first |-> Len(branch.commits) + 1,
                        last |-> Len(branch.commits \o <<c>> \o more)])]
  BY DEF PushCommits
<1>2. UNCHANGED <<lastSeen, gitLedger, request, scan, upTo, done, missed, disorder>>
  BY DEF PushCommits
<1>3. /\ branch.content \in [Path -> Nat] /\ branch.commits \in Seq(Commit)
      /\ branch.pushes \in Seq(Push)
  BY DEF GitInv, GitTyped
<1> DEFINE content == branch.content
           commits == branch.commits
           middle == ContentAfter(content, c)
           one == Append(commits, c)
<1>4. c \in Commit /\ middle \in [Path -> Nat] /\ one \in Seq(Commit)
  BY <1>3, CommitsTyped
<1>5. Told(middle, one) /\ Grows(content, commits, middle, one)
  BY <1>3, OneCommitTold, OneCommitGrows DEF BranchTold
<1>6. \A d \in DOMAIN branch.pushes :
        d \in DOMAIN branch'.pushes /\ branch'.pushes[d] = branch.pushes[d]
  <2>1. PICK x : branch'.pushes = Append(branch.pushes, x)
    BY <1>1
  <2> QED
    BY <1>3, <2>1
<1> HIDE DEF content, commits
<1>7. CASE /\ branch'.content = middle
           /\ branch'.commits = one
  BY <1>2, <1>5, <1>6, <1>7 DEF BranchTold, content, commits
<1>8. ASSUME NEW d \in NextCommits(middle),
             branch'.content = ContentAfter(middle, d),
             branch'.commits = Append(one, d)
      PROVE  /\ BranchTold'
             /\ Grows(branch.content, branch.commits, branch'.content, branch'.commits)
  <2> HIDE DEF middle, one
  <2> DEFINE last == ContentAfter(middle, d)
             two == Append(one, d)
  <2>1. Told(last, two) /\ Grows(middle, one, last, two)
    BY <1>4, <1>5, OneCommitTold, OneCommitGrows
  <2> HIDE DEF last, two
  <2>2. Grows(content, commits, last, two)
    BY <1>5, <2>1 DEF Grows
  <2> QED
    BY <1>8, <2>1, <2>2 DEF BranchTold, last, two, content, commits
<1>9. \/ branch'.content = middle /\ branch'.commits = one
      \/ \E d \in NextCommits(middle) :
           branch'.content = ContentAfter(middle, d) /\ branch'.commits = Append(one, d)
  <2>1. PICK more \in {<<>>} \cup {<<d>> : d \in NextCommits(middle)} :
          branch' = [content |-> IF more = <<>> THEN middle ELSE ContentAfter(middle, more[1]),
                     commits |-> commits \o <<c>> \o more,
                     pushes |-> Append(branch.pushes,
                       [first |-> Len(commits) + 1, last |-> Len(commits \o <<c>> \o more)])]
    BY <1>1 DEF content, commits
  <2> HIDE DEF middle, one
  <2>2. CASE more = <<>>
    <3>1. commits \o <<c>> \o <<>> = one
      BY <1>3, <1>4, OneMore DEF commits, one
    <3> QED
      BY <2>1, <2>2, <3>1
  <2>3. ASSUME NEW d \in NextCommits(middle), more = <<d>>
        PROVE  branch'.content = ContentAfter(middle, d) /\ branch'.commits = Append(one, d)
    <3>1. d \in Commit
      BY <1>4, CommitsTyped
    <3>2. more # <<>> /\ more[1] = d
      BY <2>3
    <3>3. commits \o <<c>> \o <<d>> = Append(one, d)
      <4>1. commits \in Seq(Commit)
        BY <1>3 DEF commits
      <4>2. commits \o <<c>> \o <<d>> = Append(Append(commits, c), d)
        BY <1>4, <3>1, <4>1, TwoMore
      <4> QED
        BY <4>2 DEF one
    <3> QED
      BY <2>1, <2>3, <3>2, <3>3
  <2> QED
    BY <2>1, <2>2, <2>3
<1> QED
  BY <1>2, <1>6, <1>7, <1>8, <1>9

\* What a request took from the push: from the reading on, changes of commits
\* of the push, and until the push is saved as seen each that concerns the mount.
WorkFits(req) ==
  LET push == branch.pushes[req.delivery] IN
  req.at \in {"mark", "persist"} =>
    /\ \A i \in DOMAIN req.batch :
         /\ req.batch[i].commit \in push.first .. push.last
         /\ req.batch[i] = Work(ChangeOf(req.batch[i].commit, req.delivery), req.batch[i].commit)
    /\ req.at = "mark" =>
         \A n \in push.first .. push.last : Concerns(branch.commits[n]) =>
           \E i \in DOMAIN req.batch : req.batch[i].commit = n

WorkOfPush == \A r \in Request : WorkFits(request[r])

\* A request tells of a push to mounts that exist.
MountsFit(req) == \A i \in DOMAIN req.todo : scan[req.todo[i]].at # "none"

TodoMounted == \A r \in Request : MountsFit(request[r])

\* Before the listing a mount knows of commits only, and before it is made of
\* nothing.
Unlisted(m) ==
  /\ scan[m].at \in {"none", "list"} =>
       scan[m].batch = <<>> /\ \A c \in gitLedger[m].changes : c.fingerprint[1] = "commit"
  /\ scan[m].at = "none" =>
       gitLedger[m].changes = {} /\ \A p \in Path : gitLedger[m].artifact[p] # "AVAILABLE"

\* A file of the listing is new to the mount, and still on the branch unless a
\* later commit touched it.
Waiting(m, work) ==
  /\ work.change.name \in Tracked /\ work.change.kind = "CREATE"
  /\ work.change.fingerprint[1] = "blob"
  /\ ~ OnRecord(gitLedger[m], work.change.fingerprint)
  /\ \/ branch.content[work.change.name] # 0
     \/ \E n \in DOMAIN branch.commits :
          n > work.commit /\ Touches(branch.commits[n], work.change.name)
  /\ work.commit <= Len(branch.commits)

ScanFits(m) ==
  /\ Unlisted(m)
  /\ \A i \in DOMAIN scan[m].batch : Waiting(m, scan[m].batch[i])
  /\ \A i, j \in DOMAIN scan[m].batch :
       scan[m].batch[i].change.fingerprint = scan[m].batch[j].change.fingerprint => i = j

ScanWork == \A m \in GitMount : ScanFits(m)

\* A commit a mount has dealt with, and that concerns it, is one it has passed.
DoneIsPassed ==
  /\ upTo \in [GitMount -> Nat]
  /\ \A m \in GitMount : \A n \in done[m] :
       n \in DOMAIN branch.commits /\ (Concerns(branch.commits[n]) => n <= upTo[m])

RecordIsDone ==
  \A m \in GitMount : \A c \in gitLedger[m].changes :
    c.fingerprint[1] = "commit" => c.fingerprint[2] \in done[m]

\* The mount has dealt with every commit that touches the path.
AllTold(m, p) ==
  \A n \in DOMAIN branch.commits : Touches(branch.commits[n], p) => n \in done[m]

\* The listing of the mount has run and left the path to nobody.
PathListed(m, p) ==
  \/ scan[m].at = "done"
  \/ /\ scan[m].at = "persist"
     /\ \A i \in DOMAIN scan[m].batch : scan[m].batch[i].change.name # p

Agrees(m, p) ==
  m \notin disorder /\ missed[m] = {} /\ AllTold(m, p) =>
    /\ gitLedger[m].artifact[p] = "AVAILABLE" => branch.content[p] # 0
    /\ PathListed(m, p) => (branch.content[p] # 0 => gitLedger[m].artifact[p] = "AVAILABLE")

OrderlyAgrees == \A m \in GitMount, p \in Tracked : Agrees(m, p)

FollowInv ==
  /\ BranchTold /\ WorkOfPush /\ TodoMounted /\ ScanWork
  /\ DoneIsPassed /\ RecordIsDone /\ OrderlyAgrees

\* The branch grows: what was read of it stays true.
LEMMA FollowPush ==
  ASSUME GitInv, FollowInv, PushCommits
  PROVE  FollowInv'
<1>1. /\ BranchTold'
      /\ \A d \in DOMAIN branch.pushes :
           d \in DOMAIN branch'.pushes /\ branch'.pushes[d] = branch.pushes[d]
      /\ UNCHANGED <<lastSeen, gitLedger, request, scan, upTo, done, missed, disorder>>
  BY BranchGrows DEF FollowInv
<1>2. /\ branch'.commits \in Seq(Commit)
      /\ DOMAIN branch.commits \subseteq DOMAIN branch'.commits
      /\ \A n \in DOMAIN branch.commits : branch'.commits[n] = branch.commits[n]
      /\ \A p \in Path :
           (\A n \in DOMAIN branch'.commits \ DOMAIN branch.commits :
              ~ Touches(branch'.commits[n], p)) => branch'.content[p] = branch.content[p]
  BY BranchGrows DEF FollowInv, Grows
<1>3. GitTyped /\ PushesOnBranch /\ RequestShape
  BY DEF GitInv
<1>4. /\ branch.commits \in Seq(Commit) /\ Len(branch.commits) \in Nat
      /\ Len(branch'.commits) \in Nat /\ Len(branch.commits) <= Len(branch'.commits)
      /\ DOMAIN branch.commits = 1..Len(branch.commits)
      /\ DOMAIN branch'.commits = 1..Len(branch'.commits)
      /\ branch.pushes \in Seq(Push)
  <2>1. branch.commits \in Seq(Commit) /\ branch.pushes \in Seq(Push)
    BY <1>3 DEF GitTyped
  <2>2. /\ Len(branch.commits) \in Nat /\ Len(branch'.commits) \in Nat
        /\ DOMAIN branch.commits = 1..Len(branch.commits)
        /\ DOMAIN branch'.commits = 1..Len(branch'.commits)
    BY <1>2, <2>1
  <2>3. Len(branch.commits) <= Len(branch'.commits)
    BY <1>2, <2>2
  <2> QED
    BY <2>1, <2>2, <2>3
<1>5. WorkOfPush'
  <2> SUFFICES ASSUME NEW r \in Request PROVE WorkFits(request[r])'
    BY DEF WorkOfPush
  <2> DEFINE d == request[r].delivery
             push == branch.pushes[d]
  <2>1. CASE request[r].at \in {"mark", "persist"}
    <3>1. /\ d \in DOMAIN branch.pushes /\ branch'.pushes[d] = push
          /\ push \in Push /\ push.first >= 1 /\ push.last <= Len(branch.commits)
      BY <1>1, <1>3, <1>4, <2>1 DEF RequestShape, PushesOnBranch
    <3>2. \A n \in push.first .. push.last :
            n \in DOMAIN branch.commits /\ branch'.commits[n] = branch.commits[n]
      BY <1>2, <1>4, <3>1 DEF Push
    <3>3. \A n \in push.first .. push.last : ChangeOf(n, d)' = ChangeOf(n, d)
      BY <1>1, <3>2 DEF ChangeOf
    <3>4. WorkFits(request[r])
      BY DEF FollowInv, WorkOfPush
    <3> QED
      BY <1>1, <2>1, <3>1, <3>2, <3>3, <3>4 DEF WorkFits
  <2>2. CASE request[r].at \notin {"mark", "persist"}
    BY <1>1, <2>2 DEF WorkFits
  <2> QED
    BY <2>1, <2>2
<1>6. TodoMounted'
  BY <1>1 DEF FollowInv, TodoMounted, MountsFit
<1>7. ScanWork'
  <2> SUFFICES ASSUME NEW m \in GitMount PROVE ScanFits(m)'
    BY DEF ScanWork
  <2>1. ScanFits(m)
    BY DEF FollowInv, ScanWork
  <2>2. Unlisted(m)'
    BY <1>1, <2>1 DEF ScanFits, Unlisted
  <2>3. ASSUME NEW work, Waiting(m, work), work.commit \in Nat PROVE Waiting(m, work)'
    <3> DEFINE p == work.change.name
    <3>1. /\ p \in Path /\ work.commit <= Len(branch.commits)
          /\ work.commit <= Len(branch'.commits)
      BY <1>4, <2>3, TrackedAssumption DEF Waiting
    <3>2. \/ branch'.content[p] # 0
          \/ \E n \in DOMAIN branch'.commits :
               n > work.commit /\ Touches(branch'.commits[n], p)
      <4>1. CASE \E n \in DOMAIN branch.commits :
                   n > work.commit /\ Touches(branch.commits[n], p)
        BY <1>2, <4>1
      <4>2. CASE \E n \in DOMAIN branch'.commits \ DOMAIN branch.commits :
                   Touches(branch'.commits[n], p)
        <5>1. PICK n \in DOMAIN branch'.commits \ DOMAIN branch.commits :
                Touches(branch'.commits[n], p)
          BY <4>2
        <5>2. n > work.commit
          BY <1>4, <2>3, <3>1, <5>1
        <5> QED
          BY <5>1, <5>2
      <4>3. CASE /\ branch.content[p] # 0
                 /\ ~ \E n \in DOMAIN branch'.commits \ DOMAIN branch.commits :
                        Touches(branch'.commits[n], p)
        BY <1>2, <3>1, <4>3
      <4> QED
        BY <2>3, <4>1, <4>2, <4>3 DEF Waiting
    <3> QED
      BY <1>1, <2>3, <3>1, <3>2 DEF Waiting
  <2>4. \A i \in DOMAIN scan[m].batch : scan[m].batch[i].commit \in Nat
    <3>1. scan[m].batch \in Seq(GitWork)
      BY <1>3 DEF GitTyped, ScanRecord
    <3>2. \A i \in DOMAIN scan[m].batch : scan[m].batch[i] \in GitWork
      BY <3>1
    <3> QED
      BY <3>2 DEF GitWork
  <2>5. scan'[m] = scan[m]
    BY <1>1
  <2>6. \A i \in DOMAIN scan[m].batch : Waiting(m, scan[m].batch[i])'
    BY <1>1, <2>1, <2>3, <2>4 DEF ScanFits
  <2> QED
    BY <2>1, <2>2, <2>5, <2>6 DEF ScanFits
<1>8. DoneIsPassed'
  <2>1. DoneIsPassed
    BY DEF FollowInv
  <2> QED
    BY <1>1, <1>2, <2>1 DEF DoneIsPassed
<1>9. RecordIsDone'
  BY <1>1 DEF FollowInv, RecordIsDone
<1>10. OrderlyAgrees'
  <2> SUFFICES ASSUME NEW m \in GitMount, NEW p \in Tracked PROVE Agrees(m, p)'
    BY DEF OrderlyAgrees
  <2>1. Agrees(m, p) /\ p \in Path
    BY TrackedAssumption DEF FollowInv, OrderlyAgrees
  <2>2. ASSUME AllTold(m, p)' PROVE AllTold(m, p) /\ branch'.content[p] = branch.content[p]
    <3>1. \A n \in DOMAIN branch'.commits \ DOMAIN branch.commits :
            ~ Touches(branch'.commits[n], p)
      <4>1. \A n \in done[m] : n \in DOMAIN branch.commits
        BY DEF FollowInv, DoneIsPassed
      <4> QED
        BY <1>1, <2>2, <4>1 DEF AllTold
    <3>2. branch'.content[p] = branch.content[p]
      BY <1>2, <2>1, <3>1
    <3>3. AllTold(m, p)
      BY <1>1, <1>2, <2>2 DEF AllTold
    <3> QED
      BY <3>2, <3>3
  <2>3. PathListed(m, p)' <=> PathListed(m, p)
    BY <1>1 DEF PathListed
  <2> QED
    BY <1>1, <2>1, <2>2, <2>3 DEF Agrees
<1> QED
  BY <1>1, <1>5, <1>6, <1>7, <1>8, <1>9, <1>10 DEF FollowInv

\* Nothing a mount holds changes: what has been lost or come late stays so.
LEMMA AgreesKeeps ==
  ASSUME FollowInv, UNCHANGED <<branch, scan, gitLedger, disorder>>,
         \A m \in GitMount : missed[m] \subseteq missed'[m],
         \A m \in GitMount, n \in DOMAIN branch.commits :
           n \in done'[m] \ done[m] => ~ Concerns(branch.commits[n])
  PROVE  OrderlyAgrees'
<1> SUFFICES ASSUME NEW m \in GitMount, NEW p \in Tracked PROVE Agrees(m, p)'
  BY DEF OrderlyAgrees
<1>1. Agrees(m, p)
  BY DEF FollowInv, OrderlyAgrees
<1>2. ASSUME AllTold(m, p)' PROVE AllTold(m, p)
  <2> SUFFICES ASSUME NEW n \in DOMAIN branch.commits, Touches(branch.commits[n], p)
               PROVE  n \in done[m]
    BY DEF AllTold
  <2>1. n \in done'[m]
    BY <1>2 DEF AllTold
  <2>2. Made(branch.commits[n])
    BY DEF FollowInv, BranchTold, Told
  <2>3. Concerns(branch.commits[n])
    BY <2>2 DEF Made, Touches, Concerns
  <2> QED
    BY <2>1, <2>3
<1>3. missed'[m] = {} => missed[m] = {}
  OBVIOUS
<1>4. PathListed(m, p)' <=> PathListed(m, p)
  BY DEF PathListed
<1> QED
  BY <1>1, <1>2, <1>3, <1>4 DEF Agrees

\* A request turns to other work, and the mounts stay as they are.
LEMMA FollowRequest ==
  ASSUME GitInv, FollowInv, NEW r \in Request, NEW next,
         request' = [request EXCEPT ![r] = next],
         WorkFits(next), MountsFit(next),
         UNCHANGED <<branch, gitLedger, scan, upTo, done, disorder>>,
         \A m \in GitMount : missed[m] \subseteq missed'[m]
  PROVE  FollowInv'
<1>1. /\ request'[r] = next
      /\ \A q \in Request \ {r} : request'[q] = request[q]
  BY DEF GitInv, GitTyped
<1>2. BranchTold' /\ RecordIsDone'
  BY DEF FollowInv, BranchTold, RecordIsDone
<1>3. DoneIsPassed'
  BY DEF FollowInv, DoneIsPassed
<1>4. WorkOfPush'
  <2> SUFFICES ASSUME NEW q \in Request PROVE WorkFits(request[q])'
    BY DEF WorkOfPush
  <2>1. WorkFits(request'[q])
    BY <1>1 DEF FollowInv, WorkOfPush
  <2> QED
    BY <2>1 DEF WorkFits, ChangeOf
<1>5. TodoMounted'
  <2> SUFFICES ASSUME NEW q \in Request PROVE MountsFit(request[q])'
    BY DEF TodoMounted
  <2>1. MountsFit(request'[q])
    BY <1>1 DEF FollowInv, TodoMounted
  <2> QED
    BY <2>1 DEF MountsFit
<1>6. ScanWork'
  BY DEF FollowInv, ScanWork, ScanFits, Unlisted, Waiting
<1>7. OrderlyAgrees'
  BY AgreesKeeps
<1> QED
  BY <1>2, <1>3, <1>4, <1>5, <1>6, <1>7 DEF FollowInv

LEMMA IdleFits ==
  WorkFits(IdleRequest) /\ MountsFit(IdleRequest)
  BY DEF WorkFits, MountsFit, IdleRequest

LEMMA FollowDeliver ==
  ASSUME GitInv, FollowInv, NEW r \in Request, NEW d \in DOMAIN branch.pushes, Deliver(r, d)
  PROVE  FollowInv'
<1> DEFINE mounts == {m \in GitMount : scan[m].at # "none"}
           next == [IdleRequest EXCEPT !.delivery = d, !.at = "next",
                                       !.todo = SetToSeq(mounts)]
<1>1. /\ request' = IF mounts = {} THEN request ELSE [request EXCEPT ![r] = next]
      /\ UNCHANGED <<branch, gitLedger, scan, upTo, done, missed, disorder>>
  BY DEF Deliver
<1>2. CASE mounts = {}
  <2>1. request' = [request EXCEPT ![r] = request[r]]
    BY <1>1, <1>2 DEF GitInv, GitTyped
  <2>2. WorkFits(request[r]) /\ MountsFit(request[r])
    BY DEF FollowInv, WorkOfPush, TodoMounted
  <2> QED
    BY <1>1, <2>1, <2>2, FollowRequest
<1>3. CASE mounts # {}
  <2>1. IsFiniteSet(mounts)
    BY GitFinite, FS_Subset
  <2>2. SetToSeq(mounts) \in Seq(mounts)
    BY <2>1, SetToSeqFacts
  <2>3. \A i \in DOMAIN SetToSeq(mounts) : SetToSeq(mounts)[i] \in mounts
    BY <2>2
  <2>4. next.at = "next" /\ next.todo = SetToSeq(mounts)
    BY DEF IdleRequest
  <2>5. MountsFit(next)
    BY <2>3, <2>4 DEF MountsFit
  <2>6. WorkFits(next)
    BY <2>4 DEF WorkFits
  <2>7. request' = [request EXCEPT ![r] = next]
    BY <1>1, <1>3
  <2> HIDE DEF mounts, next
  <2> QED
    BY <1>1, <2>5, <2>6, <2>7, FollowRequest
<1> QED
  BY <1>2, <1>3

\* The request takes from the push exactly what concerns the mount.
LEMMA FollowProcess ==
  ASSUME GitInv, FollowInv, NEW r \in Request, Process(r)
  PROVE  FollowInv'
<1> DEFINE d == request[r].delivery
           push == branch.pushes[d]
           ours == {n \in push.first .. push.last : Concerns(branch.commits[n])}
           order == Ascending(ours)
           batch == [i \in DOMAIN order |-> Work(ChangeOf(order[i], d), order[i])]
           next == IF Fresh(Head(request[r].todo), d)
                   THEN [request[r] EXCEPT !.at = "mark", !.batch = batch]
                   ELSE [request[r] EXCEPT !.at = "persist"]
<1>1. /\ request[r].at = "next"
      /\ request' = [request EXCEPT ![r] = next]
      /\ UNCHANGED <<branch, lastSeen, gitLedger, scan, upTo, done, missed, disorder>>
  BY DEF Process
<1>2. /\ request[r] \in RequestRecord /\ d \in DOMAIN branch.pushes
      /\ request[r].batch = <<>> /\ push \in Push
  <2>1. /\ request[r] \in RequestRecord /\ d \in DOMAIN branch.pushes
        /\ request[r].batch = <<>> /\ branch.pushes \in Seq(Push)
    BY <1>1 DEF GitInv, GitTyped, RequestShape
  <2> QED
    BY <2>1
<1>3. MountsFit(request[r])
  BY DEF FollowInv, TodoMounted
<1> HIDE DEF push, d
<1>4. /\ ours \in SUBSET Nat /\ IsFiniteSet(ours)
  <2> DEFINE first == push.first
             last == push.last
  <2>1. first \in Nat /\ last \in Nat
    BY <1>2 DEF Push
  <2>2. first \in Int /\ last \in Int
    BY <2>1
  <2>3. ours \in SUBSET (first .. last)
    OBVIOUS
  <2> HIDE DEF first, last, ours
  <2>4. IsFiniteSet(first .. last)
    BY <2>2, FS_Interval
  <2>5. (first .. last) \subseteq Nat
    BY <2>1
  <2> QED
    BY <2>3, <2>4, <2>5, FS_Subset
<1>5. /\ order \in Seq(ours)
      /\ \A n \in ours : \E i \in DOMAIN order : order[i] = n
  <2> HIDE DEF ours
  <2> QED
    BY <1>4, AscendingFacts
<1>6. \A i \in DOMAIN order : order[i] \in ours
  <2> HIDE DEF ours, order
  <2> QED
    BY <1>5
<1> HIDE DEF order
<1>7. /\ DOMAIN batch = DOMAIN order
      /\ \A i \in DOMAIN order : /\ batch[i] = Work(ChangeOf(order[i], d), order[i])
                                  /\ batch[i].commit = order[i]
  BY DEF Work
<1> HIDE DEF batch
<1>8. WorkFits(next) /\ MountsFit(next)
  <2>1. CASE Fresh(Head(request[r].todo), d)
    <3>1. /\ next.at = "mark" /\ next.batch = batch
          /\ next.delivery = d /\ next.todo = request[r].todo
      BY <1>2, <2>1 DEF RequestRecord, d
    <3>2. \A n \in push.first .. push.last : Concerns(branch.commits[n]) =>
            \E i \in DOMAIN batch : batch[i].commit = n
      BY <1>5, <1>7
    <3>3. \A i \in DOMAIN batch :
            /\ batch[i].commit \in push.first .. push.last
            /\ batch[i] = Work(ChangeOf(batch[i].commit, d), batch[i].commit)
      BY <1>6, <1>7
    <3> HIDE DEF next, ours
    <3> QED
      BY <1>3, <3>1, <3>2, <3>3 DEF WorkFits, MountsFit, push
  <2>2. CASE ~ Fresh(Head(request[r].todo), d)
    <3>1. next.at = "persist" /\ next.batch = <<>> /\ next.todo = request[r].todo
      BY <1>2, <2>2 DEF RequestRecord
    <3> HIDE DEF next
    <3> QED
      BY <1>3, <3>1 DEF WorkFits, MountsFit
  <2> QED
    BY <2>1, <2>2
<1> HIDE DEF next
<1> QED
  BY <1>1, <1>8, FollowRequest

\* The commits of the push a saved delivery leaves aside concern nobody here.
LEMMA FollowMark ==
  ASSUME GitInv, FollowInv, NEW r \in Request, MarkSeen(r)
  PROVE  FollowInv'
<1> DEFINE m == Head(request[r].todo)
           d == request[r].delivery
           push == branch.pushes[d]
           ours == {request[r].batch[i].commit : i \in DOMAIN request[r].batch}
           next == [request[r] EXCEPT !.at = "persist"]
<1>1. /\ request[r].at = "mark"
      /\ request' = [request EXCEPT ![r].at = "persist"]
      /\ done' = [done EXCEPT ![m] = done[m] \cup ((push.first .. push.last) \ ours)]
      /\ UNCHANGED <<branch, gitLedger, scan, upTo, missed, disorder>>
  BY DEF MarkSeen
<1>2. /\ request[r] \in RequestRecord /\ d \in DOMAIN branch.pushes /\ m \in GitMount
      /\ request' = [request EXCEPT ![r] = next]
      /\ done \in [GitMount -> SUBSET Nat]
      /\ branch.commits \in Seq(Commit) /\ branch.pushes \in Seq(Push)
  BY <1>1, RequestFacts DEF GitInv, GitTyped, RequestRecord
<1>3. /\ push \in Push /\ push.first >= 1 /\ push.last <= Len(branch.commits)
  BY <1>2 DEF GitInv, PushesOnBranch
<1>4. \A n \in (push.first .. push.last) \ ours :
        n \in DOMAIN branch.commits /\ ~ Concerns(branch.commits[n])
  <2> SUFFICES ASSUME NEW n \in (push.first .. push.last) \ ours
               PROVE  n \in DOMAIN branch.commits /\ ~ Concerns(branch.commits[n])
    OBVIOUS
  <2>1. n \in DOMAIN branch.commits
    BY <1>2, <1>3 DEF Push
  <2>2. WorkFits(request[r])
    BY DEF FollowInv, WorkOfPush
  <2>3. ~ Concerns(branch.commits[n])
    BY <1>1, <2>2 DEF WorkFits
  <2> QED
    BY <2>1, <2>3
<1> HIDE DEF m, push, ours
<1>5. /\ \A k \in GitMount : done[k] \subseteq done'[k]
      /\ \A k \in GitMount : \A n \in done'[k] \ done[k] :
           n \in DOMAIN branch.commits /\ ~ Concerns(branch.commits[n])
  <2>1. /\ done'[m] = done[m] \cup ((push.first .. push.last) \ ours)
        /\ \A k \in GitMount \ {m} : done'[k] = done[k]
    BY <1>1, <1>2
  <2> QED
    BY <1>4, <2>1
<1>6. DoneIsPassed' /\ RecordIsDone'
  <2>1. DoneIsPassed /\ RecordIsDone
    BY DEF FollowInv
  <2>2. DoneIsPassed'
    <3> SUFFICES ASSUME NEW k \in GitMount, NEW n \in done'[k]
                 PROVE  n \in DOMAIN branch.commits
                        /\ (Concerns(branch.commits[n]) => n <= upTo[k])
      BY <1>1, <2>1 DEF DoneIsPassed
    <3>1. CASE n \in done[k]
      BY <2>1, <3>1 DEF DoneIsPassed
    <3>2. CASE n \notin done[k]
      BY <1>5, <3>2
    <3> QED
      BY <3>1, <3>2
  <2>3. RecordIsDone'
    BY <1>1, <1>5, <2>1 DEF RecordIsDone
  <2> QED
    BY <2>2, <2>3
<1>7. WorkOfPush' /\ TodoMounted'
  <2>1. /\ WorkFits(request[r]) /\ MountsFit(request[r])
        /\ \A q \in Request : WorkFits(request[q]) /\ MountsFit(request[q])
    BY DEF FollowInv, WorkOfPush, TodoMounted
  <2>2. /\ next.at = "persist" /\ next.batch = request[r].batch
        /\ next.delivery = d /\ next.todo = request[r].todo
    BY <1>2 DEF RequestRecord
  <2>3. WorkFits(next) /\ MountsFit(next)
    BY <1>1, <2>1, <2>2 DEF WorkFits, MountsFit
  <2> HIDE DEF next, d
  <2>4. \A q \in Request : WorkFits(request'[q]) /\ MountsFit(request'[q])
    BY <1>2, <2>1, <2>3 DEF GitInv, GitTyped
  <2>5. ASSUME NEW q \in Request PROVE WorkFits(request[q])' /\ MountsFit(request[q])'
    <3>1. WorkFits(request'[q]) /\ MountsFit(request'[q])
      BY <2>4
    <3>2. WorkFits(request[q])'
      BY <1>1, <3>1 DEF WorkFits, ChangeOf
    <3>3. MountsFit(request[q])'
      BY <1>1, <3>1 DEF MountsFit
    <3> QED
      BY <3>2, <3>3
  <2> QED
    BY <2>5 DEF WorkOfPush, TodoMounted
<1>8. ScanWork' /\ BranchTold'
  BY <1>1 DEF FollowInv, BranchTold, ScanWork, ScanFits, Unlisted, Waiting
<1>9. OrderlyAgrees'
  BY <1>1, <1>5, AgreesKeeps
<1> QED
  BY <1>6, <1>7, <1>8, <1>9 DEF FollowInv

LEMMA FollowNextMount ==
  ASSUME GitInv, FollowInv, NEW r \in Request, NextMount(r)
  PROVE  FollowInv'
<1> DEFINE todo == request[r].todo
           next == IF Len(todo) = 1 THEN IdleRequest
                   ELSE [request[r] EXCEPT !.at = "next", !.batch = <<>>, !.todo = Tail(todo)]
<1>1. /\ request[r].at \in {"mark", "persist"}
      /\ UNCHANGED <<branch, gitLedger, scan, upTo, done, missed, disorder>>
  BY DEF NextMount
<1>2. request' = [request EXCEPT ![r] = next]
  BY Zenon DEF NextMount
<1>3. /\ request[r] \in RequestRecord /\ todo \in Seq(GitMount) /\ todo # <<>>
      /\ MountsFit(request[r])
  BY <1>1, RequestFacts DEF FollowInv, TodoMounted
<1>4. CASE Len(todo) = 1
  BY <1>1, <1>2, <1>4, IdleFits, FollowRequest
<1>5. CASE Len(todo) # 1
  <2>1. /\ next.at = "next" /\ next.todo = Tail(todo)
    BY <1>3, <1>5 DEF RequestRecord
  <2>2. /\ Len(todo) \in Nat \ {0} /\ DOMAIN todo = 1..Len(todo)
        /\ DOMAIN Tail(todo) = 1..(Len(todo) - 1)
        /\ \A i \in 1..(Len(todo) - 1) : Tail(todo)[i] = todo[i + 1]
    BY <1>3, TailFacts
  <2> HIDE DEF next
  <2>3. WorkFits(next)
    BY <2>1 DEF WorkFits
  <2>4. \A i \in DOMAIN todo : scan[todo[i]].at # "none"
    BY <1>3 DEF MountsFit
  <2>5. MountsFit(next)
    <3> HIDE DEF todo
    <3> QED
      BY <2>1, <2>2, <2>4 DEF MountsFit
  <2> QED
    BY <1>1, <1>2, <2>3, <2>5, FollowRequest
<1> QED
  BY <1>4, <1>5

LEMMA FollowStop ==
  ASSUME GitInv, FollowInv, NEW r \in Request, Stop(r)
  PROVE  FollowInv'
<1>1. /\ request[r].at \in {"mark", "persist"}
      /\ missed' = IF request[r].at = "mark" THEN missed
                   ELSE [missed EXCEPT ![Head(request[r].todo)] =
                     @ \cup {request[r].batch[i].commit : i \in DOMAIN request[r].batch}]
      /\ request' = [request EXCEPT ![r] = IdleRequest]
      /\ UNCHANGED <<branch, gitLedger, scan, upTo, done, disorder>>
  BY DEF Stop
<1>2. \A m \in GitMount : missed[m] \subseteq missed'[m]
  BY <1>1, GitDropped
<1> QED
  BY <1>1, <1>2, IdleFits, FollowRequest

\* What a mount takes in: it passes the commit, and in order only if it was
\* not beyond it.
LEMMA TakePasses ==
  ASSUME GitTyped, upTo \in [GitMount -> Nat],
         NEW m \in GitMount, NEW work \in GitWork, Take(m, work)
  PROVE  /\ upTo' \in [GitMount -> Nat]
         /\ \A k \in GitMount : upTo[k] <= upTo'[k]
         /\ work.commit <= upTo'[m]
         /\ disorder \subseteq disorder'
         /\ \A k \in GitMount \ {m} : gitLedger'[k] = gitLedger[k]
         /\ OnRecord(gitLedger[m], work.change.fingerprint) => gitLedger'[m] = gitLedger[m]
         /\ ~ OnRecord(gitLedger[m], work.change.fingerprint) =>
              /\ gitLedger'[m].changes = gitLedger[m].changes \cup {work.change}
              /\ gitLedger'[m].artifact = ArtifactsAfter(gitLedger[m], work.change)
              /\ m \notin disorder' => upTo[m] <= work.commit
<1>1. /\ gitLedger' = [gitLedger EXCEPT ![m] = Registered(gitLedger[m], work.change)]
      /\ upTo' = [upTo EXCEPT ![m] = IF upTo[m] < work.commit THEN work.commit ELSE upTo[m]]
      /\ disorder' = IF /\ work.commit < upTo[m]
                        /\ ~ OnRecord(gitLedger[m], work.change.fingerprint)
                     THEN disorder \cup {m} ELSE disorder
  BY DEF Take
<1>2. DOMAIN gitLedger = GitMount /\ work.commit \in Nat
  BY DEF GitTyped, GitWork
<1>3. /\ gitLedger'[m] = Registered(gitLedger[m], work.change)
      /\ \A k \in GitMount \ {m} : gitLedger'[k] = gitLedger[k]
  BY <1>1, <1>2
<1>4. /\ OnRecord(gitLedger[m], work.change.fingerprint) => gitLedger'[m] = gitLedger[m]
      /\ ~ OnRecord(gitLedger[m], work.change.fingerprint) =>
           /\ gitLedger'[m].changes = gitLedger[m].changes \cup {work.change}
           /\ gitLedger'[m].artifact = ArtifactsAfter(gitLedger[m], work.change)
  BY <1>3 DEF Registered
<1>5. /\ upTo' \in [GitMount -> Nat]
      /\ \A k \in GitMount : upTo[k] <= upTo'[k]
      /\ work.commit <= upTo'[m]
  BY <1>1, <1>2
<1>6. /\ disorder \subseteq disorder'
      /\ ~ OnRecord(gitLedger[m], work.change.fingerprint) =>
           (m \notin disorder' => upTo[m] <= work.commit)
  <2>1. upTo[m] \in Nat
    OBVIOUS
  <2> QED
    BY <1>1, <1>2, <2>1
<1> QED
  BY <1>3, <1>4, <1>5, <1>6

\* The commit n is registered with the mount m: the path as n leaves it.
LEMMA CommitShows ==
  ASSUME GitTyped, BranchTold, NEW m \in GitMount, NEW n \in DOMAIN branch.commits,
         NEW d, NEW p \in Path, Touches(branch.commits[n], p)
  PROVE  ArtifactsAfter(gitLedger[m], ChangeOf(n, d))[p] = "AVAILABLE"
           <=> Leaves(branch.commits[n], p)
<1> DEFINE c == branch.commits[n]
           change == ChangeOf(n, d)
<1>1. /\ change.kind = KindOf(c) /\ change.name = c.file /\ change.previous = c.from
  BY DEF ChangeOf, Change
<1>2. LedgerOf(gitLedger[m], Path) /\ Made(c)
  BY DEF GitTyped, BranchTold, Told
<1> HIDE DEF c, change
<1>3. /\ c.status = "renamed" => KindOf(c) = "MOVE"
      /\ KindOf(c) = "DELETE" <=> c.status = "removed"
  BY Zenon DEF KindOf
<1>4. CASE p = c.file
  <2>1. ArtifactsAfter(gitLedger[m], change)[p] =
          IF change.kind = "DELETE" THEN "DELETED" ELSE "AVAILABLE"
    BY <1>1, <1>2, <1>4, ArtifactsAfterFacts
  <2> QED
    BY <1>1, <1>3, <1>4, <2>1 DEF Leaves, c, change
<1>5. CASE p # c.file
  <2>1. p = c.from /\ c.status = "renamed"
    BY <1>2, <1>5 DEF Touches, Made, c
  <2>2. change.kind = "MOVE" /\ p = change.previous /\ p # change.name
    BY <1>1, <1>3, <1>5, <2>1
  <2>3. ArtifactsAfter(gitLedger[m], change)[p] = "NONE"
    BY <1>2, <2>2, ArtifactsAfterFacts
  <2> QED
    BY <1>5, <2>3 DEF Leaves, c, change
<1> QED
  BY <1>4, <1>5

\* A commit that does not touch the path leaves it to whoever showed it.
LEMMA CommitSpares ==
  ASSUME GitTyped, NEW m \in GitMount, NEW n \in DOMAIN branch.commits,
         NEW d, NEW p \in Path, ~ Touches(branch.commits[n], p)
  PROVE  ArtifactsAfter(gitLedger[m], ChangeOf(n, d))[p] = gitLedger[m].artifact[p]
<1> DEFINE c == branch.commits[n]
           change == ChangeOf(n, d)
<1>1. change.name = c.file /\ change.previous = c.from
  BY DEF ChangeOf, Change
<1>2. LedgerOf(gitLedger[m], Path)
  BY DEF GitTyped
<1>3. p # change.name /\ p # change.previous
  BY <1>1 DEF Touches
<1> HIDE DEF change
<1>4. ArtifactsAfter(gitLedger[m], change)[p] = gitLedger[m].artifact[p]
  BY <1>2, <1>3, ArtifactsAfterFacts
<1> QED
  BY <1>4 DEF change

\* A request registers the next commit of its batch.
Persists(r, m, n) ==
  LET d == request[r].delivery
      work == Work(ChangeOf(n, d), n)
  IN  /\ request[r].at = "persist" /\ Head(request[r].todo) = m
      /\ n \in DOMAIN branch.commits
      /\ work \in GitWork /\ Take(m, work)
      /\ done' = [done EXCEPT ![m] = done[m] \cup {n}]
      /\ request' = [request EXCEPT ![r] = [request[r] EXCEPT !.batch = Tail(request[r].batch)]]
      /\ UNCHANGED <<branch, scan, missed>>

LEMMA PersistTakes ==
  ASSUME GitInv, FollowInv, NEW r \in Request, PersistCommit(r)
  PROVE  /\ request[r].at = "persist" /\ request[r].batch # <<>>
         /\ Head(request[r].todo) \in GitMount
         /\ \/ \E n \in DOMAIN branch.commits : Persists(r, Head(request[r].todo), n)
            \/ /\ request' = [request EXCEPT ![r] = IdleRequest]
               /\ \A m \in GitMount : missed[m] \subseteq missed'[m]
               /\ UNCHANGED <<branch, gitLedger, scan, upTo, done, disorder>>
<1> DEFINE m == Head(request[r].todo)
           d == request[r].delivery
           push == branch.pushes[d]
           batch == request[r].batch
           work == Head(batch)
<1>1. /\ request[r].at = "persist" /\ batch # <<>>
      /\ UNCHANGED <<branch, lastSeen, scan>>
  BY DEF PersistCommit
<1>2. /\ request[r] \in RequestRecord /\ d \in DOMAIN branch.pushes /\ m \in GitMount
      /\ batch \in Seq(GitWork)
  BY <1>1, RequestFacts
<1>3. work \in GitWork /\ work = batch[1] /\ 1 \in DOMAIN batch
  BY <1>1, <1>2, TailFacts
<1>4. CASE Refused(gitLedger[m], work.change, TRUE)
  <2>1. /\ missed' = [missed EXCEPT ![m] = @ \cup {batch[i].commit : i \in DOMAIN batch}]
        /\ request' = [request EXCEPT ![r] = IdleRequest]
        /\ UNCHANGED <<gitLedger, done, upTo, disorder>>
    BY <1>4 DEF PersistCommit
  <2>2. \A k \in GitMount : missed[k] \subseteq missed'[k]
    BY <1>1, <2>1, GitDropped
  <2> QED
    BY <1>1, <1>2, <2>1, <2>2
<1>5. CASE ~ Refused(gitLedger[m], work.change, TRUE)
  <2> DEFINE n == work.commit
  <2>1. /\ Take(m, work)
        /\ done' = [done EXCEPT ![m] = done[m] \cup {n}]
        /\ request' = [request EXCEPT ![r].batch = Tail(batch)]
        /\ UNCHANGED missed
    BY <1>5 DEF PersistCommit
  <2>2. request' = [request EXCEPT ![r] = [request[r] EXCEPT !.batch = Tail(batch)]]
    BY <1>2, <2>1 DEF GitInv, GitTyped, RequestRecord
  <2>3. /\ n \in push.first .. push.last
        /\ work = Work(ChangeOf(n, d), n)
    BY <1>1, <1>3 DEF FollowInv, WorkOfPush, WorkFits
  <2>4. n \in DOMAIN branch.commits
    <3>1. /\ push \in Push /\ push.first >= 1 /\ push.last <= Len(branch.commits)
          /\ branch.commits \in Seq(Commit)
      BY <1>2 DEF GitInv, GitTyped, PushesOnBranch
    <3> QED
      BY <2>3, <3>1 DEF Push
  <2> HIDE DEF n, work, push
  <2>5. Persists(r, m, n)
    BY <1>1, <1>3, <2>1, <2>2, <2>3, <2>4 DEF Persists
  <2> QED
    BY <1>1, <1>2, <2>4, <2>5
<1> QED
  BY <1>4, <1>5

LEMMA FollowPersists ==
  ASSUME GitInv, FollowInv, NEW r \in Request, NEW m \in GitMount,
         NEW n \in DOMAIN branch.commits, Persists(r, m, n), request[r].batch # <<>>
  PROVE  FollowInv'
<1> DEFINE d == request[r].delivery
           change == ChangeOf(n, d)
           work == Work(change, n)
           c == branch.commits[n]
           next == [request[r] EXCEPT !.batch = Tail(request[r].batch)]
<1>1. /\ request[r].at = "persist" /\ Head(request[r].todo) = m
      /\ work \in GitWork /\ Take(m, work)
      /\ done' = [done EXCEPT ![m] = done[m] \cup {n}]
      /\ request' = [request EXCEPT ![r] = next]
      /\ UNCHANGED <<branch, scan, missed>>
  BY DEF Persists
<1>2. /\ GitTyped /\ BranchTold /\ WorkOfPush /\ TodoMounted /\ ScanWork
      /\ DoneIsPassed /\ RecordIsDone /\ OrderlyAgrees
  BY DEF GitInv, FollowInv
<1>3. /\ work.change = change /\ work.commit = n
      /\ change.fingerprint = <<"commit", n, c.file>>
      /\ change.fingerprint[1] = "commit" /\ change.fingerprint[2] = n
  BY DEF Work, ChangeOf, Change
<1> HIDE DEF change, work
<1>4. upTo \in [GitMount -> Nat]
  BY <1>2 DEF DoneIsPassed
<1>5. /\ upTo' \in [GitMount -> Nat]
      /\ \A k \in GitMount : upTo[k] <= upTo'[k]
      /\ n <= upTo'[m]
      /\ disorder \subseteq disorder'
      /\ \A k \in GitMount \ {m} : gitLedger'[k] = gitLedger[k]
      /\ OnRecord(gitLedger[m], change.fingerprint) => gitLedger'[m] = gitLedger[m]
      /\ ~ OnRecord(gitLedger[m], change.fingerprint) =>
           /\ gitLedger'[m].changes = gitLedger[m].changes \cup {change}
           /\ gitLedger'[m].artifact = ArtifactsAfter(gitLedger[m], change)
           /\ m \notin disorder' => upTo[m] <= n
  <2>1. /\ upTo' \in [GitMount -> Nat]
        /\ \A k \in GitMount : upTo[k] <= upTo'[k]
        /\ work.commit <= upTo'[m]
        /\ disorder \subseteq disorder'
        /\ \A k \in GitMount \ {m} : gitLedger'[k] = gitLedger[k]
        /\ OnRecord(gitLedger[m], work.change.fingerprint) => gitLedger'[m] = gitLedger[m]
        /\ ~ OnRecord(gitLedger[m], work.change.fingerprint) =>
             /\ gitLedger'[m].changes = gitLedger[m].changes \cup {work.change}
             /\ gitLedger'[m].artifact = ArtifactsAfter(gitLedger[m], work.change)
             /\ m \notin disorder' => upTo[m] <= work.commit
    BY <1>1, <1>2, <1>4, TakePasses
  <2> QED
    BY <1>3, <2>1
<1>6. /\ done'[m] = done[m] \cup {n}
      /\ \A k \in GitMount \ {m} : done'[k] = done[k]
      /\ \A k \in GitMount : done[k] \subseteq done'[k]
  BY <1>1, <1>2 DEF GitTyped
<1>7. BranchTold'
  BY <1>1, <1>2 DEF BranchTold
<1>8. WorkOfPush' /\ TodoMounted'
  <2>1. /\ \A q \in Request : WorkFits(request[q]) /\ MountsFit(request[q])
        /\ request[r] \in RequestRecord
    BY <1>2 DEF WorkOfPush, TodoMounted, GitTyped
  <2>2. /\ next.at = "persist" /\ next.batch = Tail(request[r].batch)
        /\ next.delivery = request[r].delivery /\ next.todo = request[r].todo
    BY <1>1, <2>1 DEF RequestRecord
  <2>3. \A i \in DOMAIN next.batch :
          i + 1 \in DOMAIN request[r].batch /\ next.batch[i] = request[r].batch[i + 1]
    <3> DEFINE batch == request[r].batch
    <3>1. batch \in Seq(GitWork) /\ batch # <<>>
      BY <2>1 DEF RequestRecord
    <3> HIDE DEF batch
    <3>2. \A i \in DOMAIN Tail(batch) : i + 1 \in DOMAIN batch /\ Tail(batch)[i] = batch[i + 1]
      BY <3>1, TailFacts
    <3> QED
      BY <2>2, <3>2 DEF batch
  <2> HIDE DEF next
  <2>4. WorkFits(next) /\ MountsFit(next)
    BY <1>1, <2>1, <2>2, <2>3 DEF WorkFits, MountsFit
  <2>5. \A q \in Request : WorkFits(request'[q]) /\ MountsFit(request'[q])
    BY <1>1, <1>2, <2>1, <2>4 DEF GitTyped
  <2>6. ASSUME NEW q \in Request PROVE WorkFits(request[q])' /\ MountsFit(request[q])'
    <3>1. WorkFits(request'[q]) /\ MountsFit(request'[q])
      BY <2>5
    <3>2. WorkFits(request[q])'
      BY <1>1, <3>1 DEF WorkFits, ChangeOf
    <3>3. MountsFit(request[q])'
      BY <1>1, <3>1 DEF MountsFit
    <3> QED
      BY <3>2, <3>3
  <2> QED
    BY <2>6 DEF WorkOfPush, TodoMounted
<1> HIDE DEF next
<1>9. scan[m].at # "none"
  <2> DEFINE todo == request[r].todo
  <2>1. todo \in Seq(GitMount) /\ todo # <<>> /\ MountsFit(request[r])
    BY <1>1, <1>2, RequestFacts DEF TodoMounted
  <2>2. 1 \in DOMAIN todo /\ todo[1] = m
    BY <1>1, <2>1, TailFacts
  <2> QED
    BY <2>1, <2>2 DEF MountsFit
<1>10. \A k \in GitMount : \A e \in gitLedger'[k].changes :
         e \in gitLedger[k].changes \/ (k = m /\ e = change)
  BY <1>5
<1>11. ScanWork'
  <2> SUFFICES ASSUME NEW k \in GitMount PROVE ScanFits(k)'
    BY DEF ScanWork
  <2>1. ScanFits(k)
    BY <1>2 DEF ScanWork
  <2>2. Unlisted(k)'
    <3>1. CASE k # m
      BY <1>1, <1>5, <2>1, <3>1 DEF ScanFits, Unlisted
    <3>2. CASE k = m
      BY <1>1, <1>3, <1>9, <1>10, <2>1, <3>2 DEF ScanFits, Unlisted
    <3> QED
      BY <3>1, <3>2
  <2>3. ASSUME NEW w, Waiting(k, w) PROVE Waiting(k, w)'
    <3>1. ~ OnRecord(gitLedger'[k], w.change.fingerprint)
      BY <1>3, <1>10, <2>3 DEF Waiting, OnRecord
    <3> QED
      BY <1>1, <2>3, <3>1 DEF Waiting
  <2> QED
    BY <1>1, <2>1, <2>2, <2>3 DEF ScanFits
<1>12. DoneIsPassed'
  <2> SUFFICES ASSUME NEW k \in GitMount, NEW i \in done'[k]
               PROVE  i \in DOMAIN branch.commits
                      /\ (Concerns(branch.commits[i]) => i <= upTo'[k])
    BY <1>1, <1>5 DEF DoneIsPassed
  <2>1. CASE i \in done[k]
    <3>1. i \in DOMAIN branch.commits /\ (Concerns(branch.commits[i]) => i <= upTo[k])
      BY <1>2, <2>1 DEF DoneIsPassed
    <3>2. i \in Nat /\ upTo[k] \in Nat /\ upTo'[k] \in Nat
      BY <1>2, <1>4, <1>5, <3>1 DEF GitTyped
    <3> QED
      BY <1>5, <3>1, <3>2
  <2>2. CASE k = m /\ i = n
    BY <1>5, <2>2
  <2> QED
    BY <1>6, <2>1, <2>2
<1>13. RecordIsDone'
  <2> SUFFICES ASSUME NEW k \in GitMount, NEW e \in gitLedger'[k].changes,
                      e.fingerprint[1] = "commit"
               PROVE  e.fingerprint[2] \in done'[k]
    BY DEF RecordIsDone
  <2>1. CASE e \in gitLedger[k].changes
    BY <1>2, <1>6, <2>1 DEF RecordIsDone
  <2>2. CASE k = m /\ e = change
    BY <1>3, <1>6, <2>2
  <2> QED
    BY <1>10, <2>1, <2>2
<1>14. OrderlyAgrees'
  <2> SUFFICES ASSUME NEW k \in GitMount, NEW p \in Tracked PROVE Agrees(k, p)'
    BY DEF OrderlyAgrees
  <2>1. Agrees(k, p) /\ p \in Path
    BY <1>2, TrackedAssumption DEF OrderlyAgrees
  <2>2. PathListed(k, p)' <=> PathListed(k, p)
    BY <1>1 DEF PathListed
  <2>3. CASE k # m
    <3>1. AllTold(k, p)' <=> AllTold(k, p)
      BY <1>1, <1>6, <2>3 DEF AllTold
    <3> QED
      BY <1>1, <1>5, <2>1, <2>2, <2>3, <3>1 DEF Agrees
  <2>4. CASE k = m /\ OnRecord(gitLedger[m], change.fingerprint)
    <3>1. n \in done[m]
      BY <1>2, <1>3, <2>4 DEF OnRecord, RecordIsDone
    <3>2. AllTold(k, p)' <=> AllTold(k, p)
      BY <1>1, <1>6, <2>4, <3>1 DEF AllTold
    <3> QED
      BY <1>1, <1>5, <2>1, <2>2, <2>4, <3>2 DEF Agrees
  <2>5. CASE k = m /\ ~ OnRecord(gitLedger[m], change.fingerprint) /\ ~ Touches(c, p)
    <3>1. AllTold(k, p)' <=> AllTold(k, p)
      BY <1>1, <1>6, <2>5 DEF AllTold
    <3>2. gitLedger'[m].artifact[p] = gitLedger[m].artifact[p]
      BY <1>2, <1>5, <2>1, <2>5, CommitSpares DEF change
    <3> QED
      BY <1>1, <1>5, <2>1, <2>2, <2>5, <3>1, <3>2 DEF Agrees
  <2>6. CASE k = m /\ ~ OnRecord(gitLedger[m], change.fingerprint) /\ Touches(c, p)
    <3> SUFFICES ASSUME m \notin disorder', AllTold(m, p)'
                 PROVE  gitLedger'[m].artifact[p] = "AVAILABLE" <=> branch.content[p] # 0
      BY <1>1, <2>6 DEF Agrees
    <3>1. gitLedger'[m].artifact[p] = "AVAILABLE" <=> Leaves(c, p)
      BY <1>2, <1>5, <2>1, <2>6, CommitShows DEF change
    <3>2. LastAt(branch.commits, n, p)
      <4> SUFFICES ASSUME NEW i \in DOMAIN branch.commits, i > n, Touches(branch.commits[i], p)
                   PROVE  FALSE
        BY DEF LastAt
      <4>1. i \in Nat /\ n \in Nat /\ upTo[m] \in Nat
        BY <1>2, <1>4 DEF GitTyped
      <4>2. i \in done[m]
        <5>1. i \in done'[m]
          BY <1>1 DEF AllTold
        <5> QED
          BY <1>6, <4>1, <5>1
      <4>3. Concerns(branch.commits[i])
        BY <1>2 DEF BranchTold, Told, Made, Touches, Concerns
      <4>4. i <= upTo[m]
        BY <1>2, <4>2, <4>3 DEF DoneIsPassed
      <4>5. upTo[m] <= n
        BY <1>5, <2>6
      <4> QED
        BY <4>1, <4>4, <4>5
    <3>3. branch.content[p] # 0 <=> Leaves(c, p)
      BY <1>2, <2>1, <2>6, <3>2 DEF BranchTold, Told
    <3> QED
      BY <3>1, <3>3
  <2> QED
    BY <2>3, <2>4, <2>5, <2>6
<1> QED
  BY <1>7, <1>8, <1>11, <1>12, <1>13, <1>14 DEF FollowInv

LEMMA FollowPersist ==
  ASSUME GitInv, FollowInv, NEW r \in Request, PersistCommit(r)
  PROVE  FollowInv'
<1>1. CASE \E n \in DOMAIN branch.commits : Persists(r, Head(request[r].todo), n)
  BY <1>1, PersistTakes, FollowPersists
<1>2. CASE /\ request' = [request EXCEPT ![r] = IdleRequest]
           /\ \A m \in GitMount : missed[m] \subseteq missed'[m]
           /\ UNCHANGED <<branch, gitLedger, scan, upTo, done, disorder>>
  BY <1>2, IdleFits, FollowRequest
<1> QED
  BY <1>1, <1>2, PersistTakes

\* A mount is made, lists the tree or takes in a file of it: the requests stay
\* as they are, and no other mount is touched.
LEMMA FollowMountStep ==
  ASSUME GitInv, FollowInv, NEW m \in GitMount, NEW next,
         scan' = [scan EXCEPT ![m] = next], next.at # "none",
         UNCHANGED <<branch, request, missed>>,
         \A k \in GitMount \ {m} :
           /\ gitLedger'[k] = gitLedger[k] /\ done'[k] = done[k]
           /\ upTo'[k] = upTo[k],
         disorder \subseteq disorder', upTo' \in [GitMount -> Nat],
         ScanFits(m)',
         \A n \in done'[m] :
           n \in DOMAIN branch.commits /\ (Concerns(branch.commits[n]) => n <= upTo'[m]),
         \A c \in gitLedger'[m].changes :
           c.fingerprint[1] = "commit" => c.fingerprint[2] \in done'[m],
         \A p \in Tracked : Agrees(m, p)'
  PROVE  FollowInv'
<1>1. /\ BranchTold /\ WorkOfPush /\ TodoMounted /\ ScanWork
      /\ DoneIsPassed /\ RecordIsDone /\ OrderlyAgrees
  BY DEF FollowInv
<1>2. scan'[m] = next /\ \A k \in GitMount \ {m} : scan'[k] = scan[k]
  BY DEF GitInv, GitTyped
<1>3. BranchTold'
  BY <1>1 DEF BranchTold
<1>4. WorkOfPush'
  <2> SUFFICES ASSUME NEW r \in Request PROVE WorkFits(request[r])'
    BY DEF WorkOfPush
  <2>1. WorkFits(request[r])
    BY <1>1 DEF WorkOfPush
  <2> QED
    BY <2>1 DEF WorkFits, ChangeOf
<1>5. TodoMounted'
  <2> SUFFICES ASSUME NEW r \in Request, NEW i \in DOMAIN request[r].todo
               PROVE  scan'[request[r].todo[i]].at # "none"
    BY DEF TodoMounted, MountsFit
  <2>1. request[r].todo[i] \in GitMount
    <3>1. request[r].todo \in Seq(GitMount)
      BY DEF GitInv, GitTyped, RequestRecord
    <3> QED
      BY <3>1
  <2>2. scan[request[r].todo[i]].at # "none"
    BY <1>1 DEF TodoMounted, MountsFit
  <2> QED
    BY <1>2, <2>1, <2>2
<1>6. ScanWork'
  <2> SUFFICES ASSUME NEW k \in GitMount, k # m PROVE ScanFits(k)'
    BY DEF ScanWork
  <2>1. ScanFits(k) /\ scan'[k] = scan[k] /\ gitLedger'[k] = gitLedger[k]
    BY <1>1, <1>2 DEF ScanWork
  <2> QED
    BY <2>1 DEF ScanFits, Unlisted, Waiting
<1>7. DoneIsPassed'
  <2> SUFFICES ASSUME NEW k \in GitMount, k # m, NEW n \in done'[k]
               PROVE  n \in DOMAIN branch.commits
                      /\ (Concerns(branch.commits[n]) => n <= upTo'[k])
    BY DEF DoneIsPassed
  <2> QED
    BY <1>1 DEF DoneIsPassed
<1>8. RecordIsDone'
  <2> SUFFICES ASSUME NEW k \in GitMount, k # m, NEW c \in gitLedger'[k].changes,
                      c.fingerprint[1] = "commit"
               PROVE  c.fingerprint[2] \in done'[k]
    BY DEF RecordIsDone
  <2> QED
    BY <1>1 DEF RecordIsDone
<1>9. OrderlyAgrees'
  <2> SUFFICES ASSUME NEW k \in GitMount, k # m, NEW p \in Tracked PROVE Agrees(k, p)'
    BY DEF OrderlyAgrees
  <2>1. Agrees(k, p)
    BY <1>1 DEF OrderlyAgrees
  <2>2. scan'[k] = scan[k] /\ gitLedger'[k] = gitLedger[k] /\ done'[k] = done[k]
    BY <1>2
  <2>3. (PathListed(k, p)' <=> PathListed(k, p)) /\ (AllTold(k, p)' <=> AllTold(k, p))
    BY <2>2 DEF PathListed, AllTold
  <2> QED
    BY <2>1, <2>2, <2>3 DEF Agrees
<1> QED
  BY <1>3, <1>4, <1>5, <1>6, <1>7, <1>8, <1>9 DEF FollowInv

\* A mount starts with every commit dealt with and nothing shown.
LEMMA FollowMount ==
  ASSUME GitInv, FollowInv, NEW m \in GitMount, MountRepository(m)
  PROVE  FollowInv'
<1> DEFINE next == [scan[m] EXCEPT !.at = "list"]
<1>1. /\ scan[m].at = "none"
      /\ scan' = [scan EXCEPT ![m] = next]
      /\ done' = [done EXCEPT ![m] = DOMAIN branch.commits]
      /\ upTo' = [upTo EXCEPT ![m] = Len(branch.commits)]
      /\ UNCHANGED <<branch, gitLedger, request, missed, disorder>>
  BY DEF MountRepository
<1>2. /\ GitTyped /\ DoneIsPassed /\ ScanFits(m) /\ scan[m] \in ScanRecord
      /\ branch.commits \in Seq(Commit) /\ Len(branch.commits) \in Nat
      /\ DOMAIN branch.commits = 1..Len(branch.commits)
  BY DEF GitInv, GitTyped, FollowInv, ScanWork
<1>3. /\ next.at = "list" /\ next.batch = <<>> /\ scan'[m] = next
      /\ gitLedger[m].changes = {}
      /\ \A p \in Path : gitLedger[m].artifact[p] # "AVAILABLE"
  BY <1>1, <1>2 DEF GitTyped, ScanRecord, ScanFits, Unlisted
<1> HIDE DEF next
<1>4. /\ done'[m] = DOMAIN branch.commits
      /\ \A k \in GitMount \ {m} : done'[k] = done[k]
      /\ upTo' \in [GitMount -> Nat] /\ upTo'[m] = Len(branch.commits)
      /\ \A k \in GitMount \ {m} : upTo'[k] = upTo[k]
  BY <1>1, <1>2 DEF GitTyped, DoneIsPassed
<1>5. ScanFits(m)'
  BY <1>1, <1>3 DEF ScanFits, Unlisted
<1>6. \A p \in Tracked : Agrees(m, p)'
  <2> SUFFICES ASSUME NEW p \in Tracked PROVE Agrees(m, p)'
    OBVIOUS
  <2>1. ~ PathListed(m, p)'
    BY <1>3 DEF PathListed
  <2> QED
    BY <1>1, <1>3, <2>1, TrackedAssumption DEF Agrees
<1>7. \A n \in done'[m] : n \in DOMAIN branch.commits /\ n <= upTo'[m]
  BY <1>2, <1>4
<1> QED
  BY <1>1, <1>3, <1>4, <1>5, <1>6, <1>7, FollowMountStep

\* The listing finds the tracked files of the branch, each once.
LEMMA FollowList ==
  ASSUME GitInv, FollowInv, NEW m \in GitMount, ListTree(m)
  PROVE  FollowInv'
<1> DEFINE present == {p \in Tracked : branch.content[p] # 0}
           creation(p) == Change(<<"blob", branch.content[p], p>>, "CREATE", p, p, 0)
           work == [p \in present |-> Work(creation(p), Len(branch.commits))]
           works == {Work(creation(p), Len(branch.commits)) : p \in present}
           next == [scan[m] EXCEPT !.at = "persist", !.batch = SetToSeq(works)]
<1>1. /\ scan[m].at = "list"
      /\ scan' = [scan EXCEPT ![m] = next]
      /\ UNCHANGED <<branch, gitLedger, request, upTo, done, missed, disorder>>
  BY DEF ListTree
<1>2. /\ GitTyped /\ DoneIsPassed /\ RecordIsDone /\ OrderlyAgrees /\ ScanFits(m)
      /\ scan[m] \in ScanRecord
      /\ Len(branch.commits) \in Nat
  BY DEF GitInv, GitTyped, FollowInv, ScanWork
<1>3. IsFiniteSet(works)
  <2>1. IsFiniteSet(present)
    BY TrackedAssumption, GitFinite, FS_Subset
  <2>2. works = {work[p] : p \in present} /\ DOMAIN work = present
    OBVIOUS
  <2> HIDE DEF works, work, present
  <2> QED
    BY <2>1, <2>2, FiniteRange
<1>4. /\ next.at = "persist" /\ next.batch = SetToSeq(works) /\ scan'[m] = next
  BY <1>1, <1>2 DEF GitTyped, ScanRecord
<1>5. \A w \in works : \E p \in present :
        w = Work(creation(p), Len(branch.commits))
  OBVIOUS
<1>6. \A p \in present : \E w \in works : w.change.name = p
  <2>1. \A p \in present : Work(creation(p), Len(branch.commits)).change.name = p
    BY DEF Work, Change
  <2> QED
    BY <2>1
<1>7. \A w \in works :
        /\ w.change.name \in present /\ w.change.kind = "CREATE"
        /\ w.change.fingerprint[1] = "blob" /\ w.change.fingerprint[3] = w.change.name
        /\ w.commit = Len(branch.commits)
        /\ w = Work(creation(w.change.name), Len(branch.commits))
  BY <1>5 DEF Work, Change
<1> HIDE DEF works, present, next
<1>8. \A v, w \in works : v.change.fingerprint = w.change.fingerprint => v = w
  <2> SUFFICES ASSUME NEW v \in works, NEW w \in works,
                      v.change.fingerprint = w.change.fingerprint
               PROVE  v = w
    OBVIOUS
  <2>1. v.change.name = w.change.name
    BY <1>7
  <2> QED
    BY <1>7, <2>1
<1>9. PICK batch :
        /\ batch = SetToSeq(works)
        /\ \A i \in DOMAIN batch : batch[i] \in works
        /\ \A w \in works : \E i \in DOMAIN batch : batch[i] = w
        /\ \A i, j \in DOMAIN batch : batch[i] = batch[j] => i = j
  <2> DEFINE s == SetToSeq(works)
  <2>1. /\ s \in Seq(works)
        /\ \A w \in works : \E i \in DOMAIN s : s[i] = w
        /\ \A i, j \in DOMAIN s : s[i] = s[j] => i = j
    BY <1>3, SetToSeqFacts
  <2> HIDE DEF s
  <2>2. \A i \in DOMAIN s : s[i] \in works
    BY <2>1
  <2> QED
    BY <2>1, <2>2 DEF s
<1>10. ScanFits(m)'
  <2>1. Unlisted(m)'
    BY <1>4 DEF Unlisted
  <2>2. ASSUME NEW w \in works PROVE Waiting(m, w)'
    <3>1. /\ w.change.name \in Tracked /\ branch.content[w.change.name] # 0
          /\ w.change.fingerprint[1] = "blob"
      BY <1>7 DEF present
    <3>2. ~ OnRecord(gitLedger[m], w.change.fingerprint)
      BY <1>1, <1>2, <3>1 DEF ScanFits, Unlisted, OnRecord
    <3>3. w.change.kind = "CREATE" /\ w.commit = Len(branch.commits)
      BY <1>7
    <3>4. Waiting(m, w)
      BY <1>2, <3>1, <3>2, <3>3 DEF Waiting
    <3> QED
      BY <1>1, <3>4 DEF Waiting
  <2>3. \A i \in DOMAIN batch : Waiting(m, batch[i])'
    BY <1>9, <2>2
  <2>4. \A i, j \in DOMAIN batch :
          batch[i].change.fingerprint = batch[j].change.fingerprint => i = j
    BY <1>8, <1>9
  <2>5. scan'[m].batch = batch
    BY <1>4, <1>9
  <2> QED
    BY <2>1, <2>3, <2>4, <2>5 DEF ScanFits
<1>11. \A p \in Tracked : Agrees(m, p)'
  <2> SUFFICES ASSUME NEW p \in Tracked PROVE Agrees(m, p)'
    OBVIOUS
  <2>1. Agrees(m, p)
    BY <1>2 DEF OrderlyAgrees
  <2>2. AllTold(m, p)' <=> AllTold(m, p)
    BY <1>1 DEF AllTold
  <2>3. PathListed(m, p)' => branch.content[p] = 0
    <3> SUFFICES ASSUME p \in present PROVE ~ PathListed(m, p)'
      BY DEF present
    <3>1. \E i \in DOMAIN batch : batch[i].change.name = p
      BY <1>6, <1>9
    <3> QED
      BY <1>4, <1>9, <3>1 DEF PathListed
  <2> QED
    BY <1>1, <2>1, <2>2, <2>3 DEF Agrees
<1>12. /\ upTo' \in [GitMount -> Nat]
       /\ \A n \in done'[m] :
            n \in DOMAIN branch.commits /\ (Concerns(branch.commits[n]) => n <= upTo'[m])
       /\ \A c \in gitLedger'[m].changes :
            c.fingerprint[1] = "commit" => c.fingerprint[2] \in done'[m]
  BY <1>1, <1>2 DEF DoneIsPassed, RecordIsDone
<1>13. next.at # "none"
  BY <1>4
<1> QED
  BY <1>1, <1>10, <1>11, <1>12, <1>13, FollowMountStep

LEMMA FollowEndScan ==
  ASSUME GitInv, FollowInv, NEW m \in GitMount, EndScan(m)
  PROVE  FollowInv'
<1> DEFINE next == [scan[m] EXCEPT !.at = "done"]
<1>1. /\ scan[m].at = "persist" /\ scan[m].batch = <<>>
      /\ scan' = [scan EXCEPT ![m] = next]
      /\ UNCHANGED <<branch, gitLedger, request, upTo, done, missed, disorder>>
  BY DEF EndScan
<1>2. /\ GitTyped /\ DoneIsPassed /\ RecordIsDone /\ OrderlyAgrees
      /\ scan[m] \in ScanRecord
  BY DEF GitInv, GitTyped, FollowInv
<1>3. next.at = "done" /\ next.batch = <<>> /\ scan'[m] = next
  BY <1>1, <1>2 DEF GitTyped, ScanRecord
<1> HIDE DEF next
<1>4. ScanFits(m)'
  BY <1>3 DEF ScanFits, Unlisted
<1>5. \A p \in Tracked : Agrees(m, p)'
  <2> SUFFICES ASSUME NEW p \in Tracked PROVE Agrees(m, p)'
    OBVIOUS
  <2>1. Agrees(m, p) /\ (AllTold(m, p)' <=> AllTold(m, p))
    BY <1>1, <1>2 DEF OrderlyAgrees, AllTold
  <2>2. PathListed(m, p)
    BY <1>1 DEF PathListed
  <2> QED
    BY <1>1, <2>1, <2>2 DEF Agrees
<1>6. /\ upTo' \in [GitMount -> Nat]
      /\ \A n \in done'[m] :
           n \in DOMAIN branch.commits /\ (Concerns(branch.commits[n]) => n <= upTo'[m])
      /\ \A c \in gitLedger'[m].changes :
           c.fingerprint[1] = "commit" => c.fingerprint[2] \in done'[m]
  BY <1>1, <1>2 DEF DoneIsPassed, RecordIsDone
<1>7. next.at # "none"
  BY <1>3
<1> QED
  BY <1>1, <1>4, <1>5, <1>6, <1>7, FollowMountStep

\* A file of the listing is shown: it is still on the branch, or a later commit
\* of it is not dealt with, or the listing came too late.
LEMMA FollowFile ==
  ASSUME GitInv, FollowInv, NEW m \in GitMount, PersistFile(m)
  PROVE  FollowInv'
<1> DEFINE batch == scan[m].batch
           work == Head(batch)
           rest == Tail(batch)
<1>1. /\ scan[m].at = "persist" /\ batch # <<>>
      /\ UNCHANGED <<branch, request, done, missed>>
  BY DEF PersistFile
<1>2. /\ GitTyped /\ BranchTold /\ DoneIsPassed /\ RecordIsDone /\ OrderlyAgrees
      /\ ScanFits(m) /\ scan[m] \in ScanRecord /\ upTo \in [GitMount -> Nat]
  BY DEF GitInv, GitTyped, FollowInv, ScanWork, DoneIsPassed
<1>3. batch \in Seq(GitWork)
  BY <1>2 DEF ScanRecord
<1>4. /\ work \in GitWork /\ Waiting(m, work)
      /\ \A i \in DOMAIN rest : i + 1 \in DOMAIN batch /\ rest[i] = batch[i + 1]
      /\ \A i \in DOMAIN batch : i # 1 => i - 1 \in DOMAIN rest /\ rest[i - 1] = batch[i]
      /\ \A i, j \in DOMAIN rest : rest[i].change.fingerprint = rest[j].change.fingerprint => i = j
      /\ \A i \in DOMAIN rest : Waiting(m, rest[i])
      /\ \A i \in DOMAIN rest : rest[i].change.fingerprint # work.change.fingerprint
      /\ work = batch[1]
  <2> HIDE DEF batch
  <2>1. /\ work = batch[1] /\ work \in GitWork /\ 1 \in DOMAIN batch
        /\ \A i \in DOMAIN rest : i \in Nat \ {0} /\ i + 1 \in DOMAIN batch /\ rest[i] = batch[i + 1]
        /\ \A i \in DOMAIN batch : i # 1 => i - 1 \in DOMAIN rest /\ rest[i - 1] = batch[i]
    BY <1>1, <1>3, TailFacts
  <2>2. /\ \A i \in DOMAIN batch : Waiting(m, batch[i])
        /\ \A i, j \in DOMAIN batch :
             batch[i].change.fingerprint = batch[j].change.fingerprint => i = j
    BY <1>2 DEF ScanFits, batch
  <2> HIDE DEF work, rest
  <2>3. \A i, j \in DOMAIN rest :
          rest[i].change.fingerprint = rest[j].change.fingerprint => i = j
    <3> SUFFICES ASSUME NEW i \in DOMAIN rest, NEW j \in DOMAIN rest,
                        rest[i].change.fingerprint = rest[j].change.fingerprint
                 PROVE  i = j
      OBVIOUS
    <3>1. i + 1 = j + 1
      BY <2>1, <2>2
    <3> QED
      BY <2>1, <3>1
  <2>4. \A i \in DOMAIN rest : rest[i].change.fingerprint # work.change.fingerprint
    <3> SUFFICES ASSUME NEW i \in DOMAIN rest,
                        rest[i].change.fingerprint = work.change.fingerprint
                 PROVE  FALSE
      OBVIOUS
    <3>1. i + 1 = 1
      BY <2>1, <2>2
    <3> QED
      BY <2>1, <3>1
  <2> QED
    BY <2>1, <2>2, <2>3, <2>4
<1>5. CASE Refused(gitLedger[m], work.change, TRUE)
  <2> DEFINE next == [scan[m] EXCEPT !.at = "failed", !.batch = <<>>]
  <2>1. /\ scan' = [scan EXCEPT ![m].at = "failed", ![m].batch = <<>>]
        /\ UNCHANGED <<gitLedger, upTo, disorder>>
    BY <1>5 DEF PersistFile
  <2>2. scan' = [scan EXCEPT ![m] = next]
    BY <1>2, <2>1 DEF GitTyped, ScanRecord
  <2>3. next.at = "failed" /\ next.batch = <<>> /\ scan'[m] = next
    BY <1>2, <2>2 DEF GitTyped, ScanRecord
  <2> HIDE DEF next
  <2>4. ScanFits(m)'
    BY <2>3 DEF ScanFits, Unlisted
  <2>5. \A p \in Tracked : Agrees(m, p)'
    <3> SUFFICES ASSUME NEW p \in Tracked PROVE Agrees(m, p)'
      OBVIOUS
    <3>1. Agrees(m, p) /\ (AllTold(m, p)' <=> AllTold(m, p))
      BY <1>1, <1>2 DEF OrderlyAgrees, AllTold
    <3>2. ~ PathListed(m, p)'
      BY <2>3 DEF PathListed
    <3> QED
      BY <1>1, <2>1, <3>1, <3>2 DEF Agrees
  <2>6. /\ upTo' \in [GitMount -> Nat]
        /\ \A n \in done'[m] :
             n \in DOMAIN branch.commits /\ (Concerns(branch.commits[n]) => n <= upTo'[m])
        /\ \A c \in gitLedger'[m].changes :
             c.fingerprint[1] = "commit" => c.fingerprint[2] \in done'[m]
    BY <1>1, <1>2, <2>1 DEF DoneIsPassed, RecordIsDone
  <2>7. next.at # "none"
    BY <2>3
  <2> QED
    BY <1>1, <2>1, <2>2, <2>4, <2>5, <2>6, <2>7, FollowMountStep
<1>6. CASE ~ Refused(gitLedger[m], work.change, TRUE)
  <2> DEFINE next == [scan[m] EXCEPT !.batch = rest]
             q == work.change.name
  <2>1. /\ scan' = [scan EXCEPT ![m] = next]
        /\ Take(m, work)
    BY <1>6 DEF PersistFile
  <2>2. next.at = "persist" /\ next.batch = rest /\ scan'[m] = next
    BY <1>1, <1>2, <2>1 DEF GitTyped, ScanRecord
  <2> HIDE DEF next, work, rest
  <2>3. /\ q \in Tracked /\ work.change.kind = "CREATE"
        /\ work.change.fingerprint[1] = "blob"
        /\ ~ OnRecord(gitLedger[m], work.change.fingerprint)
    BY <1>4 DEF Waiting
  <2>4. /\ upTo' \in [GitMount -> Nat]
        /\ \A k \in GitMount : upTo[k] <= upTo'[k]
        /\ disorder \subseteq disorder'
        /\ \A k \in GitMount \ {m} : gitLedger'[k] = gitLedger[k]
        /\ gitLedger'[m].changes = gitLedger[m].changes \cup {work.change}
        /\ gitLedger'[m].artifact = ArtifactsAfter(gitLedger[m], work.change)
        /\ m \notin disorder' => upTo[m] <= work.commit
    BY <1>2, <1>4, <2>1, <2>3, TakePasses
  <2>5. \A k \in GitMount \ {m} : upTo'[k] = upTo[k]
    BY <1>2, <2>1 DEF Take
  <2>6. PICK left : left = rest
    OBVIOUS
  <2>7. ScanFits(m)'
    <3>1. Unlisted(m)'
      BY <1>1, <2>2 DEF Unlisted
    <3>2. ASSUME NEW w, Waiting(m, w), w.change.fingerprint # work.change.fingerprint
          PROVE  Waiting(m, w)'
      <4>1. ~ OnRecord(gitLedger'[m], w.change.fingerprint)
        BY <2>4, <3>2 DEF Waiting, OnRecord
      <4> QED
        BY <1>1, <3>2, <4>1 DEF Waiting
    <3>3. \A i \in DOMAIN left : Waiting(m, left[i])'
      BY <1>4, <2>6, <3>2
    <3>4. \A i, j \in DOMAIN left :
            left[i].change.fingerprint = left[j].change.fingerprint => i = j
      BY <1>4, <2>6
    <3>5. scan'[m].batch = left
      BY <2>2, <2>6
    <3> QED
      BY <3>1, <3>3, <3>4, <3>5 DEF ScanFits
  <2>8. \A p \in Tracked : Agrees(m, p)'
    <3> SUFFICES ASSUME NEW p \in Tracked PROVE Agrees(m, p)'
      OBVIOUS
    <3>1. Agrees(m, p) /\ p \in Path /\ q \in Path /\ LedgerOf(gitLedger[m], Path)
      BY <1>2, <2>3, TrackedAssumption DEF OrderlyAgrees, GitTyped
    <3>2. AllTold(m, p)' <=> AllTold(m, p)
      BY <1>1 DEF AllTold
    <3>3. CASE p = q
      <4> SUFFICES ASSUME m \notin disorder', AllTold(m, p)
                   PROVE  /\ gitLedger'[m].artifact[p] = "AVAILABLE"
                          /\ branch.content[p] # 0
        BY <1>1, <3>2 DEF Agrees
      <4>1. gitLedger'[m].artifact[p] = "AVAILABLE"
        BY <2>3, <2>4, <3>1, <3>3, ArtifactsAfterFacts
      <4>2. ASSUME NEW n \in DOMAIN branch.commits, n > work.commit,
                   Touches(branch.commits[n], p)
            PROVE  FALSE
        <5>1. n \in done[m]
          BY <4>2 DEF AllTold
        <5>2. Concerns(branch.commits[n])
          BY <1>2, <4>2 DEF BranchTold, Told, Made, Touches, Concerns
        <5>3. n <= upTo[m]
          BY <1>2, <5>1, <5>2 DEF DoneIsPassed
        <5>4. upTo[m] <= work.commit
          BY <2>4
        <5>5. n \in Nat /\ upTo[m] \in Nat /\ work.commit \in Nat
          BY <1>2, <1>4 DEF GitTyped, GitWork
        <5> QED
          BY <4>2, <5>3, <5>4, <5>5
      <4>3. branch.content[p] # 0
        BY <1>4, <3>3, <4>2 DEF Waiting
      <4> QED
        BY <4>1, <4>3
    <3>4. CASE p # q
      <4>1. gitLedger'[m].artifact[p] = gitLedger[m].artifact[p]
        <5> DEFINE change == work.change
        <5>1. p # change.name /\ ~ (change.kind = "MOVE" /\ p = change.previous)
          BY <2>3, <3>4
        <5> HIDE DEF change
        <5>2. ArtifactsAfter(gitLedger[m], change)[p] = gitLedger[m].artifact[p]
          BY <3>1, <5>1, ArtifactsAfterFacts
        <5> QED
          BY <2>4, <5>2 DEF change
      <4>2. PathListed(m, p)' => PathListed(m, p)
        <5> SUFFICES ASSUME \A i \in DOMAIN rest : rest[i].change.name # p,
                            NEW i \in DOMAIN batch
                     PROVE  batch[i].change.name # p
          BY <1>1, <2>2 DEF PathListed
        <5>1. CASE i = 1
          BY <1>4, <3>4, <5>1
        <5>2. CASE i # 1
          BY <1>4, <5>2
        <5> QED
          BY <5>1, <5>2
      <4> QED
        BY <1>1, <2>4, <3>1, <3>2, <4>1, <4>2 DEF Agrees
    <3> QED
      BY <3>3, <3>4
  <2>9. \A n \in done'[m] :
          n \in DOMAIN branch.commits /\ (Concerns(branch.commits[n]) => n <= upTo'[m])
    <3> SUFFICES ASSUME NEW n \in done[m]
                 PROVE  n \in DOMAIN branch.commits
                        /\ (Concerns(branch.commits[n]) => n <= upTo'[m])
      BY <1>1
    <3>1. n \in DOMAIN branch.commits /\ (Concerns(branch.commits[n]) => n <= upTo[m])
      BY <1>2 DEF DoneIsPassed
    <3>2. n \in Nat /\ upTo[m] \in Nat /\ upTo'[m] \in Nat
      BY <1>2, <2>4, <3>1 DEF GitTyped
    <3> QED
      BY <2>4, <3>1, <3>2
  <2>10. \A c \in gitLedger'[m].changes :
           c.fingerprint[1] = "commit" => c.fingerprint[2] \in done'[m]
    BY <1>1, <1>2, <2>3, <2>4 DEF RecordIsDone
  <2>11. next.at # "none"
    BY <2>2
  <2>12. \A k \in GitMount \ {m} : gitLedger'[k] = gitLedger[k] /\ done'[k] = done[k]
    BY <1>1, <2>4
  <2> QED
    BY <1>1, <2>1, <2>4, <2>5, <2>7, <2>8, <2>9, <2>10, <2>11, <2>12, FollowMountStep
<1> QED
  BY <1>5, <1>6

LEMMA FollowInitially ==
  GitInit => FollowInv
<1> SUFFICES ASSUME GitInit PROVE FollowInv
  OBVIOUS
<1>1. PICK present \in SUBSET Path :
        branch = [content |-> [p \in Path |-> IF p \in present THEN 1 ELSE 0],
                  commits |-> <<>>, pushes |-> <<>>]
  BY DEF GitInit
<1>2. branch.commits = <<>> /\ DOMAIN branch.commits = {}
  BY <1>1
<1>3. BranchTold
  BY <1>2 DEF BranchTold, Told
<1>4. WorkOfPush /\ TodoMounted
  BY IdleFits DEF GitInit, WorkOfPush, TodoMounted
<1>5. /\ \A m \in GitMount : scan[m].at = "none" /\ scan[m].batch = <<>>
      /\ \A m \in GitMount : gitLedger[m].changes = {}
      /\ \A m \in GitMount, p \in Path : gitLedger[m].artifact[p] = "NONE"
      /\ upTo \in [GitMount -> Nat] /\ \A m \in GitMount : done[m] = {}
  BY DEF GitInit, NoScan, EmptyLedger
<1>6. ScanWork
  BY <1>5 DEF ScanWork, ScanFits, Unlisted
<1>7. DoneIsPassed /\ RecordIsDone
  BY <1>5 DEF DoneIsPassed, RecordIsDone
<1>8. OrderlyAgrees
  BY <1>5, TrackedAssumption DEF OrderlyAgrees, Agrees, PathListed
<1> QED
  BY <1>3, <1>4, <1>6, <1>7, <1>8 DEF FollowInv

LEMMA FollowPreserved ==
  GitInv /\ FollowInv /\ [GitStep]_gitVars => FollowInv'
<1> SUFFICES ASSUME GitInv, FollowInv, [GitStep]_gitVars PROVE FollowInv'
  OBVIOUS
<1>1. CASE PushCommits
  BY <1>1, FollowPush
<1>2. ASSUME NEW r \in Request, NEW d \in DOMAIN branch.pushes, Deliver(r, d) PROVE FollowInv'
  BY <1>2, FollowDeliver
<1>3. ASSUME NEW r \in Request, Process(r) PROVE FollowInv'
  BY <1>3, FollowProcess
<1>4. ASSUME NEW r \in Request, MarkSeen(r) PROVE FollowInv'
  BY <1>4, FollowMark
<1>5. ASSUME NEW r \in Request, PersistCommit(r) PROVE FollowInv'
  BY <1>5, FollowPersist
<1>6. ASSUME NEW r \in Request, NextMount(r) PROVE FollowInv'
  BY <1>6, FollowNextMount
<1>7. ASSUME NEW r \in Request, Stop(r) PROVE FollowInv'
  BY <1>7, FollowStop
<1>8. ASSUME NEW m \in GitMount, MountRepository(m) PROVE FollowInv'
  BY <1>8, FollowMount
<1>9. ASSUME NEW m \in GitMount, ListTree(m) PROVE FollowInv'
  BY <1>9, FollowList
<1>10. ASSUME NEW m \in GitMount, PersistFile(m) PROVE FollowInv'
  BY <1>10, FollowFile
<1>11. ASSUME NEW m \in GitMount, EndScan(m) PROVE FollowInv'
  BY <1>11, FollowEndScan
<1>12. CASE UNCHANGED gitVars
  <2>1. UNCHANGED <<branch, gitLedger, scan, request, upTo, done, missed, disorder>>
    BY <1>12 DEF gitVars
  <2>2. BranchTold' /\ RecordIsDone'
    BY <2>1 DEF FollowInv, BranchTold, RecordIsDone
  <2>3. DoneIsPassed'
    BY <2>1 DEF FollowInv, DoneIsPassed
  <2>4. WorkOfPush'
    <3> SUFFICES ASSUME NEW r \in Request PROVE WorkFits(request[r])'
      BY DEF WorkOfPush
    <3>1. WorkFits(request[r])
      BY DEF FollowInv, WorkOfPush
    <3> QED
      BY <2>1, <3>1 DEF WorkFits, ChangeOf
  <2>5. TodoMounted'
    BY <2>1 DEF FollowInv, TodoMounted, MountsFit
  <2>6. ScanWork'
    BY <2>1 DEF FollowInv, ScanWork, ScanFits, Unlisted, Waiting
  <2>7. OrderlyAgrees'
    BY <2>1, AgreesKeeps
  <2> QED
    BY <2>2, <2>3, <2>4, <2>5, <2>6, <2>7 DEF FollowInv
<1> QED
  BY <1>1, <1>2, <1>3, <1>4, <1>5, <1>6, <1>7, <1>8, <1>9, <1>10, <1>11, <1>12 DEF GitStep

LEMMA FollowInvariant ==
  GitSpec => []FollowInv
<1>1. GitInit => FollowInv
  BY FollowInitially
<1>2. GitInv /\ FollowInv /\ [GitStep]_gitVars => FollowInv'
  BY FollowPreserved
<1> QED
  BY <1>1, <1>2, GitInvariant, PTL DEF GitSpec

\* A mount that has dealt with every commit in order, and lost none, holds
\* exactly the tracked files of the branch: with any number of tracked paths,
\* commits, renames, requests at once and repetitions of deliveries.
THEOREM BranchFollowedCorrect ==
  GitSpec => []BranchIsFollowed
<1>1. FollowInv => BranchIsFollowed
  <2> SUFFICES ASSUME FollowInv, NEW m \in GitMount,
                      scan[m].at = "done", missed[m] = {}, m \notin disorder,
                      DOMAIN branch.commits \subseteq done[m],
                      NEW p \in Tracked
               PROVE  gitLedger[m].artifact[p] = "AVAILABLE" <=> branch.content[p] # 0
    BY DEF BranchIsFollowed
  <2>1. Agrees(m, p) /\ AllTold(m, p) /\ PathListed(m, p)
    BY DEF FollowInv, OrderlyAgrees, AllTold, PathListed
  <2> QED
    BY <2>1 DEF Agrees
<1> QED
  BY <1>1, FollowInvariant, PTL
=============================================================================
