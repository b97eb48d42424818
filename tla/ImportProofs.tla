---------------------------- MODULE ImportProofs ----------------------------
(***************************************************************************)
(* Proofs about the import of articles: the inductive invariant of         *)
(* ImportJobs, with one lemma per part of it that says that every step     *)
(* preserves it, and what follows; that ImportJobs implements              *)
(* ImportPromise; and what readers of jobs are shown and what migrations   *)
(* of the jobs leave (ImportReads, ImportMigration).                       *)
(***************************************************************************)
EXTENDS ImportMigration, FiniteSetTheorems, TLAPS

LEMMA AtTyped ==
  ASSUME NEW ph \in {"picked", "loaded", "written", "broken"}, NEW j \in Jobs,
         NEW left \in Nat, NEW i \in Nat, NEW c \in Job
  PROVE  At(ph, j, left, i, c) \in Working
BY DEF At, Working

LEMMA NoJobTyped == NoJob \in Job
BY DEF NoJob, Job, Active, Completed

LEMMA IdleApart == \A x \in Working : x # Idle /\ x.phase # "idle"
BY DEF Working, Idle

(* Releasing frees what w held and nothing else                            *)
LEMMA Released ==
  ASSUME TypeOK, ImportAssumption, NEW w \in Workers, Release(w)
  PROVE  /\ lock' \in [Jobs -> Workers \cup {Free}]
         /\ claim' \in [Slugs -> Workers \cup {Free}]
         /\ \A j \in Jobs : lock'[j] = IF lock[j] = w THEN Free ELSE lock[j]
         /\ \A s \in Slugs : claim'[s] = IF claim[s] = w THEN Free ELSE claim[s]
BY DEF TypeOK, Release, ImportAssumption

LEMMA AdvancedTyped ==
  ASSUME NEW x \in Job, NEW total, NEW ok \in BOOLEAN
  PROVE  /\ Advanced(x, total, ok) \in Job
         /\ Advanced(x, total, ok).status # "absent"
         /\ Advanced(x, total, ok).attempts = x.attempts
         /\ Advanced(x, total, ok).processed = x.processed + 1
         /\ Advanced(x, total, ok).failed = x.failed + (IF ok THEN 0 ELSE 1)
<1> DEFINE n == x.processed + 1
           f == IF ok THEN x.failed ELSE x.failed + 1
           st == IF n # total THEN "processing"
                 ELSE IF f = 0 THEN "completed" ELSE "completed_with_errors"
<1>1. n \in Nat /\ f \in Nat /\ x.failed + (IF ok THEN 0 ELSE 1) = f
  BY DEF Job
<1>2. st \in Active \cup Completed \cup {"absent", "failed"} /\ st # "absent"
  BY DEF Active, Completed
<1>3. Advanced(x, total, ok) = [x EXCEPT !.processed = n, !.failed = f,
                                         !.error = FALSE, !.status = st]
  BY DEF Advanced
<1> HIDE DEF n, f, st
<1>4. /\ Advanced(x, total, ok) \in Job /\ Advanced(x, total, ok).status = st
      /\ Advanced(x, total, ok).attempts = x.attempts
      /\ Advanced(x, total, ok).processed = n /\ Advanced(x, total, ok).failed = f
  <2> DEFINE y == [x EXCEPT !.processed = n, !.failed = f, !.error = FALSE, !.status = st]
  <2>1. y \in Job /\ y.status = st /\ y.attempts = x.attempts
    BY <1>1, <1>2 DEF Job
  <2>2. y.processed = n /\ y.failed = f
    BY DEF Job
  <2>3. QED BY <1>3, <2>1, <2>2
<1>5. QED BY <1>1, <1>2, <1>4 DEF n

LEMMA ChargedTyped ==
  ASSUME NEW x \in Job
  PROVE  /\ Charged(x) \in Job
         /\ Charged(x).status = "absent" <=> x.status = "absent"
         /\ Charged(x).processed = x.processed /\ Charged(x).failed = x.failed
<1> DEFINE n == x.attempts + 1
           st == IF n >= MaxAttempts THEN "failed" ELSE x.status
           y == [x EXCEPT !.attempts = n, !.error = TRUE, !.status = st]
<1>1. n \in Nat /\ st \in Active \cup Completed \cup {"absent", "failed"}
  BY DEF Job
<1>2. x.status \in Active => st # "absent"
  BY DEF Active
<1>3. Charged(x) = IF x.status \notin Active THEN x ELSE y
  BY DEF Charged
<1> HIDE DEF n, st
<1>4. /\ y \in Job /\ y.status = st
      /\ y.processed = x.processed /\ y.failed = x.failed
  BY <1>1 DEF Job
<1> HIDE DEF y
<1>5. QED BY <1>2, <1>3, <1>4 DEF Active

(* The rows of a new job, and the decision of one row                      *)
LEMMA NewRowsTyped ==
  ASSUME NEW slugs \in SlugLists, ImportAssumption
  PROVE  LET rows == [p \in DOMAIN slugs |-> [slug |-> slugs[p], status |-> "pending"]]
         IN /\ rows \in Seq(Item) /\ rows # <<>>
            /\ \A p \in DOMAIN rows : rows[p].status = "pending"
<1> DEFINE rows == [p \in DOMAIN slugs |-> [slug |-> slugs[p], status |-> "pending"]]
<1>1. PICK n \in 1..MaxRows : slugs \in [1..n -> Slugs]
  BY DEF SlugLists
<1>2. n \in Nat /\ DOMAIN rows = 1..n /\ n > 0
  BY <1>1, ImportAssumption DEF ImportAssumption
<1>3. \A p \in 1..n : rows[p] \in Item /\ rows[p].status = "pending"
  BY <1>1 DEF Item
<1>4. rows \in [1..n -> Item]
  BY <1>2, <1>3
<1> HIDE DEF rows
<1>5. rows \in Seq(Item) /\ Len(rows) = n
  BY <1>2, <1>4
<1>6. QED BY <1>2, <1>3, <1>5 DEF rows

Decided(rows, p, st) == [rows EXCEPT ![p].status = st]
LEMMA DecidedTyped ==
  ASSUME NEW rows \in Seq(Item), NEW p \in DOMAIN rows,
         NEW st \in {"imported", "failed"}
  PROVE  /\ Decided(rows, p, st) \in Seq(Item)
         /\ Len(Decided(rows, p, st)) = Len(rows)
         /\ DOMAIN Decided(rows, p, st) = DOMAIN rows
         /\ Decided(rows, p, st)[p].status = st
         /\ Decided(rows, p, st)[p].slug = rows[p].slug
         /\ \A q \in DOMAIN rows : q # p => Decided(rows, p, st)[q] = rows[q]
<1> DEFINE x == [rows[p] EXCEPT !.status = st]
           new == [rows EXCEPT ![p] = x]
<1>1. x \in Item /\ x.status = st /\ x.slug = rows[p].slug
  <2>1. rows[p] \in Item
    OBVIOUS
  <2>2. QED BY <2>1 DEF Item
<1> HIDE DEF x
<1>2. new \in Seq(Item) /\ Len(new) = Len(rows) /\ DOMAIN new = DOMAIN rows
  BY <1>1
<1>3. new[p] = x /\ \A q \in DOMAIN rows : q # p => new[q] = rows[q]
  OBVIOUS
<1>4. Decided(rows, p, st) = new
  BY DEF x, Decided
<1> HIDE DEF new
<1>5. QED BY <1>1, <1>2, <1>3, <1>4
-----------------------------------------------------------------------------
(* What a working importer is known to have                                *)
LEMMA WorkerFacts ==
  ASSUME TypeOK, NEW w \in Workers, worker[w] # Idle
  PROVE  /\ worker[w] \in Working /\ worker[w].job \in Jobs
         /\ worker[w].left \in Nat /\ worker[w].item \in Nat
         /\ worker[w].copy \in Job
         /\ worker[w].phase \in {"picked", "loaded", "written", "broken"}
BY DEF TypeOK, Working

LEMMA PhaseWorks ==
  ASSUME NEW w \in Workers, worker[w].phase # "idle"
  PROVE  worker[w] # Idle
BY DEF Idle

(* The moves of one importer keep the type of all                          *)
LEMMA WorkerTyped ==
  ASSUME TypeOK, NEW w \in Workers, NEW x \in Working \cup {Idle}
  PROVE  [worker EXCEPT ![w] = x] \in [Workers -> Working \cup {Idle}]
BY DEF TypeOK

LEMMA AheadTyped ==
  ASSUME TypeOK, NEW j \in Jobs, Join(j) \/ Leave(j) \/ UNCHANGED ahead
  PROVE  ahead' \in [Jobs -> SUBSET Jobs]
<1>1. DueJobs \ {j} \in SUBSET Jobs
  BY DEF DueJobs
<1>2. CASE Join(j)
  BY <1>1, <1>2 DEF TypeOK, Join
<1>3. CASE Leave(j)
  BY <1>3 DEF TypeOK, Leave
<1>4. CASE UNCHANGED ahead
  BY <1>4 DEF TypeOK
<1>5. QED BY <1>2, <1>3, <1>4

LEMMA InitTyped == ASSUME ImportAssumption, Init PROVE TypeOK
<1>1. \A j \in Jobs : items[j] \in Seq(Item)
  BY DEF Init
<1>2. QED
  BY <1>1, NoJobTyped DEF Init, TypeOK, Origin

LEMMA RequestTyped ==
  ASSUME TypeOK, ImportAssumption, NEW j \in Jobs,
         Ask(j) \/ RetryImport(j) \/ DelayElapses(j)
  PROVE  TypeOK'
<1>1. ASSUME NEW slugs \in SlugLists, CreateImportJob(j, slugs)
      PROVE  TypeOK'
  <2> DEFINE rows == [p \in DOMAIN slugs |-> [slug |-> slugs[p], status |-> "pending"]]
  <2>1. items' \in [Jobs -> Seq(Item)]
    <3>1. rows \in Seq(Item)
      BY NewRowsTyped
    <3>2. items' = [items EXCEPT ![j] = rows]
      BY <1>1 DEF CreateImportJob
    <3> HIDE DEF rows
    <3>3. QED BY <3>1, <3>2 DEF TypeOK
  <2>2. job' \in [Jobs -> Job]
    <3>1. job[j] \in Job
      BY DEF TypeOK
    <3>2. [job[j] EXCEPT !.status = "pending"] \in Job
      BY <3>1 DEF Job, Active
    <3>3. QED BY <1>1, <3>2 DEF CreateImportJob, TypeOK
  <2>3. ahead' \in [Jobs -> SUBSET Jobs]
    BY <1>1, AheadTyped DEF CreateImportJob
  <2>4. QED BY <1>1, <2>1, <2>2, <2>3 DEF CreateImportJob, TypeOK
<1>2. CASE RetryImport(j)
  <2>1. job' \in [Jobs -> Job]
    <3>1. job[j] \in Job
      BY DEF TypeOK
    <3>2. [job[j] EXCEPT !.status = "pending", !.attempts = 0, !.error = FALSE] \in Job
      BY <3>1 DEF Job, Active
    <3>3. QED BY <1>2, <3>2 DEF RetryImport, TypeOK
  <2>2. ahead' \in [Jobs -> SUBSET Jobs]
    BY <1>2, AheadTyped DEF RetryImport
  <2>3. QED BY <1>2, <2>1, <2>2 DEF RetryImport, TypeOK
<1>3. CASE DelayElapses(j)
  <2>1. ahead' \in [Jobs -> SUBSET Jobs]
    BY <1>3, AheadTyped DEF DelayElapses
  <2>2. QED BY <1>3, <2>1 DEF DelayElapses, TypeOK
<1>4. QED BY <1>1, <1>2, <1>3 DEF Ask

LEMMA CreateArticleTyped ==
  ASSUME TypeOK, NEW s \in Slugs, CreateArticle(s)
  PROVE  TypeOK'
BY DEF TypeOK, CreateArticle, Origin

LEMMA CommitRowTyped ==
  ASSUME TypeOK, HolderIsCurrent, ImportAssumption, NEW w \in Workers, CommitRow(w)
  PROVE  TypeOK'
<1> DEFINE x == worker[w]
           j == x.job
           i == x.item
           s == items[j][i].slug
           ok == claim[s] = w
           new == Advanced(x.copy, Len(items[j]), ok)
<1>1. /\ x \in Working /\ j \in Jobs /\ i \in Nat /\ x.left \in Nat /\ x.copy \in Job
      /\ x.phase = "written"
  BY WorkerFacts, PhaseWorks DEF CommitRow
<1>2. items[j] \in Seq(Item) /\ i \in DOMAIN items[j] /\ s \in Slugs
  <2>1. items[j] \in Seq(Item) /\ i \in DOMAIN items[j]
    BY <1>1 DEF HolderIsCurrent, WrittenFirst, First, TypeOK
  <2>2. items[j][i] \in Item
    BY <2>1
  <2>3. QED BY <2>1, <2>2 DEF Item
<1>3. new \in Job
  <2>1. ok \in BOOLEAN
    OBVIOUS
  <2> HIDE DEF ok
  <2>2. QED BY <1>1, <2>1, AdvancedTyped
<1>4. job' \in [Jobs -> Job]
  BY <1>1, <1>3 DEF CommitRow, TypeOK
<1>5. items' \in [Jobs -> Seq(Item)]
  <2> DEFINE st == IF ok THEN "imported" ELSE "failed"
             rows == Decided(items[j], i, st)
  <2>1. items' = [items EXCEPT ![j] = rows]
    BY <1>1, <1>2 DEF CommitRow, TypeOK, Decided
  <2>2. rows \in Seq(Item)
    <3>1. st \in {"imported", "failed"}
      OBVIOUS
    <3> HIDE DEF st
    <3>2. QED BY <1>2, <3>1, DecidedTyped
  <2> HIDE DEF rows
  <2>3. QED BY <1>1, <2>1, <2>2 DEF TypeOK
<1>6. article' \in [Slugs -> Origin] /\ announced' \in [Slugs -> Nat]
  <2>1. <<j, i>> \in Origin
    BY <1>1 DEF Origin
  <2>2. /\ article' = IF ok THEN [article EXCEPT ![s] = <<j, i>>] ELSE article
        /\ announced' = IF ok THEN [announced EXCEPT ![s] = @ + 1] ELSE announced
    BY DEF CommitRow
  <2> HIDE DEF ok, s, j, i
  <2>3. article' \in [Slugs -> Origin]
    BY <1>2, <2>1, <2>2 DEF TypeOK
  <2>4. announced' \in [Slugs -> Nat]
    <3>1. announced[s] + 1 \in Nat
      BY <1>2 DEF TypeOK
    <3>2. QED BY <1>2, <2>2, <3>1 DEF TypeOK
  <2>5. QED BY <2>3, <2>4
<1>7. ahead' \in [Jobs -> SUBSET Jobs]
  BY <1>1, AheadTyped DEF CommitRow
<1>8. lock' \in [Jobs -> Workers \cup {Free}] /\ claim' \in [Slugs -> Workers \cup {Free}]
  BY Released DEF CommitRow
<1>9. worker' \in [Workers -> Working \cup {Idle}]
  <2> DEFINE y == IF x.left <= 1 THEN Idle ELSE At("picked", j, x.left - 1, 0, new)
  <2>1. worker' = [worker EXCEPT ![w] = y]
    BY DEF CommitRow
  <2>2. ASSUME ~(x.left <= 1)
        PROVE  x.left - 1 \in Nat
    BY <1>1, <2>2
  <2> HIDE DEF new
  <2>3. y \in Working \cup {Idle}
    BY <1>1, <1>3, <2>2, AtTyped
  <2> HIDE DEF y
  <2>4. QED BY <2>1, <2>3, WorkerTyped
<1>10. QED BY <1>4, <1>5, <1>6, <1>7, <1>8, <1>9 DEF CommitRow, TypeOK

LEMMA StepTyped ==
  ASSUME TypeOK, HolderIsCurrent, ImportAssumption, NEW w \in Workers, Step(w)
  PROVE  TypeOK'
<1>1. CASE Pick(w)
  <2> PICK j \in Jobs : PickJob(w, j)
    BY <1>1 DEF Pick
  <2>1. At("picked", j, RowsPerRun, 0, NoJob) \in Working
    BY AtTyped, NoJobTyped DEF ImportAssumption
  <2>2. worker' \in [Workers -> Working \cup {Idle}]
    BY <2>1, WorkerTyped DEF PickJob
  <2>3. QED BY <2>2 DEF PickJob, TypeOK, tables
<1>2. CASE LockJob(w)
  <2> DEFINE x == worker[w]
  <2>1. x.job \in Jobs /\ x.left \in Nat /\ job[x.job] \in Job
    BY <1>2, WorkerFacts, PhaseWorks DEF LockJob, TypeOK
  <2>2. At("loaded", x.job, x.left, 0, job[x.job]) \in Working
    BY <2>1, AtTyped
  <2>3. worker' \in [Workers -> Working \cup {Idle}]
    BY <1>2, <2>2, WorkerTyped DEF LockJob
  <2>4. QED BY <1>2, <2>3 DEF LockJob, TypeOK, tables
<1>3. CASE Return(w) \/ Crash(w)
  <2>1. worker' \in [Workers -> Working \cup {Idle}]
    BY <1>3, WorkerTyped DEF Return, Crash
  <2>2. QED BY <1>3, <2>1, Released DEF Return, Crash, TypeOK, tables
<1>4. CASE InsertRow(w)
  <2> DEFINE x == worker[w]
  <2>1. x.job \in Jobs /\ x.left \in Nat /\ x.copy \in Job
    BY <1>4, WorkerFacts, PhaseWorks DEF InsertRow
  <2>2. PICK p \in DOMAIN items[x.job] :
          /\ claim' = IF article[items[x.job][p].slug] = Nobody
                      THEN [claim EXCEPT ![items[x.job][p].slug] = w] ELSE claim
          /\ worker' = [worker EXCEPT ![w] = At("written", x.job, x.left, p, x.copy)]
    BY <1>4 DEF InsertRow
  <2>3. p \in Nat
    BY <2>1 DEF TypeOK
  <2>4. At("written", x.job, x.left, p, x.copy) \in Working
    BY <2>1, <2>3, AtTyped
  <2>5. worker' \in [Workers -> Working \cup {Idle}]
    BY <2>2, <2>4, WorkerTyped
  <2>6. claim' \in [Slugs -> Workers \cup {Free}]
    BY <2>2 DEF TypeOK
  <2>7. QED BY <1>4, <2>5, <2>6 DEF InsertRow, TypeOK, tables
<1>5. CASE CommitRow(w)
  BY <1>5, CommitRowTyped
<1>6. CASE Fail(w)
  <2>1. worker[w].job \in Jobs
    BY <1>6, WorkerFacts, PhaseWorks DEF Fail
  <2>2. At("broken", worker[w].job, 0, 0, NoJob) \in Working
    BY <2>1, AtTyped, NoJobTyped
  <2>3. worker' \in [Workers -> Working \cup {Idle}]
    BY <1>6, <2>2, WorkerTyped DEF Fail
  <2>4. QED BY <1>6, <2>3, Released DEF Fail, TypeOK, tables
<1>7. CASE RecordFailure(w)
  <2> DEFINE j == worker[w].job
  <2>1. j \in Jobs /\ job[j] \in Job
    BY <1>7, WorkerFacts, PhaseWorks DEF RecordFailure, TypeOK
  <2>2. Charged(job[j]) \in Job
    BY <2>1, ChargedTyped
  <2>3. worker' \in [Workers -> Working \cup {Idle}]
    BY <1>7, WorkerTyped DEF RecordFailure
  <2>4. ahead' \in [Jobs -> SUBSET Jobs]
    BY <1>7, <2>1, AheadTyped DEF RecordFailure
  <2>5. job' \in [Jobs -> Job] /\ waiting' \in SUBSET Jobs
    BY <1>7, <2>1, <2>2 DEF RecordFailure, TypeOK
  <2>6. QED BY <1>7, <2>3, <2>4, <2>5 DEF RecordFailure, TypeOK
<1>8. QED BY <1>1, <1>2, <1>3, <1>4, <1>5, <1>6, <1>7 DEF Step

LEMMA NextTyped ==
  ASSUME TypeOK, HolderIsCurrent, ImportAssumption, [Next]_vars
  PROVE  TypeOK'
<1>1. CASE UNCHANGED vars
  BY <1>1 DEF vars, tables, TypeOK
<1>2. QED BY <1>1, RequestTyped, CreateArticleTyped, StepTyped DEF Next

-----------------------------------------------------------------------------
(* What a commit changes, apart from who did it                            *)
CommitOf(w, j, i, s, ok) ==
  LET st == IF ok THEN "imported" ELSE "failed"
  IN /\ worker[w].phase = "written" /\ lock[j] = w /\ IsDue(j, job[j])
     /\ First(j, i) /\ s = items[j][i].slug
     /\ ok = (article[s] = Nobody) /\ (ok => claim[s] = w)
     /\ job' = [job EXCEPT ![j] = Advanced(job[j], Len(items[j]), ok)]
     /\ items' = [items EXCEPT ![j] = Decided(items[j], i, st)]
     /\ article' = IF ok THEN [article EXCEPT ![s] = <<j, i>>] ELSE article
     /\ announced' = IF ok THEN [announced EXCEPT ![s] = @ + 1] ELSE announced

LEMMA CommitFacts ==
  ASSUME TypeOK, HolderIsCurrent, NEW w \in Workers, CommitRow(w)
  PROVE  \E j \in Jobs : \E i \in DOMAIN items[j] : \E s \in Slugs, ok \in BOOLEAN :
           /\ j = worker[w].job /\ items[j] \in Seq(Item) /\ CommitOf(w, j, i, s, ok)
<1> DEFINE j == worker[w].job
           i == worker[w].item
           s == items[j][i].slug
           ok == claim[s] = w
<1>1. j \in Jobs /\ worker[w].phase = "written" /\ worker[w].copy = job[j]
  BY WorkerFacts, PhaseWorks DEF CommitRow, HolderIsCurrent, LoadedCurrent
<1>2. items[j] \in Seq(Item) /\ i \in DOMAIN items[j] /\ s \in Slugs
  <2>1. items[j] \in Seq(Item) /\ i \in DOMAIN items[j]
    BY <1>1 DEF HolderIsCurrent, WrittenFirst, First, TypeOK
  <2>2. items[j][i] \in Item
    BY <2>1
  <2>3. QED BY <2>1, <2>2 DEF Item
<1>3. CommitOf(w, j, i, s, ok)
  <2>1. /\ lock[j] = w /\ IsDue(j, job[j]) /\ First(j, i)
        /\ ok = (article[s] = Nobody) /\ (ok => claim[s] = w)
    BY <1>1 DEF HolderIsCurrent, LoadedCurrent, WrittenFirst
  <2>2. items' = [items EXCEPT ![j] = Decided(items[j], i, IF ok THEN "imported" ELSE "failed")]
    BY <1>1, <1>2 DEF CommitRow, TypeOK, Decided
  <2>3. /\ job' = [job EXCEPT ![j] = Advanced(job[j], Len(items[j]), ok)]
        /\ article' = IF ok THEN [article EXCEPT ![s] = <<j, i>>] ELSE article
        /\ announced' = IF ok THEN [announced EXCEPT ![s] = @ + 1] ELSE announced
    BY <1>1 DEF CommitRow
  <2>4. QED BY <1>1, <2>1, <2>2, <2>3 DEF CommitOf
<1>4. ok \in BOOLEAN
  OBVIOUS
<1> HIDE DEF ok
<1>5. QED BY <1>1, <1>2, <1>3, <1>4

-----------------------------------------------------------------------------
(* What the other parts of the invariant say of a worker at a row          *)
HoldersLocked ==
  \A w \in Workers : worker[w].phase \in {"loaded", "written"} =>
    worker[w].job \in Jobs /\ lock[worker[w].job] = w /\ w # Free
WritersKnown ==
  \A w \in Workers : worker[w].phase = "written" =>
    /\ worker[w].item \in DOMAIN items[worker[w].job]
    /\ items[worker[w].job][worker[w].item].slug \in Slugs

LEMMA HolderFacts ==
  ASSUME TypeOK, LoadedCurrent, WrittenFirst, ImportAssumption
  PROVE  HoldersLocked /\ WritersKnown
<1>1. HoldersLocked
  BY WorkerFacts, PhaseWorks DEF HoldersLocked, LoadedCurrent, ImportAssumption
<1>2. ASSUME NEW w \in Workers, worker[w].phase = "written"
      PROVE  /\ worker[w].item \in DOMAIN items[worker[w].job]
             /\ items[worker[w].job][worker[w].item].slug \in Slugs
  <2>1. items[worker[w].job] \in Seq(Item)
    BY <1>1, <1>2 DEF TypeOK, HoldersLocked
  <2>2. worker[w].item \in DOMAIN items[worker[w].job]
    BY <1>2 DEF WrittenFirst, First
  <2>3. items[worker[w].job][worker[w].item] \in Item
    BY <2>1, <2>2
  <2>4. QED BY <2>2, <2>3 DEF Item
<1>3. QED BY <1>1, <1>2 DEF WritersKnown

(* A worker at a row whose job and slug a step leaves alone                *)
LEMMA WriterKept ==
  ASSUME WrittenFirst, NEW v \in Workers, worker[v].phase = "written",
         worker'[v] = worker[v], items'[worker[v].job] = items[worker[v].job],
         worker[v].job \in waiting' => worker[v].job \in waiting,
         NEW s, s = items[worker[v].job][worker[v].item].slug,
         article'[s] = article[s], claim'[s] = v <=> claim[s] = v
  PROVE  /\ IsDue(worker[v].job, worker[v].copy)'
         /\ First(worker[v].job, worker[v].item)'
         /\ LET t == items[worker[v].job][worker[v].item].slug
            IN (article[t] = Nobody <=> claim[t] = v)'
<1>1. /\ IsDue(worker[v].job, worker[v].copy) /\ First(worker[v].job, worker[v].item)
      /\ article[s] = Nobody <=> claim[s] = v
  BY DEF WrittenFirst
<1>2. IsDue(worker[v].job, worker[v].copy)'
  BY <1>1 DEF IsDue
<1>3. First(worker[v].job, worker[v].item)'
  BY <1>1 DEF First
<1>4. QED BY <1>1, <1>2, <1>3

(* Requests, authors and time leave what is locked or claimed alone        *)
LEMMA EnvironmentHolders ==
  ASSUME TypeOK, HolderIsCurrent, ImportAssumption, UNCHANGED <<lock, claim, worker>>,
         \A j \in Jobs : lock[j] # Free =>
           /\ job'[j] = job[j] /\ items'[j] = items[j]
           /\ j \in waiting' => j \in waiting,
         \/ article' = article
         \/ \E s \in Slugs : /\ claim[s] = Free /\ article[s] = Nobody
                             /\ article' = [article EXCEPT ![s] = Author]
  PROVE  HolderIsCurrent'
<1> USE DEF HolderIsCurrent
<1>1. HoldersLocked /\ WritersKnown
  BY HolderFacts
<1> USE DEF HoldersLocked, WritersKnown
<1>3. LoadedCurrent'
  BY <1>1 DEF LoadedCurrent
<1>4. WrittenFirst'
  <2> SUFFICES ASSUME NEW w \in Workers, worker[w].phase = "written"
               PROVE  /\ IsDue(worker[w].job, worker[w].copy)'
                      /\ First(worker[w].job, worker[w].item)'
                      /\ LET s == items[worker[w].job][worker[w].item].slug
                         IN (article[s] = Nobody <=> claim[s] = w)'
    BY DEF WrittenFirst
  <2>1. items'[worker[w].job] = items[worker[w].job]
    BY <1>1
  <2>2. IsDue(worker[w].job, worker[w].copy)'
    BY <1>1 DEF WrittenFirst, IsDue
  <2>3. First(worker[w].job, worker[w].item)'
    BY <2>1 DEF WrittenFirst, First
  <2>4. LET s == items[worker[w].job][worker[w].item].slug
        IN (article[s] = Nobody <=> claim[s] = w)'
    BY <1>1, <2>1 DEF WrittenFirst, TypeOK
  <2>5. QED BY <2>2, <2>3, <2>4
<1>5. LocksHeld'
  BY DEF LocksHeld
<1>6. ClaimsHeld'
  <2> SUFFICES ASSUME NEW s \in Slugs, claim[s] # Free
               PROVE  /\ article'[s] = Nobody /\ worker[claim[s]].phase = "written"
                      /\ items'[worker[claim[s]].job][worker[claim[s]].item].slug = s
    BY DEF ClaimsHeld
  <2>1. claim[s] \in Workers /\ worker[claim[s]].phase = "written"
    BY DEF ClaimsHeld, TypeOK
  <2>2. QED BY <1>1, <2>1 DEF ClaimsHeld, TypeOK
<1>7. QED BY <1>3, <1>4, <1>5, <1>6

(* A worker that lets go of its job leaves the other workers as they are   *)
LEMMA LetGoHolders ==
  ASSUME TypeOK, HolderIsCurrent, ImportAssumption, NEW w \in Workers, NEW y,
         Release(w), UNCHANGED tables, worker' = [worker EXCEPT ![w] = y],
         y.phase \in {"idle", "broken"}
  PROVE  HolderIsCurrent'
<1> USE DEF HolderIsCurrent
<1>1. HoldersLocked /\ WritersKnown
  BY HolderFacts
<1>2. /\ \A j \in Jobs : lock'[j] = IF lock[j] = w THEN Free ELSE lock[j]
      /\ \A s \in Slugs : claim'[s] = IF claim[s] = w THEN Free ELSE claim[s]
  BY Released
<1>3. /\ UNCHANGED <<job, items, article, waiting>>
      /\ \A v \in Workers : v # w => worker'[v] = worker[v]
      /\ worker'[w] = y
  BY DEF tables, TypeOK
<1>4. LoadedCurrent'
  BY <1>1, <1>2, <1>3 DEF LoadedCurrent, HoldersLocked
<1>5. WrittenFirst'
  <2> SUFFICES ASSUME NEW v \in Workers, worker'[v].phase = "written"
               PROVE  /\ IsDue(worker[v].job, worker[v].copy)'
                      /\ First(worker[v].job, worker[v].item)'
                      /\ LET s == items[worker[v].job][worker[v].item].slug
                         IN (article[s] = Nobody <=> claim[s] = v)'
    BY DEF WrittenFirst
  <2>1. v # w /\ worker'[v] = worker[v]
    BY <1>3
  <2> DEFINE t == items[worker[v].job][worker[v].item].slug
  <2>2. t \in Slugs /\ (claim'[t] = v <=> claim[t] = v)
    BY <1>1, <1>2, <2>1, ImportAssumption DEF WritersKnown, ImportAssumption
  <2>3. article'[t] = article[t] /\ (claim'[t] = v <=> claim[t] = v)
    BY <1>3, <2>2
  <2>4. worker[v].phase = "written" /\ t = items[worker[v].job][worker[v].item].slug
    BY <2>1
  <2>5. items'[worker[v].job] = items[worker[v].job] /\ waiting' = waiting
    BY <1>3
  <2>6. WrittenFirst
    OBVIOUS
  <2> HIDE DEF t, HolderIsCurrent
  <2>7. QED BY <2>1, <2>3, <2>4, <2>5, <2>6, WriterKept
<1>6. LocksHeld'
  BY <1>2, <1>3 DEF LocksHeld, TypeOK
<1>7. ClaimsHeld'
  BY <1>2, <1>3 DEF ClaimsHeld, TypeOK
<1>8. QED BY <1>4, <1>5, <1>6, <1>7

LEMMA PickHolders ==
  ASSUME TypeOK, HolderIsCurrent, ImportAssumption, NEW w \in Workers, NEW j \in Jobs,
         PickJob(w, j)
  PROVE  HolderIsCurrent'
<1> USE DEF HolderIsCurrent
<1>1. HoldersLocked /\ WritersKnown
  BY HolderFacts
<1>2. /\ UNCHANGED <<job, items, article, waiting, claim>>
      /\ \A v \in Workers : v # w => worker'[v] = worker[v]
      /\ worker'[w].phase = "picked" /\ worker'[w].job = j
      /\ worker[w].phase = "idle"
      /\ lock[j] = Free /\ lock' = [lock EXCEPT ![j] = w]
  BY DEF PickJob, tables, TypeOK, At, Idle
<1>3. LoadedCurrent'
  <2> SUFFICES ASSUME NEW v \in Workers, worker'[v].phase \in {"loaded", "written"}
               PROVE  lock'[worker'[v].job] = v /\ worker'[v].copy = job'[worker'[v].job]
    BY DEF LoadedCurrent
  <2>1. CASE v = w
    BY <1>1, <1>2, <2>1 DEF TypeOK
  <2>2. CASE v # w
    <3>1. /\ worker'[v] = worker[v] /\ lock[worker[v].job] = v /\ v # Free
          /\ worker[v].copy = job[worker[v].job] /\ worker[v].job \in Jobs
      BY <1>1, <1>2, <2>2 DEF LoadedCurrent, HoldersLocked
    <3>2. worker[v].job # j
      BY <1>2, <2>2, <3>1
    <3>3. QED BY <1>1, <1>2, <3>1, <3>2 DEF TypeOK
  <2>3. QED BY <2>1, <2>2
<1>4. WrittenFirst'
  <2> SUFFICES ASSUME NEW v \in Workers, worker'[v].phase = "written"
               PROVE  /\ IsDue(worker[v].job, worker[v].copy)'
                      /\ First(worker[v].job, worker[v].item)'
                      /\ LET s == items[worker[v].job][worker[v].item].slug
                         IN (article[s] = Nobody <=> claim[s] = v)'
    BY DEF WrittenFirst
  <2>1. worker'[v] = worker[v]
    BY <1>2
  <2>2. QED BY <1>2, <2>1, WriterKept
<1>5. LocksHeld'
  BY <1>2 DEF LocksHeld, TypeOK
<1>6. ClaimsHeld'
  <2>1. ASSUME NEW s \in Slugs, claim[s] # Free
        PROVE  claim[s] \in Workers /\ claim[s] # w
    BY <1>2, <2>1 DEF ClaimsHeld, TypeOK
  <2>2. QED BY <1>2, <2>1 DEF ClaimsHeld
<1>7. QED BY <1>3, <1>4, <1>5, <1>6

LEMMA LockHolders ==
  ASSUME TypeOK, HolderIsCurrent, ImportAssumption, NEW w \in Workers, LockJob(w)
  PROVE  HolderIsCurrent'
<1> USE DEF HolderIsCurrent
<1> DEFINE j == worker[w].job
<1>1. HoldersLocked /\ WritersKnown /\ j \in Jobs
  BY HolderFacts, WorkerFacts, PhaseWorks DEF LockJob
<1>2. /\ UNCHANGED <<job, items, article, waiting, claim>>
      /\ \A v \in Workers : v # w => worker'[v] = worker[v]
      /\ worker'[w].phase = "loaded" /\ worker'[w].job = j /\ worker'[w].copy = job[j]
      /\ worker[w].phase = "picked"
      /\ lock[j] \in {Free, w} /\ lock' = [lock EXCEPT ![j] = w]
  BY DEF LockJob, tables, TypeOK, At
<1>3. LoadedCurrent'
  <2> SUFFICES ASSUME NEW v \in Workers, worker'[v].phase \in {"loaded", "written"}
               PROVE  lock'[worker'[v].job] = v /\ worker'[v].copy = job'[worker'[v].job]
    BY DEF LoadedCurrent
  <2>1. CASE v = w
    BY <1>1, <1>2, <2>1 DEF TypeOK
  <2>2. CASE v # w
    <3>1. /\ worker'[v] = worker[v] /\ lock[worker[v].job] = v /\ v # Free
          /\ worker[v].copy = job[worker[v].job] /\ worker[v].job \in Jobs
      BY <1>1, <1>2, <2>2 DEF LoadedCurrent, HoldersLocked
    <3>2. worker[v].job # j
      BY <1>2, <2>2, <3>1
    <3>3. QED BY <1>1, <1>2, <3>1, <3>2 DEF TypeOK
  <2>3. QED BY <2>1, <2>2
<1>4. WrittenFirst'
  <2> SUFFICES ASSUME NEW v \in Workers, worker'[v].phase = "written"
               PROVE  /\ IsDue(worker[v].job, worker[v].copy)'
                      /\ First(worker[v].job, worker[v].item)'
                      /\ LET s == items[worker[v].job][worker[v].item].slug
                         IN (article[s] = Nobody <=> claim[s] = v)'
    BY DEF WrittenFirst
  <2>1. worker'[v] = worker[v]
    BY <1>2
  <2>2. QED BY <1>2, <2>1, WriterKept
<1>5. LocksHeld'
  <2> SUFFICES ASSUME NEW k \in Jobs, lock'[k] # Free
               PROVE  /\ worker'[lock'[k]].phase \in {"picked", "loaded", "written"}
                      /\ worker'[lock'[k]].job = k
    BY DEF LocksHeld
  <2>1. CASE k = j
    BY <1>1, <1>2, <2>1 DEF TypeOK
  <2>2. CASE k # j
    <3>1. lock'[k] = lock[k] /\ lock[k] \in Workers /\ worker[lock[k]].job = k
      BY <1>1, <1>2, <2>2 DEF LocksHeld, TypeOK
    <3>2. worker'[lock[k]] = worker[lock[k]]
      BY <1>2, <2>2, <3>1
    <3>3. QED BY <3>1, <3>2 DEF LocksHeld
  <2>3. QED BY <2>1, <2>2
<1>6. ClaimsHeld'
  <2>1. ASSUME NEW s \in Slugs, claim[s] # Free
        PROVE  claim[s] \in Workers /\ claim[s] # w
    BY <1>2, <2>1 DEF ClaimsHeld, TypeOK
  <2>2. QED BY <1>2, <2>1 DEF ClaimsHeld
<1>7. QED BY <1>3, <1>4, <1>5, <1>6

LEMMA InsertHolders ==
  ASSUME TypeOK, HolderIsCurrent, ImportAssumption, NEW w \in Workers, InsertRow(w)
  PROVE  HolderIsCurrent'
<1> USE DEF HolderIsCurrent
<1> DEFINE x == worker[w]
           j == x.job
<1>1. HoldersLocked /\ WritersKnown /\ j \in Jobs /\ x.phase = "loaded"
  BY HolderFacts, WorkerFacts, PhaseWorks DEF InsertRow
<1>2. PICK p \in DOMAIN items[j] :
        /\ First(j, p) /\ claim[items[j][p].slug] = Free
        /\ claim' = IF article[items[j][p].slug] = Nobody
                    THEN [claim EXCEPT ![items[j][p].slug] = w] ELSE claim
        /\ worker' = [worker EXCEPT ![w] = At("written", j, x.left, p, x.copy)]
  BY DEF InsertRow
<1> DEFINE s == items[j][p].slug
<1>3. s \in Slugs
  <2>1. items[j] \in Seq(Item)
    BY <1>1 DEF TypeOK
  <2>2. items[j][p] \in Item
    BY <2>1
  <2>3. QED BY <2>2 DEF Item
<1>4. /\ UNCHANGED <<job, items, article, waiting, lock>>
      /\ \A v \in Workers : v # w => worker'[v] = worker[v]
      /\ worker'[w].phase = "written" /\ worker'[w].job = j
      /\ worker'[w].item = p /\ worker'[w].copy = x.copy
      /\ IsDue(j, x.copy)
  BY <1>1, <1>2 DEF InsertRow, Workable, tables, TypeOK, At
<1>5. LoadedCurrent'
  BY <1>1, <1>4 DEF LoadedCurrent
<1>6. WrittenFirst'
  <2> SUFFICES ASSUME NEW v \in Workers, worker'[v].phase = "written"
               PROVE  /\ IsDue(worker[v].job, worker[v].copy)'
                      /\ First(worker[v].job, worker[v].item)'
                      /\ LET t == items[worker[v].job][worker[v].item].slug
                         IN (article[t] = Nobody <=> claim[t] = v)'
    BY DEF WrittenFirst
  <2>1. CASE v = w
    <3>1. (article[s] = Nobody) <=> (claim'[s] = w)
      BY <1>2, <1>3, ImportAssumption DEF TypeOK, ImportAssumption
    <3>2. IsDue(worker[v].job, worker[v].copy)'
      BY <1>4, <2>1 DEF IsDue
    <3>3. First(worker[v].job, worker[v].item)'
      <4>1. items' = items /\ worker'[v].job = j /\ worker'[v].item = p
        BY <1>4, <2>1
      <4>2. /\ p \in DOMAIN items[j] /\ items[j][p].status = "pending"
            /\ \A q \in 1..(p - 1) : items[j][q].status # "pending"
        BY <1>2 DEF First
      <4>3. QED BY <4>1, <4>2 DEF First
    <3>4. QED BY <1>4, <2>1, <3>1, <3>2, <3>3
  <2>2. CASE v # w
    <3>1. worker'[v] = worker[v]
      BY <1>4, <2>2
    <3> DEFINE t == items[worker[v].job][worker[v].item].slug
    <3>2. t \in Slugs /\ (article[t] = Nobody <=> claim[t] = v)
      BY <1>1, <3>1 DEF WrittenFirst, WritersKnown
    <3> HIDE DEF t
    <3>3. claim'[t] = v <=> claim[t] = v
      <4>1. CASE t = s
        <5>1. claim[t] # v /\ claim'[t] # v
          BY <1>2, <1>3, <2>2, <4>1, ImportAssumption DEF TypeOK, ImportAssumption
        <5>2. QED BY <5>1
      <4>2. CASE t # s
        BY <1>2, <3>2, <4>2 DEF TypeOK
      <4>3. QED BY <4>1, <4>2
    <3>4. QED BY <1>4, <3>1, <3>2, <3>3, WriterKept DEF t
  <2>3. QED BY <2>1, <2>2
<1>7. LocksHeld'
  <2> SUFFICES ASSUME NEW k \in Jobs, lock[k] # Free
               PROVE  /\ worker'[lock[k]].phase \in {"picked", "loaded", "written"}
                      /\ worker'[lock[k]].job = k
    BY <1>4 DEF LocksHeld
  <2>1. lock[k] \in Workers /\ worker[lock[k]].job = k
    BY DEF LocksHeld, TypeOK
  <2>2. QED BY <1>4, <2>1 DEF LocksHeld
<1>8. ClaimsHeld'
  <2> SUFFICES ASSUME NEW t \in Slugs, claim'[t] # Free
               PROVE  /\ article[t] = Nobody /\ worker'[claim'[t]].phase = "written"
                      /\ items[worker'[claim'[t]].job][worker'[claim'[t]].item].slug = t
    BY <1>4 DEF ClaimsHeld
  <2>1. CASE claim'[t] = claim[t]
    <3>1. claim[t] \in Workers /\ claim[t] # w
      BY <1>1, <2>1 DEF ClaimsHeld, TypeOK
    <3>2. QED BY <1>4, <2>1, <3>1 DEF ClaimsHeld
  <2>2. CASE claim'[t] # claim[t]
    <3>1. t = s /\ claim'[t] = w /\ article[s] = Nobody
      BY <1>2, <1>3, <2>2 DEF TypeOK
    <3>2. QED BY <1>4, <3>1
  <2>3. QED BY <2>1, <2>2
<1>9. QED BY <1>5, <1>6, <1>7, <1>8

(* The row that w commits is another's neither by its job nor by its slug  *)
LEMMA CommitHolders ==
  ASSUME TypeOK, HolderIsCurrent, ImportAssumption, NEW w \in Workers, CommitRow(w)
  PROVE  HolderIsCurrent'
<1> USE DEF HolderIsCurrent
<1>1. HoldersLocked /\ WritersKnown
  BY HolderFacts
<1>2. PICK j \in Jobs : \E i \in DOMAIN items[j] : \E s \in Slugs, ok \in BOOLEAN :
        j = worker[w].job /\ items[j] \in Seq(Item) /\ CommitOf(w, j, i, s, ok)
  BY CommitFacts
<1>3. PICK i \in DOMAIN items[j], s \in Slugs, ok \in BOOLEAN : CommitOf(w, j, i, s, ok)
  BY <1>2
<1>4. /\ \A k \in Jobs : lock'[k] = IF lock[k] = w THEN Free ELSE lock[k]
      /\ \A t \in Slugs : claim'[t] = IF claim[t] = w THEN Free ELSE claim[t]
  BY Released DEF CommitRow
<1>5. /\ worker[w].phase = "written" /\ lock[j] = w
      /\ waiting' = waiting
      /\ \A k \in Jobs : k # j => job'[k] = job[k] /\ items'[k] = items[k]
      /\ \A t \in Slugs : claim[t] # w => article'[t] = article[t]
  <2>1. \A k \in Jobs : k # j => job'[k] = job[k] /\ items'[k] = items[k]
    BY <1>3 DEF CommitOf, TypeOK
  <2>2. ok => claim[s] = w
    BY <1>3 DEF CommitOf
  <2>3. article' = IF ok THEN [article EXCEPT ![s] = <<j, i>>] ELSE article
    BY <1>3 DEF CommitOf
  <2>4. \A t \in Slugs : claim[t] # w => article'[t] = article[t]
    BY <2>2, <2>3 DEF TypeOK
  <2>5. worker[w].phase = "written" /\ lock[j] = w
    BY <1>3 DEF CommitOf
  <2>6. QED BY <2>1, <2>4, <2>5 DEF CommitRow
<1>6. /\ \A v \in Workers : v # w => worker'[v] = worker[v]
      /\ worker'[w].phase \in {"idle", "picked"}
  BY DEF CommitRow, TypeOK, At, Idle
<1>7. ASSUME NEW v \in Workers, v # w, worker[v].phase \in {"loaded", "written"}
      PROVE  /\ worker[v].job \in Jobs /\ worker[v].job # j
             /\ lock[worker[v].job] = v /\ v # Free
             /\ job'[worker[v].job] = job[worker[v].job]
             /\ items'[worker[v].job] = items[worker[v].job]
  BY <1>1, <1>5, <1>7 DEF HoldersLocked
<1>8. LoadedCurrent'
  <2> SUFFICES ASSUME NEW v \in Workers, worker'[v].phase \in {"loaded", "written"}
               PROVE  lock'[worker'[v].job] = v /\ worker'[v].copy = job'[worker'[v].job]
    BY DEF LoadedCurrent
  <2>1. v # w /\ worker'[v] = worker[v]
    BY <1>6
  <2>2. QED BY <1>4, <1>7, <2>1 DEF LoadedCurrent
<1>9. WrittenFirst'
  <2> SUFFICES ASSUME NEW v \in Workers, worker'[v].phase = "written"
               PROVE  /\ IsDue(worker[v].job, worker[v].copy)'
                      /\ First(worker[v].job, worker[v].item)'
                      /\ LET t == items[worker[v].job][worker[v].item].slug
                         IN (article[t] = Nobody <=> claim[t] = v)'
    BY DEF WrittenFirst
  <2>1. v # w /\ worker'[v] = worker[v]
    BY <1>6
  <2>2. items'[worker[v].job] = items[worker[v].job]
    BY <1>7, <2>1
  <2>3. IsDue(worker[v].job, worker[v].copy)' /\ First(worker[v].job, worker[v].item)'
    BY <1>5, <2>1, <2>2 DEF WrittenFirst, IsDue, First
  <2> DEFINE t == items[worker[v].job][worker[v].item].slug
  <2>4. t \in Slugs /\ (article[t] = Nobody <=> claim[t] = v)
    BY <1>1, <2>1 DEF WrittenFirst, WritersKnown
  <2>5. (article'[t] = Nobody) <=> (claim'[t] = v)
    <3>1. CASE claim[t] = w
      <4>1. article[t] # Nobody
        BY <2>1, <2>4, <3>1
      <4>2. QED BY <3>1, <4>1, <2>4 DEF ClaimsHeld, ImportAssumption
    <3>2. CASE claim[t] # w
      BY <1>4, <1>5, <2>1, <2>4, <3>2
    <3>3. QED BY <3>1, <3>2
  <2>6. QED BY <2>1, <2>2, <2>3, <2>5
<1>10. LocksHeld'
  BY <1>4, <1>6 DEF LocksHeld, TypeOK
<1>11. ClaimsHeld'
  <2> SUFFICES ASSUME NEW t \in Slugs, claim'[t] # Free
               PROVE  /\ article'[t] = Nobody /\ worker'[claim'[t]].phase = "written"
                      /\ items'[worker'[claim'[t]].job][worker'[claim'[t]].item].slug = t
    BY DEF ClaimsHeld
  <2>1. claim'[t] = claim[t] /\ claim[t] # Free /\ claim[t] # w /\ claim[t] \in Workers
    BY <1>4 DEF TypeOK
  <2>2. worker'[claim[t]] = worker[claim[t]] /\ worker[claim[t]].phase = "written"
    BY <1>6, <2>1 DEF ClaimsHeld
  <2>3. items'[worker[claim[t]].job] = items[worker[claim[t]].job]
    BY <1>7, <2>1, <2>2
  <2>4. QED BY <1>5, <2>1, <2>2, <2>3 DEF ClaimsHeld
<1>12. QED BY <1>8, <1>9, <1>10, <1>11

(* A failure is recorded for a job that nobody has locked                  *)
LEMMA RecordHolders ==
  ASSUME TypeOK, HolderIsCurrent, ImportAssumption, NEW w \in Workers, RecordFailure(w)
  PROVE  HolderIsCurrent'
<1> USE DEF HolderIsCurrent
<1> DEFINE j == worker[w].job
<1>1. HoldersLocked /\ WritersKnown
  BY HolderFacts
<1>2. /\ j \in Jobs /\ lock[j] = Free /\ worker[w].phase = "broken"
      /\ UNCHANGED <<items, article, lock, claim>>
      /\ \A k \in Jobs : k # j => job'[k] = job[k] /\ (k \in waiting' <=> k \in waiting)
      /\ \A v \in Workers : v # w => worker'[v] = worker[v]
      /\ worker'[w].phase = "idle"
  BY WorkerFacts, PhaseWorks DEF RecordFailure, TypeOK, Idle
<1>3. ASSUME NEW v \in Workers, v # w, worker[v].phase \in {"loaded", "written"}
      PROVE  /\ worker[v].job \in Jobs /\ worker[v].job # j
             /\ job'[worker[v].job] = job[worker[v].job]
             /\ worker[v].job \in waiting' <=> worker[v].job \in waiting
  BY <1>1, <1>2, <1>3 DEF HoldersLocked
<1>4. LoadedCurrent'
  BY <1>2, <1>3 DEF LoadedCurrent
<1>5. WrittenFirst'
  <2> SUFFICES ASSUME NEW v \in Workers, worker'[v].phase = "written"
               PROVE  /\ IsDue(worker[v].job, worker[v].copy)'
                      /\ First(worker[v].job, worker[v].item)'
                      /\ LET s == items[worker[v].job][worker[v].item].slug
                         IN (article[s] = Nobody <=> claim[s] = v)'
    BY DEF WrittenFirst
  <2>1. v # w /\ worker'[v] = worker[v]
    BY <1>2
  <2>2. QED BY <1>2, <1>3, <2>1, WriterKept
<1>6. LocksHeld'
  <2>1. ASSUME NEW k \in Jobs, lock[k] # Free
        PROVE  lock[k] \in Workers /\ lock[k] # w
    BY <1>2, <2>1 DEF LocksHeld, TypeOK
  <2>2. QED BY <1>2, <2>1 DEF LocksHeld
<1>7. ClaimsHeld'
  <2>1. ASSUME NEW s \in Slugs, claim[s] # Free
        PROVE  claim[s] \in Workers /\ claim[s] # w
    BY <1>2, <2>1 DEF ClaimsHeld, TypeOK
  <2>2. QED BY <1>2, <2>1 DEF ClaimsHeld
<1>8. QED BY <1>4, <1>5, <1>6, <1>7

LEMMA HolderStep ==
  ASSUME TypeOK, HolderIsCurrent, NoDangling, ImportAssumption, [Next]_vars
  PROVE  HolderIsCurrent'
<1>1. ASSUME NEW j \in Jobs, Ask(j) \/ RetryImport(j) \/ DelayElapses(j)
      PROVE  HolderIsCurrent'
  <2>1. /\ UNCHANGED <<lock, claim, worker, article>>
        /\ \A k \in Jobs : k # j => job'[k] = job[k] /\ items'[k] = items[k]
        /\ waiting' \subseteq waiting
        /\ lock[j] = Free \/ (job'[j] = job[j] /\ items'[j] = items[j])
    <3>1. CASE Ask(j)
      <4>1. job[j].status = "absent"
        BY <3>1 DEF Ask, CreateImportJob
      <4>2. lock[j] = Free
        <5> SUFFICES ASSUME lock[j] # Free PROVE FALSE
          OBVIOUS
        <5>1. lock[j] \in Workers /\ worker[lock[j]] # Idle /\ worker[lock[j]].job = j
          BY PhaseWorks DEF HolderIsCurrent, LocksHeld, TypeOK
        <5>2. QED BY <4>1, <5>1 DEF NoDangling
      <4>3. QED BY <3>1, <4>2 DEF Ask, CreateImportJob, TypeOK
    <3>2. CASE RetryImport(j) \/ DelayElapses(j)
      BY <3>2 DEF RetryImport, DelayElapses, TypeOK
    <3>3. QED BY <1>1, <3>1, <3>2
  <2>2. \A k \in Jobs : lock[k] # Free =>
          job'[k] = job[k] /\ items'[k] = items[k] /\ (k \in waiting' => k \in waiting)
    BY <2>1
  <2>3. QED BY <2>1, <2>2, EnvironmentHolders
<1>2. ASSUME NEW s \in Slugs, CreateArticle(s)
      PROVE  HolderIsCurrent'
  BY <1>2, EnvironmentHolders DEF CreateArticle
<1>3. ASSUME NEW w \in Workers, Step(w)
      PROVE  HolderIsCurrent'
  <2>1. CASE Return(w) \/ Crash(w)
    <3>1. Idle.phase \in {"idle", "broken"}
      BY DEF Idle
    <3>2. QED BY <2>1, <3>1, LetGoHolders DEF Return, Crash
  <2>2. CASE Fail(w)
    <3>1. At("broken", worker[w].job, 0, 0, NoJob).phase \in {"idle", "broken"}
      BY DEF At
    <3>2. worker' = [worker EXCEPT ![w] = At("broken", worker[w].job, 0, 0, NoJob)]
      BY <2>2 DEF Fail
    <3>3. QED BY <2>2, <3>1, <3>2, LetGoHolders DEF Fail
  <2>3. QED BY <1>3, <2>1, <2>2, PickHolders, LockHolders, InsertHolders, CommitHolders,
               RecordHolders DEF Step, Pick
<1>4. CASE UNCHANGED vars
  <2>1. UNCHANGED <<lock, claim, worker, job, items, waiting, article>>
    BY <1>4 DEF vars, tables
  <2>2. QED BY <2>1, EnvironmentHolders
<1>5. QED BY <1>1, <1>2, <1>3, <1>4 DEF Next
-----------------------------------------------------------------------------
(* The steps that change neither jobs nor rows nor articles                *)
LEMMA DataKept ==
  ASSUME TypeOK, [Next]_vars
  PROVE  \/ UNCHANGED <<job, items, article, announced>>
         \/ \E j \in Jobs : Ask(j) \/ RetryImport(j)
         \/ \E s \in Slugs : CreateArticle(s)
         \/ \E w \in Workers : CommitRow(w) \/ RecordFailure(w)
<1>1. ASSUME NEW w \in Workers, Step(w)
      PROVE  \/ UNCHANGED <<job, items, article, announced>>
             \/ CommitRow(w) \/ RecordFailure(w)
  BY <1>1 DEF Step, Pick, PickJob, LockJob, Return, InsertRow, Fail, Crash, tables
<1>2. ASSUME NEW j \in Jobs, DelayElapses(j)
      PROVE  UNCHANGED <<job, items, article, announced>>
  BY <1>2 DEF DelayElapses
<1>3. CASE UNCHANGED vars
  BY <1>3 DEF vars, tables
<1>4. QED BY <1>1, <1>2, <1>3 DEF Next

(* The job that a step changes and what it becomes                         *)
LEMMA JobsKept ==
  ASSUME TypeOK, HolderIsCurrent, ImportAssumption, [Next]_vars, NEW j \in Jobs
  PROVE  /\ job'[j].status = "absent" =>
              job'[j] = job[j] /\ items'[j] = items[j] /\ job[j].status = "absent"
         /\ job[j].status = "absent" \/
              /\ DOMAIN items'[j] = DOMAIN items[j]
              /\ \A p \in DOMAIN items[j] : items'[j][p].slug = items[j][p].slug
<1>1. CASE UNCHANGED <<job, items, article, announced>>
  BY <1>1
<1>2. ASSUME NEW k \in Jobs, Ask(k)
      PROVE  /\ job[k].status = "absent" /\ job'[k].status = "pending"
             /\ \A m \in Jobs : m # k => job'[m] = job[m] /\ items'[m] = items[m]
  BY <1>2 DEF Ask, CreateImportJob, TypeOK, Job
<1>3. ASSUME NEW k \in Jobs, RetryImport(k)
      PROVE  /\ items' = items /\ job'[k].status = "pending"
             /\ \A m \in Jobs : m # k => job'[m] = job[m]
  BY <1>3 DEF RetryImport, TypeOK, Job
<1>4. ASSUME NEW s \in Slugs, CreateArticle(s)
      PROVE  job' = job /\ items' = items
  BY <1>4 DEF CreateArticle
<1>5. ASSUME NEW w \in Workers, RecordFailure(w)
      PROVE  items' = items /\ \E k \in Jobs : job' = [job EXCEPT ![k] = Charged(job[k])]
  BY <1>5, WorkerFacts, PhaseWorks DEF RecordFailure
<1>6. ASSUME NEW k \in Jobs, job' = [job EXCEPT ![k] = Charged(job[k])]
      PROVE  job'[j].status = "absent" => job'[j] = job[j] /\ job[j].status = "absent"
  <2>1. job[k] \in Job /\ job'[k] = Charged(job[k]) /\ \A m \in Jobs : m # k => job'[m] = job[m]
    BY <1>6 DEF TypeOK
  <2>2. Charged(job[k]).status = "absent" => job[k].status = "absent"
    BY <2>1, ChargedTyped
  <2>3. job[k].status = "absent" => Charged(job[k]) = job[k]
    BY DEF Charged, Active
  <2>4. QED BY <2>1, <2>2, <2>3
<1>7. ASSUME NEW w \in Workers, CommitRow(w)
      PROVE  /\ job'[j].status = "absent" =>
                  job'[j] = job[j] /\ items'[j] = items[j] /\ job[j].status = "absent"
             /\ DOMAIN items'[j] = DOMAIN items[j]
             /\ \A p \in DOMAIN items[j] : items'[j][p].slug = items[j][p].slug
  <2>1. PICK k \in Jobs : \E i \in DOMAIN items[k] : \E s \in Slugs, ok \in BOOLEAN :
          k = worker[w].job /\ items[k] \in Seq(Item) /\ CommitOf(w, k, i, s, ok)
    BY <1>7, CommitFacts
  <2>2. PICK i \in DOMAIN items[k], s \in Slugs, ok \in BOOLEAN : CommitOf(w, k, i, s, ok)
    BY <2>1
  <2> DEFINE st == IF ok THEN "imported" ELSE "failed"
  <2>3. /\ job' = [job EXCEPT ![k] = Advanced(job[k], Len(items[k]), ok)]
        /\ items' = [items EXCEPT ![k] = Decided(items[k], i, st)]
    BY <2>2 DEF CommitOf
  <2>4. /\ DOMAIN Decided(items[k], i, st) = DOMAIN items[k]
        /\ \A p \in DOMAIN items[k] : Decided(items[k], i, st)[p].slug = items[k][p].slug
    <3>1. st \in {"imported", "failed"}
      OBVIOUS
    <3> HIDE DEF st
    <3>2. /\ DOMAIN Decided(items[k], i, st) = DOMAIN items[k]
          /\ Decided(items[k], i, st)[i].slug = items[k][i].slug
          /\ \A p \in DOMAIN items[k] : p # i => Decided(items[k], i, st)[p] = items[k][p]
      <4>1. items[k] \in Seq(Item)
        BY DEF TypeOK
      <4>2. QED BY <3>1, <4>1, DecidedTyped
    <3>3. QED BY <3>2
  <2>5. Advanced(job[k], Len(items[k]), ok).status # "absent"
    <3>1. job[k] \in Job
      BY DEF TypeOK
    <3>2. QED BY <3>1, AdvancedTyped
  <2> HIDE DEF st
  <2>6. QED BY <2>3, <2>4, <2>5 DEF TypeOK
<1>8. QED BY <1>1, <1>2, <1>3, <1>4, <1>5, <1>6, <1>7, DataKept

(* The jobs that workers are on stay stored, and a job is picked when due  *)
LEMMA WorkersKept ==
  ASSUME TypeOK, HolderIsCurrent, NoDangling, ImportAssumption, [Next]_vars,
         NEW v \in Workers, worker'[v] # Idle
  PROVE  worker'[v].job \in Jobs /\ job[worker'[v].job].status # "absent"
<1>1. CASE worker'[v] = worker[v]
  BY <1>1, WorkerFacts DEF NoDangling
<1>2. CASE worker'[v] # worker[v]
  <2>1. Step(v)
    <3>1. ASSUME NEW w \in Workers, Step(w), w # v
          PROVE  worker'[v] = worker[v]
      BY <3>1 DEF Step, Pick, PickJob, LockJob, Return, InsertRow, CommitRow, Fail,
                  RecordFailure, Crash, TypeOK
    <3>2. QED
      BY <1>2, <3>1 DEF Next, Ask, CreateImportJob, RetryImport, DelayElapses,
                        CreateArticle, vars
  <2>2. CASE Pick(v)
    <3> PICK j \in Jobs : PickJob(v, j)
      BY <2>2 DEF Pick
    <3>1. worker'[v].job = j /\ job[j].status \in Active
      BY DEF PickJob, DueJobs, IsDue, TypeOK, At
    <3>2. QED BY <3>1 DEF Active
  <2>3. CASE ~Pick(v)
    <3>1. ~(Return(v) \/ RecordFailure(v) \/ Crash(v))
      BY DEF Return, RecordFailure, Crash, TypeOK
    <3>2. worker[v].phase # "idle" /\ worker'[v].job = worker[v].job
      <4>1. CASE LockJob(v)
        BY <4>1 DEF LockJob, TypeOK, At
      <4>2. CASE InsertRow(v)
        BY <4>2 DEF InsertRow, TypeOK, At
      <4>3. CASE CommitRow(v)
        <5> DEFINE new == Advanced(worker[v].copy, Len(items[worker[v].job]),
                            claim[items[worker[v].job][worker[v].item].slug] = v)
                   n == worker[v].left - 1
        <5>1. worker'[v] = IF worker[v].left <= 1 THEN Idle
                ELSE At("picked", worker[v].job, n, 0, new)
          BY <4>3 DEF CommitRow, TypeOK
        <5>2. worker[v].phase = "written"
          BY <4>3 DEF CommitRow
        <5> HIDE DEF new, n
        <5>3. worker'[v] = At("picked", worker[v].job, n, 0, new)
          BY <5>1
        <5>4. QED BY <5>2, <5>3 DEF At
      <4>4. CASE Fail(v)
        BY <4>4 DEF Fail, TypeOK, At
      <4>5. QED BY <2>1, <2>3, <3>1, <4>1, <4>2, <4>3, <4>4 DEF Step
    <3>3. QED BY <3>2, WorkerFacts, PhaseWorks DEF NoDangling
  <2>4. QED BY <2>2, <2>3
<1>3. QED BY <1>1, <1>2
(* The row that an article comes from is stored                            *)
LEMMA OriginStored ==
  ASSUME NoDangling, NEW s \in Slugs, NEW j \in Jobs, NEW p \in Nat,
         article[s] = <<j, p>>
  PROVE  p \in DOMAIN items[j] /\ items[j][p].slug = s
<1>1. <<j, p>> \in Jobs \X Nat /\ <<j, p>>[1] = j /\ <<j, p>>[2] = p
  OBVIOUS
<1> DEFINE o == <<j, p>>
<1>2. o \in Jobs \X Nat /\ o[1] = j /\ o[2] = p
  BY <1>1
<1> HIDE DEF o
<1>3. o[2] \in DOMAIN items[o[1]] /\ items[o[1]][o[2]].slug = s
  <2>1. article[s] = o
    BY DEF o
  <2>2. QED BY <1>2, <2>1 DEF NoDangling
<1>4. QED BY <1>2, <1>3

LEMMA NoDanglingStep ==
  ASSUME TypeOK, HolderIsCurrent, NoDangling, ImportAssumption, [Next]_vars
  PROVE  NoDangling'
<1>1. ASSUME NEW j \in Jobs, job'[j].status = "absent"
      PROVE  job'[j] = NoJob /\ items'[j] = <<>>
  <2>1. job'[j] = job[j] /\ items'[j] = items[j] /\ job[j].status = "absent"
    BY <1>1, JobsKept
  <2>2. QED BY <2>1 DEF NoDangling
<1>2. ASSUME NEW w \in Workers, worker'[w] # Idle
      PROVE  job'[worker'[w].job].status # "absent"
  <2>1. worker'[w].job \in Jobs /\ job[worker'[w].job].status # "absent"
    BY <1>2, WorkersKept
  <2>2. QED BY <2>1, JobsKept
<1>3. ASSUME NEW s \in Slugs, article'[s] \in Jobs \X Nat
      PROVE  LET j == article'[s][1]
                 p == article'[s][2]
             IN p \in DOMAIN items'[j] /\ items'[j][p].slug = s
  <2>1. ASSUME NEW j \in Jobs, NEW p \in DOMAIN items[j], items[j][p].slug = s
        PROVE  p \in DOMAIN items'[j] /\ items'[j][p].slug = s
    <3>1. job[j].status # "absent"
      BY <2>1 DEF NoDangling
    <3>2. QED BY <2>1, <3>1, JobsKept
  <2>2. CASE article'[s] = article[s]
    <3>1. PICK j \in Jobs, p \in Nat : article[s] = <<j, p>>
      BY <1>3, <2>2
    <3>2. p \in DOMAIN items[j] /\ items[j][p].slug = s
      BY <3>1, OriginStored
    <3>3. QED BY <2>1, <2>2, <3>1, <3>2
  <2>3. CASE article'[s] # article[s]
    <3>1. \/ \E t \in Slugs : CreateArticle(t)
          \/ \E w \in Workers : CommitRow(w)
      BY <2>3, DataKept DEF Ask, CreateImportJob, RetryImport, RecordFailure
    <3>2. ASSUME NEW t \in Slugs, CreateArticle(t)
          PROVE  FALSE
      <4>1. article'[s] = Author
        BY <2>3, <3>2 DEF CreateArticle, TypeOK
      <4>2. QED BY <1>3, <4>1 DEF ImportAssumption
    <3>3. ASSUME NEW w \in Workers, CommitRow(w)
          PROVE  \E j \in Jobs : \E i \in DOMAIN items[j] :
                   article'[s] = <<j, i>> /\ items[j][i].slug = s
      <4>1. PICK j \in Jobs : \E i \in DOMAIN items[j] : \E t \in Slugs, ok \in BOOLEAN :
              j = worker[w].job /\ items[j] \in Seq(Item) /\ CommitOf(w, j, i, t, ok)
        BY <3>3, CommitFacts
      <4>2. PICK i \in DOMAIN items[j], t \in Slugs, ok \in BOOLEAN : CommitOf(w, j, i, t, ok)
        BY <4>1
      <4>3. /\ article' = IF ok THEN [article EXCEPT ![t] = <<j, i>>] ELSE article
            /\ t = items[j][i].slug
        BY <4>2 DEF CommitOf
      <4>4. s = t /\ article'[s] = <<j, i>>
        BY <2>3, <4>3 DEF TypeOK
      <4>5. QED BY <4>3, <4>4
    <3>4. PICK j \in Jobs : \E i \in DOMAIN items[j] :
                   article'[s] = <<j, i>> /\ items[j][i].slug = s
      BY <3>1, <3>2, <3>3
    <3>5. QED BY <2>1, <3>4
  <2>4. QED BY <2>2, <2>3
<1>4. QED BY <1>1, <1>2, <1>3 DEF NoDangling

-----------------------------------------------------------------------------
LEMMA ImportedOnceStep ==
  ASSUME TypeOK, HolderIsCurrent, NoDangling, ImportedOnce, ImportAssumption, [Next]_vars
  PROVE  ImportedOnce'
<1>0. \A j \in Jobs : \A p \in DOMAIN items[j] :
        p \in Nat /\ items[j][p] \in Item /\ items[j][p].slug \in Slugs
  <2>1. ASSUME NEW j \in Jobs, NEW p \in DOMAIN items[j]
        PROVE  p \in Nat /\ items[j][p] \in Item
    <3>1. items[j] \in Seq(Item)
      BY DEF TypeOK
    <3>2. QED BY <3>1
  <2>2. QED BY <2>1 DEF Item
<1>1. CASE UNCHANGED <<job, items, article, announced>>
  BY <1>1 DEF ImportedOnce
<1>2. ASSUME NEW k \in Jobs, NEW slugs \in SlugLists, CreateImportJob(k, slugs)
      PROVE  ImportedOnce'
  <2> DEFINE rows == [p \in DOMAIN slugs |-> [slug |-> slugs[p], status |-> "pending"]]
  <2>1. /\ items' = [items EXCEPT ![k] = rows] /\ items[k] = <<>>
        /\ article' = article /\ announced' = announced
    BY <1>2 DEF CreateImportJob, NoDangling
  <2>2. rows \in Seq(Item) /\ \A p \in DOMAIN rows : rows[p].status = "pending"
    BY NewRowsTyped
  <2> HIDE DEF rows
  <2>3. ASSUME NEW j \in Jobs, NEW p \in DOMAIN items'[j]
        PROVE  LET origin == article[items'[j][p].slug]
               IN /\ items'[j][p].status = "imported" <=> origin = <<j, p>>
                  /\ items'[j][p].status = "failed" => origin \notin {Nobody, <<j, p>>}
    <3>1. CASE j # k
      BY <2>1, <3>1 DEF ImportedOnce, TypeOK
    <3>2. CASE j = k
      <4>1. items'[j] = rows /\ p \in Nat /\ rows[p].slug \in Slugs /\ rows[p].status = "pending"
        <5>1. items'[j] = rows
          BY <2>1, <3>2 DEF TypeOK
        <5>2. p \in Nat /\ rows[p] \in Item
          BY <2>2, <5>1
        <5>3. QED BY <2>2, <5>1, <5>2 DEF Item
      <4>2. article[rows[p].slug] # <<j, p>>
        <5> SUFFICES ASSUME article[rows[p].slug] = <<j, p>> PROVE FALSE
          OBVIOUS
        <5>1. p \in DOMAIN items[j]
          BY <4>1, OriginStored
        <5>2. QED BY <2>1, <3>2, <5>1
      <4>3. QED BY <4>1, <4>2
    <3>3. QED BY <3>1, <3>2
  <2>4. QED BY <2>1, <2>3 DEF ImportedOnce
<1>3. ASSUME NEW k \in Jobs, RetryImport(k)
      PROVE  ImportedOnce'
  BY <1>3 DEF RetryImport, ImportedOnce
<1>4. ASSUME NEW t \in Slugs, CreateArticle(t)
      PROVE  ImportedOnce'
  <2>1. /\ article[t] = Nobody /\ items' = items
        /\ article' = [article EXCEPT ![t] = Author]
        /\ announced' = [announced EXCEPT ![t] = announced[t] + 1]
    BY <1>4 DEF CreateArticle
  <2>2. ASSUME NEW j \in Jobs, NEW p \in DOMAIN items[j]
        PROVE  LET origin == article'[items[j][p].slug]
               IN /\ items[j][p].status = "imported" <=> origin = <<j, p>>
                  /\ items[j][p].status = "failed" => origin \notin {Nobody, <<j, p>>}
    <3>1. <<j, p>> # Nobody /\ <<j, p>> # Author /\ Nobody # Author /\ items[j][p].slug \in Slugs
      BY <1>0 DEF ImportAssumption
    <3>2. CASE items[j][p].slug = t
      BY <2>1, <3>1, <3>2 DEF ImportedOnce, TypeOK
    <3>3. CASE items[j][p].slug # t
      BY <2>1, <3>1, <3>3 DEF ImportedOnce, TypeOK
    <3>4. QED BY <3>2, <3>3
  <2>3. ASSUME NEW s \in Slugs
        PROVE  announced'[s] = IF article'[s] = Nobody THEN 0 ELSE 1
    BY <2>1 DEF ImportedOnce, TypeOK, ImportAssumption
  <2>4. QED BY <2>1, <2>2, <2>3 DEF ImportedOnce
<1>5. ASSUME NEW w \in Workers, CommitRow(w)
      PROVE  ImportedOnce'
  <2>1. PICK k \in Jobs : \E i \in DOMAIN items[k] : \E t \in Slugs, ok \in BOOLEAN :
          k = worker[w].job /\ items[k] \in Seq(Item) /\ CommitOf(w, k, i, t, ok)
    BY <1>5, CommitFacts
  <2>2. PICK i \in DOMAIN items[k], t \in Slugs, ok \in BOOLEAN : CommitOf(w, k, i, t, ok)
    BY <2>1
  <2> DEFINE st == IF ok THEN "imported" ELSE "failed"
             new == Decided(items[k], i, st)
  <2>3. /\ items[k][i].slug = t /\ items[k][i].status = "pending"
        /\ ok = (article[t] = Nobody)
        /\ items' = [items EXCEPT ![k] = new]
        /\ article' = IF ok THEN [article EXCEPT ![t] = <<k, i>>] ELSE article
        /\ announced' = IF ok THEN [announced EXCEPT ![t] = announced[t] + 1] ELSE announced
    BY <2>2 DEF CommitOf, First
  <2>4. /\ DOMAIN new = DOMAIN items[k] /\ new[i].status = st /\ new[i].slug = t
        /\ \A q \in DOMAIN items[k] : q # i => new[q] = items[k][q]
    <3>1. st \in {"imported", "failed"} /\ items[k] \in Seq(Item)
      BY DEF TypeOK
    <3> HIDE DEF st
    <3>2. QED BY <2>3, <3>1, DecidedTyped
  <2>5. st = "imported" <=> ok
    OBVIOUS
  <2>6. st = "failed" <=> ~ok
    OBVIOUS
  <2> HIDE DEF st, new
  <2>7. <<k, i>> # Nobody /\ <<k, i>> # Author /\ article[t] # <<k, i>>
    BY <1>0, <2>3 DEF ImportAssumption, ImportedOnce
  <2>8. ASSUME NEW j \in Jobs, NEW p \in DOMAIN items'[j]
        PROVE  LET origin == article'[items'[j][p].slug]
               IN /\ items'[j][p].status = "imported" <=> origin = <<j, p>>
                  /\ items'[j][p].status = "failed" => origin \notin {Nobody, <<j, p>>}
    <3>1. CASE j = k /\ p = i
      <4>1. items'[j][p] = new[i]
        BY <2>3, <3>1 DEF TypeOK
      <4>2. CASE ok
        <5>1. article'[t] = <<k, i>>
          BY <2>3, <4>2 DEF TypeOK
        <5>2. QED BY <2>4, <2>5, <2>6, <3>1, <4>1, <4>2, <5>1
      <4>3. CASE ~ok
        BY <2>3, <2>4, <2>5, <2>6, <2>7, <3>1, <4>1, <4>3
      <4>4. QED BY <4>2, <4>3
    <3>2. CASE ~(j = k /\ p = i)
      <4>1. p \in DOMAIN items[j] /\ items'[j][p] = items[j][p]
        BY <2>3, <2>4, <3>2 DEF TypeOK
      <4>2. <<j, p>> # <<k, i>> /\ <<j, p>> # Nobody /\ items[j][p].slug \in Slugs
        BY <1>0, <3>2, <4>1 DEF ImportAssumption
      <4> DEFINE r == items[j][p]
      <4>3. /\ r.status = "imported" <=> article[r.slug] = <<j, p>>
            /\ r.status = "failed" => article[r.slug] \notin {Nobody, <<j, p>>}
        BY <4>1 DEF ImportedOnce
      <4> HIDE DEF r
      <4>4. CASE ok /\ r.slug = t
        <5>1. article'[t] = <<k, i>> /\ article[t] = Nobody
          BY <2>3, <4>4 DEF TypeOK
        <5>2. r.status # "imported" /\ r.status # "failed"
          BY <4>2, <4>3, <4>4, <5>1
        <5>3. QED BY <4>1, <4>2, <4>4, <5>1, <5>2 DEF r
      <4>5. CASE ~(ok /\ r.slug = t)
        <5>1. article'[r.slug] = article[r.slug]
          BY <2>3, <4>2, <4>5 DEF TypeOK, r
        <5>2. QED BY <4>1, <4>3, <5>1 DEF r
      <4>6. QED BY <4>4, <4>5
    <3>3. QED BY <3>1, <3>2
  <2>9. ASSUME NEW s \in Slugs
        PROVE  announced'[s] = IF article'[s] = Nobody THEN 0 ELSE 1
    <3>1. announced[s] = IF article[s] = Nobody THEN 0 ELSE 1
      BY DEF ImportedOnce
    <3>2. CASE ok /\ s = t
      <4>1. article'[s] = <<k, i>> /\ announced'[s] = announced[s] + 1 /\ announced[s] = 0
        BY <2>3, <3>1, <3>2 DEF TypeOK
      <4>2. QED BY <2>7, <4>1
    <3>3. CASE ~(ok /\ s = t)
      <4>1. article'[s] = article[s] /\ announced'[s] = announced[s]
        BY <2>3, <3>3 DEF TypeOK
      <4>2. QED BY <3>1, <4>1
    <3>4. QED BY <3>2, <3>3
  <2>10. QED BY <2>8, <2>9 DEF ImportedOnce
<1>6. ASSUME NEW w \in Workers, RecordFailure(w)
      PROVE  ImportedOnce'
  BY <1>6 DEF RecordFailure, ImportedOnce
<1>7. QED BY <1>1, <1>2, <1>3, <1>4, <1>5, <1>6, DataKept DEF Ask
-----------------------------------------------------------------------------
(* ProgressMatches in two parts: what counters and status say of the rows, *)
(* of one job x, and that a job which has stopped has spent its attempts   *)
Refused(rows) == {p \in DOMAIN rows : rows[p].status = "failed"}
Agrees(x, rows) ==
  /\ x.processed <= Len(rows)
  /\ \A p \in DOMAIN rows : rows[p].status = "pending" <=> p > x.processed
  /\ x.failed = Cardinality(Refused(rows))
  /\ x.status \in Completed <=> x.processed = Len(rows) /\ rows # <<>>
  /\ x.status = "completed" => Refused(rows) = {}
  /\ x.status = "completed_with_errors" => Refused(rows) # {}
  /\ x.attempts <= MaxAttempts
  /\ x.attempts = MaxAttempts => x.status = "failed"
Spent(x) == x.status = "failed" => x.attempts = MaxAttempts

Counted == \A j \in Jobs : Agrees(job[j], items[j])
AllSpent == \A j \in Jobs : Spent(job[j])

LEMMA AgreesIs == ProgressMatches <=> Counted /\ AllSpent
BY DEF ProgressMatches, Counted, AllSpent, Agrees, Spent, Refused

LEMMA RefusedFinite ==
  ASSUME NEW rows \in Seq(Item)
  PROVE  IsFiniteSet(Refused(rows))
<1>1. DOMAIN rows = 1..Len(rows) /\ Len(rows) \in Nat
  OBVIOUS
<1>2. IsFiniteSet(1..Len(rows))
  BY <1>1, FS_Interval
<1>3. QED BY <1>1, <1>2, FS_Subset DEF Refused

LEMMA AgreesNew ==
  ASSUME NEW rows \in Seq(Item), rows # <<>>, ImportAssumption,
         \A p \in DOMAIN rows : rows[p].status = "pending",
         NEW x, x.status = "pending", x.attempts = 0, x.processed = 0, x.failed = 0
  PROVE  Agrees(x, rows)
<1>1. Refused(rows) = {} /\ Cardinality(Refused(rows)) = 0
  BY FS_EmptySet DEF Refused
<1>2. DOMAIN rows = 1..Len(rows) /\ Len(rows) \in Nat /\ Len(rows) # 0
  OBVIOUS
<1>3. MaxAttempts \in Nat /\ MaxAttempts # 0
  BY DEF ImportAssumption
<1>4. QED BY <1>1, <1>2, <1>3 DEF Agrees, Completed

LEMMA AgreesRetried ==
  ASSUME NEW rows \in Seq(Item), NEW x \in Job, ImportAssumption,
         Agrees(x, rows), x.status = "failed",
         NEW y, y.status = "pending", y.attempts = 0,
         y.processed = x.processed, y.failed = x.failed
  PROVE  Agrees(y, rows)
<1>1. MaxAttempts \in Nat /\ MaxAttempts # 0
  BY DEF ImportAssumption
<1>2. QED BY <1>1 DEF Agrees, Completed

LEMMA AgreesCharged ==
  ASSUME NEW rows \in Seq(Item), NEW x \in Job, ImportAssumption, Agrees(x, rows)
  PROVE  Agrees(Charged(x), rows)
<1> DEFINE st == IF x.attempts + 1 >= MaxAttempts THEN "failed" ELSE x.status
           y == [x EXCEPT !.attempts = x.attempts + 1, !.error = TRUE, !.status = st]
<1>1. CASE x.status \notin Active
  BY <1>1 DEF Charged
<1>2. CASE x.status \in Active
  <2>1. Charged(x) = y
    BY <1>2 DEF Charged
  <2>2. MaxAttempts \in Nat /\ x.attempts \in Nat /\ x.attempts # MaxAttempts
    BY <1>2 DEF ImportAssumption, Agrees, Active, Job
  <2>3. x.attempts + 1 <= MaxAttempts
    BY <2>2 DEF Agrees
  <2>4. /\ y.status = st /\ y.attempts = x.attempts + 1
        /\ y.processed = x.processed /\ y.failed = x.failed
    BY DEF Job
  <2>5. /\ st \in {"pending", "processing", "failed"}
        /\ st = "failed" <=> x.attempts + 1 = MaxAttempts
    BY <1>2, <2>2, <2>3 DEF Active
  <2> HIDE DEF st, y
  <2>6. QED BY <1>2, <2>1, <2>3, <2>4, <2>5 DEF Agrees, Active, Completed
<1>3. QED BY <1>1, <1>2

(* The first pending row is the one after those already counted            *)
LEMMA FirstIsNext ==
  ASSUME TypeOK, NEW j \in Jobs, NEW i, First(j, i), Agrees(job[j], items[j])
  PROVE  i = job[j].processed + 1 /\ i <= Len(items[j])
<1>1. /\ items[j] \in Seq(Item) /\ DOMAIN items[j] = 1..Len(items[j])
      /\ Len(items[j]) \in Nat /\ job[j].processed \in Nat
  <2>1. items[j] \in Seq(Item) /\ job[j] \in Job
    BY DEF TypeOK
  <2>2. QED BY <2>1 DEF Job
<1>2. i \in 1..Len(items[j]) /\ i > job[j].processed
  BY <1>1 DEF First, Agrees
<1>3. ASSUME job[j].processed + 1 < i
      PROVE  FALSE
  <2> DEFINE q == job[j].processed + 1
  <2>1. q \in 1..(i - 1) /\ q \in DOMAIN items[j] /\ q > job[j].processed
    BY <1>1, <1>2, <1>3
  <2>2. QED BY <2>1 DEF First, Agrees
<1>4. QED BY <1>1, <1>2, <1>3

LEMMA AdvancedStatus ==
  ASSUME NEW x \in Job, NEW total, NEW ok \in BOOLEAN
  PROVE  Advanced(x, total, ok).status =
           IF x.processed + 1 # total THEN "processing"
           ELSE IF Advanced(x, total, ok).failed = 0 THEN "completed"
           ELSE "completed_with_errors"
<1> DEFINE f == IF ok THEN x.failed ELSE x.failed + 1
           st == IF x.processed + 1 # total THEN "processing"
                 ELSE IF f = 0 THEN "completed" ELSE "completed_with_errors"
<1>1. Advanced(x, total, ok) = [x EXCEPT !.processed = x.processed + 1, !.failed = f,
                                         !.error = FALSE, !.status = st]
  BY DEF Advanced
<1>2. st = IF x.processed + 1 # total THEN "processing"
           ELSE IF f = 0 THEN "completed" ELSE "completed_with_errors"
  OBVIOUS
<1> HIDE DEF f, st
<1>3. Advanced(x, total, ok).status = st /\ Advanced(x, total, ok).failed = f
  BY <1>1 DEF Job
<1>4. QED BY <1>2, <1>3

LEMMA AgreesAdvanced ==
  ASSUME NEW rows \in Seq(Item), NEW x \in Job, NEW ok \in BOOLEAN, NEW i,
         i = x.processed + 1, i <= Len(rows), x.status \in Active, Agrees(x, rows),
         NEW st, st = (IF ok THEN "imported" ELSE "failed")
  PROVE  Agrees(Advanced(x, Len(rows), ok), Decided(rows, i, st))
<1> DEFINE y == Advanced(x, Len(rows), ok)
           new == Decided(rows, i, st)
<1>1. /\ DOMAIN rows = 1..Len(rows) /\ Len(rows) \in Nat /\ x.processed \in Nat
      /\ i \in DOMAIN rows /\ x.failed \in Nat /\ x.attempts \in Nat
  BY DEF Job
<1>2. /\ y.attempts = x.attempts /\ y.processed = i
      /\ y.failed = x.failed + (IF ok THEN 0 ELSE 1)
      /\ y.status = IF i # Len(rows) THEN "processing"
                    ELSE IF y.failed = 0 THEN "completed" ELSE "completed_with_errors"
  BY AdvancedTyped, AdvancedStatus
<1>3. /\ new \in Seq(Item) /\ Len(new) = Len(rows) /\ DOMAIN new = DOMAIN rows
      /\ new[i].status = st /\ \A q \in DOMAIN rows : q # i => new[q] = rows[q]
  <2>1. st \in {"imported", "failed"}
    OBVIOUS
  <2>2. QED BY <1>1, <2>1, DecidedTyped
<1>4. rows[i].status = "pending"
  BY <1>1 DEF Agrees
<1> HIDE DEF y, new
<1>5. y.failed = Cardinality(Refused(new)) /\ y.failed \in Nat
  <2>1. i \notin Refused(rows) /\ IsFiniteSet(Refused(rows))
    BY <1>4, RefusedFinite DEF Refused
  <2>2. CASE ok
    <3>1. Refused(new) = Refused(rows)
      BY <1>3, <1>4, <2>2 DEF Refused
    <3>2. QED BY <1>1, <1>2, <2>2, <3>1 DEF Agrees
  <2>3. CASE ~ok
    <3>1. Refused(new) = Refused(rows) \cup {i}
      BY <1>1, <1>3, <1>4, <2>3 DEF Refused
    <3>2. Cardinality(Refused(new)) = Cardinality(Refused(rows)) + 1
      BY <2>1, <3>1, FS_AddElement
    <3>3. QED BY <1>1, <1>2, <2>3, <3>2 DEF Agrees
  <2>4. QED BY <2>2, <2>3
<1>6. Refused(new) = {} <=> y.failed = 0
  <2>1. IsFiniteSet(Refused(new))
    BY <1>3, RefusedFinite
  <2>2. QED BY <1>5, <2>1, FS_EmptySet
<1>7. \A p \in DOMAIN new : new[p].status = "pending" <=> p > i
  <2> SUFFICES ASSUME NEW p \in DOMAIN new
               PROVE  new[p].status = "pending" <=> p > i
    OBVIOUS
  <2>1. CASE p = i
    BY <1>1, <1>3, <2>1
  <2>2. CASE p # i
    <3>1. new[p] = rows[p] /\ (rows[p].status = "pending" <=> p > x.processed)
      BY <1>3, <2>2 DEF Agrees
    <3>2. p > x.processed <=> p > i
      BY <1>1, <1>3, <2>2
    <3>3. QED BY <3>1, <3>2
  <2>3. QED BY <2>1, <2>2
<1>8. x.attempts <= MaxAttempts /\ x.attempts # MaxAttempts
  BY DEF Agrees, Active
<1>9. new # <<>>
  BY <1>1, <1>3
<1>10. y.status \in Completed <=> i = Len(new)
  BY <1>2, <1>3 DEF Completed
<1>11. y.status # "failed" /\ (y.status = "completed" => y.failed = 0)
       /\ (y.status = "completed_with_errors" => y.failed # 0)
  BY <1>2
<1>12. QED BY <1>2, <1>3, <1>5, <1>6, <1>7, <1>8, <1>9, <1>10, <1>11
           DEF Agrees, y, new

LEMMA CountedStep ==
  ASSUME TypeOK, HolderIsCurrent, NoDangling, Counted, ImportAssumption, [Next]_vars
  PROVE  Counted'
<1>1. /\ \A j \in Jobs : job[j] \in Job /\ items[j] \in Seq(Item)
      /\ \A j \in Jobs : Agrees(job[j], items[j])
  BY DEF TypeOK, Counted
<1>2. SUFFICES \A j \in Jobs : Agrees(job'[j], items'[j])
  BY DEF Counted, Agrees, Refused
<1>3. CASE UNCHANGED <<job, items, article, announced>>
  BY <1>1, <1>3
<1>4. ASSUME NEW k \in Jobs, NEW slugs \in SlugLists, CreateImportJob(k, slugs)
      PROVE  \A j \in Jobs : Agrees(job'[j], items'[j])
  <2> DEFINE rows == [p \in DOMAIN slugs |-> [slug |-> slugs[p], status |-> "pending"]]
             y == [job[k] EXCEPT !.status = "pending"]
  <2>1. /\ rows \in Seq(Item) /\ rows # <<>>
        /\ \A p \in DOMAIN rows : rows[p].status = "pending"
    BY NewRowsTyped
  <2>2. y.status = "pending" /\ y.attempts = 0 /\ y.processed = 0 /\ y.failed = 0
    BY <1>4 DEF CreateImportJob, NoDangling, NoJob
  <2>3. items' = [items EXCEPT ![k] = rows] /\ job' = [job EXCEPT ![k] = y]
    BY <1>4 DEF CreateImportJob
  <2> HIDE DEF rows, y
  <2>4. Agrees(y, rows)
    BY <2>1, <2>2, AgreesNew
  <2>5. QED BY <1>1, <2>3, <2>4 DEF TypeOK
<1>5. ASSUME NEW k \in Jobs, RetryImport(k)
      PROVE  \A j \in Jobs : Agrees(job'[j], items'[j])
  <2> DEFINE y == [job[k] EXCEPT !.status = "pending", !.attempts = 0, !.error = FALSE]
  <2>1. /\ y.status = "pending" /\ y.attempts = 0
        /\ y.processed = job[k].processed /\ y.failed = job[k].failed
    BY <1>1 DEF Job
  <2>2. items' = items /\ job' = [job EXCEPT ![k] = y] /\ job[k].status = "failed"
    BY <1>5 DEF RetryImport
  <2> HIDE DEF y
  <2>3. Agrees(y, items[k])
    BY <1>1, <2>1, <2>2, AgreesRetried
  <2>4. QED BY <1>1, <2>2, <2>3 DEF TypeOK
<1>6. ASSUME NEW s \in Slugs, CreateArticle(s)
      PROVE  \A j \in Jobs : Agrees(job'[j], items'[j])
  BY <1>1, <1>6 DEF CreateArticle
<1>7. ASSUME NEW w \in Workers, CommitRow(w)
      PROVE  \A j \in Jobs : Agrees(job'[j], items'[j])
  <2>1. PICK k \in Jobs : \E i \in DOMAIN items[k] : \E t \in Slugs, ok \in BOOLEAN :
          k = worker[w].job /\ items[k] \in Seq(Item) /\ CommitOf(w, k, i, t, ok)
    BY <1>7, CommitFacts
  <2>2. PICK i \in DOMAIN items[k], t \in Slugs, ok \in BOOLEAN : CommitOf(w, k, i, t, ok)
    BY <2>1
  <2> DEFINE st == IF ok THEN "imported" ELSE "failed"
             y == Advanced(job[k], Len(items[k]), ok)
             new == Decided(items[k], i, st)
  <2>3. /\ First(k, i) /\ job[k].status \in Active
        /\ job' = [job EXCEPT ![k] = y] /\ items' = [items EXCEPT ![k] = new]
    BY <2>2 DEF CommitOf, IsDue
  <2>4. i = job[k].processed + 1 /\ i <= Len(items[k])
    BY <1>1, <2>3, FirstIsNext
  <2>5. st = IF ok THEN "imported" ELSE "failed"
    OBVIOUS
  <2> HIDE DEF st
  <2>6. Agrees(y, new)
    BY <1>1, <2>3, <2>4, <2>5, AgreesAdvanced
  <2> HIDE DEF y, new
  <2>7. QED BY <1>1, <2>3, <2>6 DEF TypeOK
<1>8. ASSUME NEW w \in Workers, RecordFailure(w)
      PROVE  \A j \in Jobs : Agrees(job'[j], items'[j])
  <2> DEFINE k == worker[w].job
  <2>1. k \in Jobs /\ items' = items /\ job' = [job EXCEPT ![k] = Charged(job[k])]
    BY <1>8, WorkerFacts, PhaseWorks DEF RecordFailure
  <2>2. Agrees(Charged(job[k]), items[k])
    BY <1>1, <2>1, AgreesCharged
  <2>3. QED BY <1>1, <2>1, <2>2 DEF TypeOK
<1>9. QED BY <1>3, <1>4, <1>5, <1>6, <1>7, <1>8, DataKept DEF Ask

LEMMA SpentStep ==
  ASSUME TypeOK, HolderIsCurrent, Counted, AllSpent, ImportAssumption, [Next]_vars
  PROVE  AllSpent'
<1>1. \A j \in Jobs : job[j] \in Job /\ Spent(job[j]) /\ Agrees(job[j], items[j])
  BY DEF TypeOK, AllSpent, Counted
<1>2. ASSUME NEW k \in Jobs, NEW y, Spent(y), job' = [job EXCEPT ![k] = y]
      PROVE  AllSpent'
  BY <1>1, <1>2 DEF AllSpent, Spent, TypeOK
<1>3. CASE UNCHANGED <<job, items, article, announced>>
  BY <1>3 DEF AllSpent, Spent
<1>4. ASSUME NEW k \in Jobs, Ask(k) \/ RetryImport(k) PROVE AllSpent'
  <2>1. \A y : y.status = "pending" => Spent(y)
    BY DEF Spent
  <2>2. [job[k] EXCEPT !.status = "pending"].status = "pending"
    BY <1>1 DEF Job
  <2>3. [job[k] EXCEPT !.status = "pending", !.attempts = 0,
                       !.error = FALSE].status = "pending"
    BY <1>1 DEF Job
  <2>4. \E y : y.status = "pending" /\ job' = [job EXCEPT ![k] = y]
    BY <1>4, <2>2, <2>3 DEF Ask, CreateImportJob, RetryImport
  <2>5. QED BY <1>2, <2>1, <2>4
<1>5. ASSUME NEW s \in Slugs, CreateArticle(s) PROVE AllSpent'
  BY <1>5 DEF CreateArticle, AllSpent, Spent
<1>6. ASSUME NEW w \in Workers, CommitRow(w) PROVE AllSpent'
  <2>1. PICK k \in Jobs : \E i \in DOMAIN items[k] : \E t \in Slugs, ok \in BOOLEAN :
          k = worker[w].job /\ items[k] \in Seq(Item) /\ CommitOf(w, k, i, t, ok)
    BY <1>6, CommitFacts
  <2>2. PICK ok \in BOOLEAN : job' = [job EXCEPT ![k] = Advanced(job[k], Len(items[k]), ok)]
    BY <2>1 DEF CommitOf
  <2>3. Advanced(job[k], Len(items[k]), ok).status # "failed"
    BY <1>1, AdvancedStatus
  <2>4. QED BY <1>2, <2>2, <2>3 DEF Spent
<1>7. ASSUME NEW w \in Workers, RecordFailure(w) PROVE AllSpent'
  <2> DEFINE k == worker[w].job
             x == job[k]
             st == IF x.attempts + 1 >= MaxAttempts THEN "failed" ELSE x.status
             y == [x EXCEPT !.attempts = x.attempts + 1, !.error = TRUE, !.status = st]
  <2>1. k \in Jobs /\ job' = [job EXCEPT ![k] = Charged(x)]
    BY <1>7, WorkerFacts, PhaseWorks DEF RecordFailure
  <2>2. x \in Job /\ Spent(x) /\ x.attempts \in Nat /\ x.attempts <= MaxAttempts
        /\ (x.attempts = MaxAttempts => x.status = "failed") /\ MaxAttempts \in Nat
    BY <1>1, <2>1 DEF Job, Agrees, ImportAssumption
  <2>3. CASE x.status \notin Active
    BY <1>2, <2>1, <2>2, <2>3 DEF Charged
  <2>4. CASE x.status \in Active
    <3>1. Charged(x) = y /\ y.status = st /\ y.attempts = x.attempts + 1
      BY <2>2, <2>4 DEF Charged, Job
    <3>2. st = "failed" => x.attempts + 1 = MaxAttempts
      BY <2>2, <2>4 DEF Active
    <3> HIDE DEF x, st, y, k
    <3>3. Spent(Charged(x))
      BY <3>1, <3>2 DEF Spent
    <3>4. QED BY <1>2, <2>1, <3>3
  <2>5. QED BY <2>3, <2>4
<1>8. QED BY <1>3, <1>4, <1>5, <1>6, <1>7, DataKept

LEMMA ProgressStep ==
  ASSUME TypeOK, HolderIsCurrent, NoDangling, ProgressMatches, ImportAssumption,
         [Next]_vars
  PROVE  ProgressMatches'
<1>1. Counted /\ AllSpent
  BY AgreesIs
<1>2. Counted' /\ AllSpent'
  BY <1>1, CountedStep, SpentStep
<1>3. QED BY <1>2 DEF ProgressMatches, Counted, AllSpent, Agrees, Spent, Refused

-----------------------------------------------------------------------------
LEMMA InitInv == ASSUME ImportAssumption, Init PROVE IInv
<1>1. TypeOK
  BY InitTyped
<1>2. HolderIsCurrent
  BY DEF Init, Idle, HolderIsCurrent, LoadedCurrent, WrittenFirst, LocksHeld, ClaimsHeld
<1>3. NoDangling
  BY DEF Init, NoDangling, ImportAssumption
<1>4. ImportedOnce
  BY DEF Init, ImportedOnce
<1>5. ProgressMatches
  <2>1. Refused(<<>>) = {} /\ Cardinality({}) = 0
    BY FS_EmptySet DEF Refused
  <2>2. MaxAttempts \in Nat /\ MaxAttempts # 0
    BY DEF ImportAssumption
  <2>3. Agrees(NoJob, <<>>)
    <3>1. /\ NoJob.status = "absent" /\ NoJob.attempts = 0
          /\ NoJob.processed = 0 /\ NoJob.failed = 0
      BY DEF NoJob
    <3>2. Len(<<>>) = 0 /\ DOMAIN <<>> = {}
      OBVIOUS
    <3>3. ASSUME NEW x, NEW rows, Refused(rows) = {}, Len(rows) = 0, DOMAIN rows = {},
                 rows = <<>>, x.status = "absent",
                 x.attempts = 0, x.processed = 0, x.failed = 0
          PROVE  Agrees(x, rows)
      BY <2>1, <2>2, <3>3 DEF Agrees, Completed
    <3>4. QED BY <2>1, <3>1, <3>2, <3>3
  <2>4. Spent(NoJob)
    BY DEF Spent, NoJob
  <2>5. QED BY <2>3, <2>4, AgreesIs DEF Init, Counted, AllSpent
<1>6. QED BY <1>1, <1>2, <1>3, <1>4, <1>5 DEF IInv

LEMMA StepInv == ASSUME ImportAssumption, IInv, [Next]_vars PROVE IInv'
<1>1. TypeOK /\ HolderIsCurrent /\ NoDangling /\ ImportedOnce /\ ProgressMatches
  BY DEF IInv
<1>2. TypeOK'
  BY <1>1, NextTyped
<1>3. HolderIsCurrent'
  BY <1>1, HolderStep
<1>4. NoDangling'
  BY <1>1, NoDanglingStep
<1>5. ImportedOnce'
  BY <1>1, ImportedOnceStep
<1>6. ProgressMatches'
  BY <1>1, ProgressStep
<1>7. QED BY <1>2, <1>3, <1>4, <1>5, <1>6 DEF IInv

(* However workers interleave, fail and die, the invariant holds of every  *)
(* reachable state, for any number of jobs, rows, workers and attempts.    *)
THEOREM InductiveInvariant == Spec => []IInv
BY ImportAssumption, InitInv, StepInv, PTL DEF Spec

(* Every table, lock and importer keeps its type.                          *)
THEOREM TypeCorrect == Spec => []TypeOK
<1>1. IInv => TypeOK
  BY DEF IInv
<1>2. QED BY <1>1, InductiveInvariant, PTL

(* A row is decided from the committed job, by the only worker on that job *)
(* and on that slug.                                                       *)
THEOREM DecidesFromCurrent == Spec => []HolderIsCurrent
<1>1. IInv => HolderIsCurrent
  BY DEF IInv
<1>2. QED BY <1>1, InductiveInvariant, PTL

(* No row makes two articles or two events, and no row is refused for a    *)
(* slug that is free or that it took itself.                               *)
THEOREM ArticlesImportedOnce == Spec => []ImportedOnce
<1>1. IInv => ImportedOnce
  BY DEF IInv
<1>2. QED BY <1>1, InductiveInvariant, PTL

(* The counters, the status and the attempts of a job agree with its rows. *)
THEOREM ProgressIsExact == Spec => []ProgressMatches
<1>1. IInv => ProgressMatches
  BY DEF IInv
<1>2. QED BY <1>1, InductiveInvariant, PTL
(* Rows are decided only when the job may be worked on: no worker goes on  *)
(* with a job that waits for its next attempt, has stopped or is complete. *)
THEOREM RestsKept == Spec => RestsBetweenAttempts
<1>1. ASSUME IInv, [Next]_vars, NEW j \in Jobs, items'[j] # items[j], items[j] # <<>>
      PROVE  IsDue(j, job[j])
  <2>1. TypeOK /\ HolderIsCurrent /\ NoDangling
    BY <1>1 DEF IInv
  <2>2. ~UNCHANGED <<job, items, article, announced>>
    BY <1>1
  <2>3. ASSUME NEW k \in Jobs, Ask(k)
        PROVE  FALSE
    <3>1. k = j
      BY <1>1, <2>1, <2>3 DEF Ask, CreateImportJob, TypeOK
    <3>2. items[k] = <<>>
      BY <2>1, <2>3 DEF Ask, CreateImportJob, NoDangling
    <3>3. QED BY <1>1, <3>1, <3>2
  <2>4. PICK w \in Workers : CommitRow(w)
    BY <1>1, <2>1, <2>2, <2>3, DataKept DEF RetryImport, CreateArticle, RecordFailure
  <2>5. PICK k \in Jobs : \E i \in DOMAIN items[k] : \E s \in Slugs, ok \in BOOLEAN :
          k = worker[w].job /\ items[k] \in Seq(Item) /\ CommitOf(w, k, i, s, ok)
    BY <2>1, <2>4, CommitFacts
  <2>6. IsDue(k, job[k]) /\ \A m \in Jobs : m # k => items'[m] = items[m]
    BY <2>1, <2>5 DEF CommitOf, TypeOK
  <2>7. QED BY <1>1, <2>6
<1>2. IInv /\ [Next]_vars =>
        \A j \in Jobs : items'[j] # items[j] /\ items[j] # <<>> => IsDue(j, job[j])
  BY <1>1
<1>3. QED BY <1>2, InductiveInvariant, PTL DEF Spec, RestsBetweenAttempts

-----------------------------------------------------------------------------
(***************************************************************************)
(* ImportJobs implements ImportPromise: the request, an author's article,  *)
(* the commit of a row, the last recorded failure and the retry are its    *)
(* steps; picks, locks, inserts, rollbacks, crashes, earlier failures and  *)
(* delays are stuttering steps.                                            *)
(***************************************************************************)
Mapped == [j \in Jobs |-> State(job[j])]

LEMMA MappedOne ==
  ASSUME TypeOK, NEW j \in Jobs, NEW y, job' = [job EXCEPT ![j] = y]
  PROVE  Mapped' = [Mapped EXCEPT ![j] = State(y)] /\ Mapped[j] = State(job[j])
BY DEF Mapped, TypeOK

LEMMA MappedAsk ==
  ASSUME TypeOK, ImportAssumption, NEW j \in Jobs, Ask(j)
  PROVE  Promise!Submit(j)
<1> PICK slugs \in SlugLists : CreateImportJob(j, slugs)
  BY DEF Ask
<1> DEFINE rows == [p \in DOMAIN slugs |-> [slug |-> slugs[p], status |-> "pending"]]
           y == [job[j] EXCEPT !.status = "pending"]
           Open == [slug : Slugs, status : {"pending"}]
<1>1. /\ items' = [items EXCEPT ![j] = rows] /\ job' = [job EXCEPT ![j] = y]
      /\ article' = article /\ job[j].status = "absent"
  BY DEF CreateImportJob
<1>2. rows \in Seq(Open) /\ rows # <<>>
  <2>1. PICK n \in 1..MaxRows : slugs \in [1..n -> Slugs]
    BY DEF SlugLists
  <2>2. n \in Nat /\ n > 0
    BY <2>1, ImportAssumption DEF ImportAssumption
  <2>3. \A p \in 1..n : [slug |-> slugs[p], status |-> "pending"] \in Open
    BY <2>1
  <2>4. rows \in [1..n -> Open]
    BY <2>1, <2>3
  <2> HIDE DEF rows, Open
  <2>5. QED BY <2>2, <2>4
<1>3. State(job[j]) = "none" /\ State(y) = "open"
  <2>1. y.status = "pending"
    BY DEF TypeOK, Job
  <2>2. QED BY <1>1, <2>1 DEF State, Active, Completed
<1> HIDE DEF rows, y
<1>4. Mapped' = [Mapped EXCEPT ![j] = "open"] /\ Mapped[j] = "none"
  BY <1>1, <1>3, MappedOne
<1>5. items'[j] = rows
  BY <1>1 DEF TypeOK
<1>6. QED BY <1>1, <1>2, <1>4, <1>5 DEF Promise!Submit, Mapped

LEMMA MappedRetry ==
  ASSUME TypeOK, NEW j \in Jobs, RetryImport(j)
  PROVE  Promise!Turn(j, "stopped", "open")
<1> DEFINE y == [job[j] EXCEPT !.status = "pending", !.attempts = 0, !.error = FALSE]
<1>1. /\ job' = [job EXCEPT ![j] = y] /\ job[j].status = "failed"
      /\ items' = items /\ article' = article
  BY DEF RetryImport
<1>2. State(job[j]) = "stopped" /\ State(y) = "open"
  <2>1. y.status = "pending"
    BY DEF TypeOK, Job
  <2>2. QED BY <1>1, <2>1 DEF State, Active, Completed
<1> HIDE DEF y
<1>3. Mapped' = [Mapped EXCEPT ![j] = "open"] /\ Mapped[j] = "stopped"
  BY <1>1, <1>2, MappedOne
<1>4. QED BY <1>1, <1>3 DEF Promise!Turn, Mapped

LEMMA MappedRecord ==
  ASSUME TypeOK, NEW w \in Workers, RecordFailure(w)
  PROVE  \/ \E j \in Jobs : Promise!Turn(j, "open", "stopped")
         \/ UNCHANGED <<Mapped, items, article>>
<1> DEFINE j == worker[w].job
           y == Charged(job[j])
<1>1. /\ j \in Jobs /\ job[j] \in Job /\ job' = [job EXCEPT ![j] = y]
      /\ items' = items /\ article' = article
  BY WorkerFacts, PhaseWorks DEF RecordFailure, TypeOK
<1>2. y.status = job[j].status \/ (job[j].status \in Active /\ y.status = "failed")
  <2> DEFINE st == IF job[j].attempts + 1 >= MaxAttempts THEN "failed" ELSE job[j].status
  <2>1. y = IF job[j].status \notin Active THEN job[j]
            ELSE [job[j] EXCEPT !.attempts = job[j].attempts + 1, !.error = TRUE,
                                !.status = st]
    BY DEF Charged
  <2>2. st \in {"failed", job[j].status}
    OBVIOUS
  <2> HIDE DEF st, y
  <2>3. job[j].status \in Active => y.status = st
    BY <1>1, <2>1 DEF Job
  <2>4. QED BY <2>1, <2>2, <2>3
<1> HIDE DEF j, y
<1>3. Mapped' = [Mapped EXCEPT ![j] = State(y)] /\ Mapped[j] = State(job[j])
  BY <1>1, MappedOne
<1>4. CASE y.status = job[j].status
  <2>1. State(y) = State(job[j])
    BY <1>4 DEF State
  <2>2. Mapped' = Mapped
    BY <1>3, <2>1 DEF Mapped
  <2>3. QED BY <1>1, <2>2
<1>5. CASE job[j].status \in Active /\ y.status = "failed"
  <2>1. State(job[j]) = "open" /\ State(y) = "stopped"
    BY <1>5 DEF State, Active, Completed
  <2>2. QED BY <1>1, <1>3, <2>1 DEF Promise!Turn, Mapped
<1>6. QED BY <1>2, <1>4, <1>5

LEMMA MappedCommit ==
  ASSUME TypeOK, HolderIsCurrent, ProgressMatches, NEW w \in Workers, CommitRow(w)
  PROVE  \E j \in Jobs : \E p \in DOMAIN items[j] : Promise!Decide(j, p)
<1>1. PICK j \in Jobs : \E i \in DOMAIN items[j] : \E s \in Slugs, ok \in BOOLEAN :
        j = worker[w].job /\ items[j] \in Seq(Item) /\ CommitOf(w, j, i, s, ok)
  BY CommitFacts
<1>2. PICK i \in DOMAIN items[j], s \in Slugs, ok \in BOOLEAN : CommitOf(w, j, i, s, ok)
  BY <1>1
<1> DEFINE y == Advanced(job[j], Len(items[j]), ok)
           st == IF ok THEN "imported" ELSE "failed"
<1>3. /\ First(j, i) /\ job[j].status \in Active /\ s = items[j][i].slug
      /\ ok = (article[s] = Nobody)
      /\ job' = [job EXCEPT ![j] = y]
      /\ items' = [items EXCEPT ![j] = Decided(items[j], i, st)]
      /\ article' = IF ok THEN [article EXCEPT ![s] = <<j, i>>] ELSE article
  BY <1>2 DEF CommitOf, IsDue
<1>4. /\ job[j] \in Job /\ items[j] \in Seq(Item) /\ Agrees(job[j], items[j])
      /\ DOMAIN items[j] = 1..Len(items[j]) /\ Len(items[j]) \in Nat
      /\ job[j].processed \in Nat
  <2>1. job[j] \in Job /\ items[j] \in Seq(Item) /\ Agrees(job[j], items[j])
    BY AgreesIs DEF TypeOK, Counted
  <2>2. QED BY <2>1 DEF Job
<1>5. i = job[j].processed + 1
  BY <1>3, <1>4, FirstIsNext
<1>6. State(job[j]) = "open"
  BY <1>3 DEF State
<1>7. State(y) = IF i = Len(items[j]) THEN "finished" ELSE "open"
  <2>1. y.status = IF i # Len(items[j]) THEN "processing"
                   ELSE IF y.failed = 0 THEN "completed" ELSE "completed_with_errors"
    BY <1>4, <1>5, AdvancedStatus
  <2> HIDE DEF y
  <2>2. QED BY <2>1 DEF State, Active, Completed
<1> HIDE DEF y
<1>8. /\ Mapped' = [Mapped EXCEPT ![j] = IF i = Len(items[j]) THEN "finished" ELSE "open"]
      /\ Mapped[j] = "open"
  <2>1. Mapped' = [Mapped EXCEPT ![j] = State(y)] /\ Mapped[j] = State(job[j])
    BY <1>3, MappedOne
  <2>2. QED BY <1>6, <1>7, <2>1
<1>9. Promise!First(j, i)
  <2>1. \A q \in DOMAIN items[j] : items[j][q].status = "pending" <=> q >= i
    <3> SUFFICES ASSUME NEW q \in DOMAIN items[j]
                 PROVE  items[j][q].status = "pending" <=> q >= i
      OBVIOUS
    <3>1. q > job[j].processed <=> q >= i
      BY <1>4, <1>5
    <3>2. QED BY <1>4, <3>1 DEF Agrees
  <2>2. QED BY <1>2, <2>1 DEF Promise!First
<1>10. items' = [items EXCEPT ![j][i].status =
                   IF article[items[j][i].slug] = Nobody THEN "imported" ELSE "failed"]
  <2>1. st = IF article[items[j][i].slug] = Nobody THEN "imported" ELSE "failed"
    BY <1>3
  <2> HIDE DEF st
  <2>2. QED BY <1>3, <2>1 DEF Decided
<1>11. article' = IF article[items[j][i].slug] = Nobody
                  THEN [article EXCEPT ![items[j][i].slug] = <<j, i>>] ELSE article
  BY <1>3
<1>12. Promise!Decide(j, i)
  BY <1>8, <1>9, <1>10, <1>11 DEF Promise!Decide, Mapped
<1>13. QED BY <1>12

LEMMA MappedNext ==
  ASSUME IInv, ImportAssumption, [Next]_vars
  PROVE  [Promise!Next]_Promise!vars
<1>1. TypeOK /\ HolderIsCurrent /\ ProgressMatches
  BY DEF IInv
<1>2. CASE UNCHANGED <<job, items, article, announced>>
  BY <1>2 DEF Promise!vars
<1>3. ASSUME NEW j \in Jobs, Ask(j) \/ RetryImport(j)
      PROVE  Promise!Next
  BY <1>1, <1>3, MappedAsk, MappedRetry DEF Promise!Next
<1>4. ASSUME NEW s \in Slugs, CreateArticle(s)
      PROVE  Promise!Next
  <2>1. Promise!Take(s)
    BY <1>4 DEF CreateArticle, Promise!Take
  <2>2. QED BY <2>1 DEF Promise!Next
<1>5. ASSUME NEW w \in Workers, CommitRow(w)
      PROVE  Promise!Next
  BY <1>1, <1>5, MappedCommit DEF Promise!Next
<1>6. ASSUME NEW w \in Workers, RecordFailure(w)
      PROVE  [Promise!Next]_Promise!vars
  BY <1>1, <1>6, MappedRecord DEF Promise!Next, Promise!vars, Mapped
<1>7. QED BY <1>1, <1>2, <1>3, <1>4, <1>5, <1>6, DataKept

(* Workers that race, fail, die and record failures late keep the promise  *)
(* made to the editor, for any number of jobs, rows, workers and attempts. *)
THEOREM PromiseKept == Spec => KeepsPromise
<1>1. Init => Promise!Init
  BY DEF Init, Promise!Init, State, NoJob, Active, Completed
<1>2. IInv /\ [Next]_vars => [Promise!Next]_Promise!vars
  BY MappedNext, ImportAssumption
<1>3. QED
  BY <1>1, <1>2, InductiveInvariant, PTL DEF Spec, KeepsPromise, Promise!Spec

-----------------------------------------------------------------------------
(***************************************************************************)
(* Readers and migrations of the jobs.  A reader is shown the row of a job *)
(* and rows that were read later: what was decided stays decided, so that  *)
(* the counters are not ahead of them.                                     *)
(***************************************************************************)
(* What was decided of a stored job stays; its rows stay as many           *)
RowsKept(rows, new) ==
  /\ Len(new) = Len(rows) /\ DOMAIN new = DOMAIN rows
  /\ \A p \in DOMAIN rows : rows[p].status # "pending" => new[p] = rows[p]

LEMMA DecidedStay ==
  ASSUME TypeOK, HolderIsCurrent, ImportAssumption, [Next]_vars,
         NEW j \in Jobs, job[j].status # "absent"
  PROVE  RowsKept(items[j], items'[j])
<1>1. items[j] \in Seq(Item)
  BY DEF TypeOK
<1>2. CASE items'[j] = items[j]
  BY <1>1, <1>2 DEF RowsKept
<1>3. ASSUME NEW k \in Jobs, Ask(k) \/ RetryImport(k) PROVE items'[j] = items[j]
  BY <1>3 DEF Ask, CreateImportJob, RetryImport, TypeOK
<1>4. ASSUME NEW w \in Workers, CommitRow(w) PROVE RowsKept(items[j], items'[j])
  <2>1. PICK k \in Jobs : \E i \in DOMAIN items[k] : \E t \in Slugs, ok \in BOOLEAN :
          k = worker[w].job /\ items[k] \in Seq(Item) /\ CommitOf(w, k, i, t, ok)
    BY <1>4, CommitFacts
  <2>2. PICK i \in DOMAIN items[k], t \in Slugs, ok \in BOOLEAN : CommitOf(w, k, i, t, ok)
    BY <2>1
  <2>3. CASE j # k
    BY <1>2, <2>2, <2>3 DEF CommitOf, TypeOK
  <2>4. CASE j = k
    <3> DEFINE st == IF ok THEN "imported" ELSE "failed"
    <3>1. First(j, i) /\ items'[j] = Decided(items[j], i, st)
      BY <2>2, <2>4 DEF CommitOf, TypeOK
    <3>2. st \in {"imported", "failed"} /\ i \in DOMAIN items[j]
      BY <2>4
    <3> HIDE DEF st
    <3>3. /\ Len(items'[j]) = Len(items[j]) /\ DOMAIN items'[j] = DOMAIN items[j]
          /\ \A q \in DOMAIN items[j] : q # i => items'[j][q] = items[j][q]
      <4> DEFINE rows == items[j]
      <4>1. rows \in Seq(Item) /\ i \in DOMAIN rows
        BY <1>1, <3>2
      <4> HIDE DEF rows
      <4>2. /\ Len(Decided(rows, i, st)) = Len(rows)
            /\ DOMAIN Decided(rows, i, st) = DOMAIN rows
            /\ \A q \in DOMAIN rows : q # i => Decided(rows, i, st)[q] = rows[q]
        BY <3>2, <4>1, DecidedTyped
      <4>3. QED BY <3>1, <4>2 DEF rows
    <3>4. QED BY <3>1, <3>3 DEF First, RowsKept
  <2>5. QED BY <2>3, <2>4
<1>5. CASE UNCHANGED items
  BY <1>2, <1>5
<1>6. QED
  BY <1>2, <1>3, <1>4, <1>5, DataKept DEF CreateArticle, RecordFailure

(***************************************************************************)
(* What holds of a job's row x and of rows that were read with it or later *)
(***************************************************************************)
RefusedTo(n, rows) == {p \in 1..n : rows[p].status = "failed"}
NotAhead(x, rows) ==
  /\ x.processed <= Len(rows)
  /\ \A p \in 1..x.processed : rows[p].status # "pending"
  /\ Cardinality(RefusedTo(x.processed, rows)) = x.failed
  /\ x.status \in Completed =>
       /\ x.processed = Len(rows)
       /\ x.status = "completed" <=> RefusedTo(Len(rows), rows) = {}

LEMMA AgreesNotAhead ==
  ASSUME NEW x \in Job, NEW rows \in Seq(Item), Agrees(x, rows)
  PROVE  NotAhead(x, rows)
<1>1. /\ DOMAIN rows = 1..Len(rows) /\ Len(rows) \in Nat
      /\ x.processed \in Nat /\ x.processed <= Len(rows)
  BY DEF Job, Agrees
<1>2. \A p \in 1..x.processed : p \in DOMAIN rows /\ rows[p].status # "pending"
  BY <1>1 DEF Agrees
<1>3. \A p \in Refused(rows) : p \in 1..x.processed
  BY <1>1 DEF Refused, Agrees
<1>4. RefusedTo(x.processed, rows) = Refused(rows)
  BY <1>2, <1>3 DEF RefusedTo, Refused
<1>5. x.status \in Completed => x.processed = Len(rows)
  BY DEF Agrees
<1>6. x.status \in Completed => (x.status = "completed" <=> Refused(rows) = {})
  BY DEF Agrees, Completed
<1>7. Cardinality(RefusedTo(x.processed, rows)) = x.failed
  BY <1>4 DEF Agrees
<1>8. QED BY <1>1, <1>2, <1>4, <1>5, <1>6, <1>7 DEF NotAhead

LEMMA NotAheadKept ==
  ASSUME NEW x \in Job, NEW rows \in Seq(Item), NEW new \in Seq(Item),
         NotAhead(x, rows), RowsKept(rows, new)
  PROVE  NotAhead(x, new)
<1>1. /\ DOMAIN rows = 1..Len(rows) /\ Len(rows) \in Nat /\ Len(new) = Len(rows)
      /\ x.processed \in Nat /\ x.processed <= Len(rows)
  BY DEF Job, NotAhead, RowsKept
<1>2. \A p \in 1..x.processed : p \in DOMAIN rows /\ new[p] = rows[p]
  BY <1>1 DEF NotAhead, RowsKept
<1>3. RefusedTo(x.processed, new) = RefusedTo(x.processed, rows)
  BY <1>2 DEF RefusedTo
<1>4. QED BY <1>1, <1>2, <1>3 DEF NotAhead

Shot == [step : {1, 2}, job : Jobs, row : Job, rows : Seq(Item)]
ViewsTyped == view \in [Readers -> Shot \cup {NoView}]

(* What a reader has is not ahead of the rows it will read, or has read    *)
ViewsAgree ==
  \A q \in Readers : \A j \in Jobs, x \in Job, rows \in Seq(Item) :
    /\ view[q].step = 1 /\ view[q].job = j /\ view[q].row = x /\ items[j] = rows =>
         job[j].status # "absent" /\ NotAhead(x, rows)
    /\ view[q].step = 2 /\ view[q].row = x /\ view[q].rows = rows => NotAhead(x, rows)

LEMMA ImportIsStep == ASSUME [IReadsNext]_iviews PROVE [Next]_vars
BY DEF IReadsNext, iviews, Import, ReadJob, AnswerChange, ReadRows, Done, Next

(* The tables and importers, whatever migrations there were                *)
Base == /\ TypeOK /\ HolderIsCurrent /\ NoDangling /\ ImportedOnce /\ Counted

LEMMA BaseStep == ASSUME Base, ImportAssumption, [Next]_vars PROVE Base'
BY NextTyped, HolderStep, NoDanglingStep, ImportedOnceStep, CountedStep DEF Base

LEMMA BaseAgrees ==
  ASSUME Base, NEW j \in Jobs
  PROVE  job[j] \in Job /\ items[j] \in Seq(Item) /\ NotAhead(job[j], items[j])
BY AgreesNotAhead DEF Base, TypeOK, Counted

(* The same after a step                                                   *)
LEMMA BaseAgreesAfter ==
  ASSUME NEW j \in Jobs
  PROVE  Base' => job'[j] \in Job /\ items'[j] \in Seq(Item) /\ NotAhead(job'[j], items'[j])
<1>1. (Base => job[j] \in Job /\ items[j] \in Seq(Item) /\ NotAhead(job[j], items[j]))'
  BY BaseAgrees, PTL
<1>2. QED BY <1>1 DEF NotAhead, RefusedTo

LEMMA ViewTyped == \A x \in Shot : x # NoView /\ x.step \in {1, 2}
BY DEF Shot, NoView

LEMMA SelectsAre ==
  ASSUME NEW x
  PROVE  /\ Selected(x, Selects[1]) = [x EXCEPT !.step = @ + 1, !.row = job[x.job]]
         /\ Selected(x, Selects[2]) = [x EXCEPT !.step = @ + 1, !.rows = items[x.job]]
BY DEF Selected, Selects

(* A step of the importers, of an editor or of one reader                  *)
LEMMA ViewStep ==
  ASSUME Base, ImportAssumption, ViewsTyped, ViewsAgree, [Next]_vars,
         NEW q \in Readers, NEW y \in Shot \cup {NoView},
         view' = [view EXCEPT ![q] = y],
         y.step = 1 => job'[y.job].status # "absent" /\ NotAhead(y.row, items'[y.job]),
         y.step = 2 => NotAhead(y.row, y.rows)
  PROVE  ViewsTyped' /\ ViewsAgree'
<1>1. /\ ViewsTyped' /\ view'[q] = y
      /\ \A p \in Readers : p # q => view'[p] = view[p]
  BY DEF ViewsTyped
<1>2. SUFFICES ASSUME NEW p \in Readers, NEW j \in Jobs, NEW x \in Job,
                      NEW rows \in Seq(Item), view'[p].row = x
               PROVE  /\ view'[p].step = 1 /\ view'[p].job = j /\ items'[j] = rows =>
                           job'[j].status # "absent" /\ NotAhead(x, rows)
                      /\ view'[p].step = 2 /\ view'[p].rows = rows => NotAhead(x, rows)
  BY <1>1 DEF ViewsAgree
<1>3. CASE p = q
  BY <1>1, <1>2, <1>3
<1>4. CASE p # q
  <2>1. view'[p] = view[p]
    BY <1>1, <1>4
  <2>2. view[p].step = 2 /\ view[p].rows = rows => NotAhead(x, rows)
    BY <1>2, <2>1 DEF ViewsAgree
  <2>3. ASSUME view[p].step = 1, view[p].job = j, items'[j] = rows
        PROVE  job'[j].status # "absent" /\ NotAhead(x, rows)
    <3>1. items[j] \in Seq(Item)
      BY DEF Base, TypeOK
    <3> DEFINE old == items[j]
    <3>2. job[j].status # "absent" /\ NotAhead(x, old)
      BY <1>2, <2>1, <2>3, <3>1 DEF ViewsAgree
    <3>3. RowsKept(old, rows)
      BY <2>3, <3>2, DecidedStay DEF Base
    <3> HIDE DEF old
    <3>4. NotAhead(x, rows)
      BY <3>1, <3>2, <3>3, NotAheadKept DEF old
    <3>5. job'[j].status # "absent"
      BY <3>2, JobsKept DEF Base
    <3>6. QED BY <3>4, <3>5
  <2>4. QED BY <2>1, <2>2, <2>3
<1>5. QED BY <1>3, <1>4

LEMMA ReadsStep ==
  ASSUME Base, ImportAssumption, ViewsTyped, ViewsAgree, [IReadsNext]_iviews
  PROVE  Base' /\ ViewsTyped' /\ ViewsAgree'
<1>1. [Next]_vars
  BY ImportIsStep
<1>2. Base'
  BY <1>1, BaseStep
<1>3. ASSUME UNCHANGED view PROVE ViewsTyped' /\ ViewsAgree'
  <2>1. CASE Readers = {}
    BY <1>3, <2>1 DEF ViewsTyped, ViewsAgree
  <2>2. ASSUME NEW q \in Readers PROVE ViewsTyped' /\ ViewsAgree'
    <3> DEFINE y == view[q]
    <3>1. y \in Shot \cup {NoView} /\ view' = [view EXCEPT ![q] = y]
      BY <1>3 DEF ViewsTyped
    <3>2. ASSUME y.step = 1
          PROVE  job'[y.job].status # "absent" /\ NotAhead(y.row, items'[y.job])
      <4>1. y \in Shot
        BY <3>1, <3>2 DEF NoView
      <4>2. PICK j \in Jobs : j = y.job
        BY <4>1 DEF Shot
      <4>3. PICK x \in Job : x = y.row
        BY <4>1 DEF Shot
      <4>4. PICK rows \in Seq(Item) : rows = items[j]
        BY DEF Base, TypeOK
      <4>5. PICK new \in Seq(Item) : new = items'[j]
        BY <1>2 DEF Base, TypeOK
      <4>6. job[j].status # "absent" /\ NotAhead(x, rows)
        BY <3>2, <4>2, <4>3, <4>4 DEF ViewsAgree
      <4>7. RowsKept(rows, new)
        BY <1>1, <4>4, <4>5, <4>6, DecidedStay DEF Base
      <4>8. NotAhead(x, new) /\ job'[j].status # "absent"
        BY <1>1, <4>6, <4>7, NotAheadKept, JobsKept DEF Base
      <4>9. QED BY <4>2, <4>3, <4>5, <4>8
    <3>3. ASSUME y.step = 2 PROVE NotAhead(y.row, y.rows)
      <4>1. y \in Shot
        BY <3>1, <3>3 DEF NoView
      <4>2. QED BY <3>3, <4>1 DEF ViewsAgree, Shot
    <3> HIDE DEF y
    <3>4. QED BY <1>1, <3>1, <3>2, <3>3, ViewStep
  <2>3. QED BY <2>1, <2>2
<1>4. ASSUME NEW q \in Readers, NEW j \in Jobs, ReadJob(q, j)
      PROVE  ViewsTyped' /\ ViewsAgree'
  <2> PICK x : x = [step |-> 0, job |-> j, row |-> NoJob, rows |-> <<>>]
    OBVIOUS
  <2> DEFINE y == [x EXCEPT !.step = x.step + 1, !.row = job[x.job]]
  <2>1. x \in [step : {0}, job : {j}, row : Job, rows : Seq(Item)]
    BY NoJobTyped
  <2>2. /\ view' = [view EXCEPT ![q] = y]
        /\ UNCHANGED vars /\ job[j].status # "absent"
    BY <1>4, SelectsAre DEF ReadJob
  <2>3. /\ job[j] \in Job /\ items'[j] = items[j] /\ job'[j] = job[j]
        /\ NotAhead(job[j], items[j])
    BY <2>2, BaseAgrees DEF vars, tables
  <2>4. y \in Shot /\ y.step = 1 /\ y.job = j /\ y.row = job[j]
    <3>1. x.step = 0 /\ x.job = j
      BY <2>1
    <3>2. y = [x EXCEPT !.step = 1, !.row = job[j]]
      BY <3>1
    <3>3. QED BY <2>1, <2>3, <3>2 DEF Shot
  <2> HIDE DEF y
  <2>5. /\ y.step = 1 => job'[y.job].status # "absent" /\ NotAhead(y.row, items'[y.job])
        /\ y.step = 2 => NotAhead(y.row, y.rows)
    BY <2>2, <2>3, <2>4
  <2>6. QED BY <1>1, <2>2, <2>4, <2>5, ViewStep
<1>5. ASSUME NEW q \in Readers, NEW j \in Jobs, AnswerChange(q, j)
      PROVE  ViewsTyped' /\ ViewsAgree'
  <2> DEFINE y == [step |-> 1, job |-> j, row |-> job'[j], rows |-> <<>>]
  <2>1. view' = [view EXCEPT ![q] = y] /\ (Ask(j) \/ RetryImport(j))
    BY <1>5 DEF AnswerChange
  <2>2. job'[j] \in Job /\ NotAhead(job'[j], items'[j])
    BY <1>2, BaseAgreesAfter
  <2>3. job'[j].status # "absent"
    <3>1. job[j] \in Job
      BY DEF Base, TypeOK
    <3>2. CASE Ask(j)
      <4> DEFINE z == [job[j] EXCEPT !.status = "pending"]
      <4>1. job' = [job EXCEPT ![j] = z]
        BY <3>2 DEF Ask, CreateImportJob
      <4>2. z.status = "pending"
        BY <3>1 DEF Job
      <4> HIDE DEF z
      <4>3. QED BY <4>1, <4>2 DEF Base, TypeOK
    <3>3. CASE RetryImport(j)
      <4> DEFINE z == [job[j] EXCEPT !.status = "pending", !.attempts = 0, !.error = FALSE]
      <4>1. job' = [job EXCEPT ![j] = z]
        BY <3>3 DEF RetryImport
      <4>2. z.status = "pending"
        BY <3>1 DEF Job
      <4> HIDE DEF z
      <4>3. QED BY <4>1, <4>2 DEF Base, TypeOK
    <3>4. QED BY <2>1, <3>2, <3>3
  <2>4. y \in Shot /\ y.step = 1 /\ y.job = j /\ y.row = job'[j]
    BY <2>2 DEF Shot
  <2> HIDE DEF y
  <2>5. /\ y.step = 1 => job'[y.job].status # "absent" /\ NotAhead(y.row, items'[y.job])
        /\ y.step = 2 => NotAhead(y.row, y.rows)
    BY <2>2, <2>3, <2>4
  <2>6. QED BY <1>1, <2>1, <2>4, <2>5, ViewStep
<1>6. ASSUME NEW q \in Readers, ReadRows(q)
      PROVE  ViewsTyped' /\ ViewsAgree'
  <2> PICK x : x = view[q]
    OBVIOUS
  <2> DEFINE y == [x EXCEPT !.step = x.step + 1, !.rows = items[x.job]]
  <2>1. view' = [view EXCEPT ![q] = y] /\ x.step = 1 /\ UNCHANGED vars
    BY <1>6, SelectsAre DEF ReadRows
  <2>2. x \in Shot
    BY <2>1 DEF ViewsTyped, NoView
  <2>3. x.job \in Jobs /\ x.row \in Job /\ items[x.job] \in Seq(Item)
    BY <2>2 DEF Shot, Base, TypeOK
  <2>4. y \in Shot /\ y.step = 2 /\ y.row = x.row /\ y.rows = items[x.job]
    <3> PICK rows \in Seq(Item) : rows = items[x.job]
      BY <2>3
    <3>1. y = [x EXCEPT !.step = 2, !.rows = rows]
      BY <2>1
    <3>2. QED BY <2>2, <3>1 DEF Shot
  <2>5. NotAhead(x.row, items[x.job])
    BY <2>1, <2>3 DEF ViewsAgree
  <2> HIDE DEF y
  <2>6. /\ y.step = 1 => job'[y.job].status # "absent" /\ NotAhead(y.row, items'[y.job])
        /\ y.step = 2 => NotAhead(y.row, y.rows)
    BY <2>4, <2>5
  <2>7. QED BY <1>1, <2>1, <2>4, <2>6, ViewStep
<1>7. ASSUME NEW q \in Readers, Done(q)
      PROVE  ViewsTyped' /\ ViewsAgree'
  <2>1. NoView.step = 0 /\ view' = [view EXCEPT ![q] = NoView]
    BY <1>7 DEF Done, NoView
  <2>2. /\ NoView.step = 1 => job'[NoView.job].status # "absent"
                                /\ NotAhead(NoView.row, items'[NoView.job])
        /\ NoView.step = 2 => NotAhead(NoView.row, NoView.rows)
    BY <2>1
  <2>3. QED BY <1>1, <2>1, <2>2, ViewStep
<1>8. QED BY <1>2, <1>3, <1>4, <1>5, <1>6, <1>7 DEF IReadsNext, iviews

-----------------------------------------------------------------------------
(* Migrations only come between the sessions, and leave what is counted    *)
IMInv == /\ Base /\ ViewsTyped /\ ViewsAgree
         /\ schema \in {Initial, Attempts}
         /\ schema = Initial => Stopped

(* A job without its attempts agrees with its rows as well as before       *)
LEMMA AgreesRestarted ==
  ASSUME ImportAssumption, NEW x \in Job, NEW rows, Agrees(x, rows)
  PROVE  /\ [x EXCEPT !.attempts = 0] \in Job
         /\ Agrees([x EXCEPT !.attempts = 0], rows)
         /\ [x EXCEPT !.attempts = 0].status = x.status
         /\ x = NoJob => [x EXCEPT !.attempts = 0] = NoJob
<1> DEFINE y == [x EXCEPT !.attempts = 0]
<1>1. /\ y \in Job /\ y.status = x.status /\ y.attempts = 0
      /\ y.processed = x.processed /\ y.failed = x.failed
  BY DEF Job
<1>2. x = NoJob => y = NoJob
  BY DEF NoJob
<1> HIDE DEF y
<1>3. Agrees(y, rows)
  BY <1>1 DEF Agrees, ImportAssumption
<1>4. QED BY <1>1, <1>2, <1>3 DEF y

LEMMA MigratedBase ==
  ASSUME Base, Stopped, ImportAssumption,
         job' = [j \in Jobs |-> [job[j] EXCEPT !.attempts = 0]],
         UNCHANGED <<items, article, announced, requested, lock, claim, worker, view>>,
         waiting' \in SUBSET Jobs, ahead' \in [Jobs -> SUBSET Jobs]
  PROVE  Base' /\ Stopped'
<1>1. ASSUME NEW j \in Jobs
      PROVE  /\ job'[j] \in Job /\ job'[j].status = job[j].status
             /\ Agrees(job'[j], items'[j])
             /\ job[j] = NoJob => job'[j] = NoJob
  <2>1. job[j] \in Job /\ Agrees(job[j], items[j])
    BY DEF Base, TypeOK, Counted
  <2>2. PICK x \in Job : x = job[j]
    BY <2>1
  <2>3. PICK rows : rows = items[j]
    OBVIOUS
  <2>4. job'[j] = [x EXCEPT !.attempts = 0] /\ items'[j] = rows
    BY <2>2, <2>3
  <2>5. Agrees(x, rows)
    BY <2>1, <2>2, <2>3
  <2>6. QED BY <2>2, <2>4, <2>5, AgreesRestarted
<1>2. TypeOK'
  BY <1>1 DEF Base, TypeOK
<1>3. Stopped' /\ \A w \in Workers : worker'[w].phase = "idle"
  BY DEF Stopped, Idle
<1>4. Free \notin Workers /\ \A j \in Jobs : lock[j] \in Workers \cup {Free}
  BY DEF Base, TypeOK, ImportAssumption
<1>5. \A s \in Slugs : claim[s] \in Workers \cup {Free}
  BY DEF Base, TypeOK
<1>6. /\ \A j \in Jobs : lock'[j] = Free
      /\ \A s \in Slugs : claim'[s] = Free
  <2>1. ASSUME NEW j \in Jobs, lock[j] # Free PROVE FALSE
    BY <1>3, <1>4, <2>1 DEF Base, HolderIsCurrent, LocksHeld
  <2>2. ASSUME NEW s \in Slugs, claim[s] # Free PROVE FALSE
    BY <1>3, <1>5, <2>2 DEF Base, HolderIsCurrent, ClaimsHeld
  <2>3. QED BY <2>1, <2>2
<1>7. HolderIsCurrent'
  BY <1>3, <1>6 DEF HolderIsCurrent, LoadedCurrent, WrittenFirst, LocksHeld, ClaimsHeld
<1>8. NoDangling'
  BY <1>1, <1>3 DEF Base, NoDangling, Stopped
<1>9. ImportedOnce'
  BY DEF Base, ImportedOnce
<1>10. Counted'
  BY <1>1, ZenonT(30) DEF Counted, Agrees, Refused
<1>11. QED BY <1>2, <1>3, <1>7, <1>8, <1>9, <1>10 DEF Base

LEMMA MigratedViews ==
  ASSUME Stopped, ViewsTyped, UNCHANGED view PROVE ViewsTyped' /\ ViewsAgree'
<1>1. view' \in [Readers -> {NoView}]
  BY DEF Stopped, ViewsTyped
<1>2. QED BY <1>1 DEF ViewsTyped, ViewsAgree, NoView

LEMMA IMInvNext == ASSUME IMInv, ImportAssumption, [MigrationNext]_imvars PROVE IMInv'
<1>1. Initial # Attempts
  BY DEF Initial, Attempts
<1>2. CASE UNCHANGED imvars
  <2>1. [IReadsNext]_iviews /\ UNCHANGED <<schema, worker, view>>
    BY <1>2 DEF imvars, iviews, vars
  <2>2. QED BY <2>1, ReadsStep DEF IMInv, Stopped
<1>3. CASE Work
  <2>1. [IReadsNext]_iviews /\ schema' = schema /\ schema = Attempts
    BY <1>3 DEF Work
  <2>2. QED BY <1>1, <2>1, ReadsStep DEF IMInv
<1>4. CASE Downgrade
  <2>1. waiting' \in SUBSET Jobs /\ ahead' \in [Jobs -> SUBSET Jobs]
    BY <1>4 DEF Downgrade, IMInv, Base, TypeOK
  <2>2. Base' /\ Stopped' /\ ViewsTyped' /\ ViewsAgree'
    BY <1>4, <2>1, MigratedBase, MigratedViews DEF Downgrade, IMInv
  <2>3. QED BY <1>4, <2>2 DEF Downgrade, IMInv
<1>5. CASE Upgrade
  <2>1. waiting' \in SUBSET Jobs /\ ahead' \in [Jobs -> SUBSET Jobs]
    BY <1>5 DEF Upgrade
  <2>2. Stopped /\ job' = [j \in Jobs |-> [job[j] EXCEPT !.attempts = 0]]
    BY <1>5 DEF Upgrade, IMInv, Restarted
  <2>3. Base' /\ Stopped' /\ ViewsTyped' /\ ViewsAgree'
    BY <1>5, <2>1, <2>2, MigratedBase, MigratedViews DEF Upgrade, IMInv
  <2>4. QED BY <1>1, <1>5, <2>3 DEF Upgrade, IMInv
<1>6. QED BY <1>2, <1>3, <1>4, <1>5 DEF MigrationNext

(* What holds of the tables, the importers and the readers holds over any  *)
(* number of migrations between which they run.                            *)
THEOREM MigrationInvariant == MigrationSpec => []IMInv
<1>1. MigrationInit => IMInv
  <2> SUFFICES ASSUME MigrationInit PROVE IMInv
    OBVIOUS
  <2>1. Base
    BY ImportAssumption, InitInv, AgreesIs DEF MigrationInit, IReadsInit, IInv, Base
  <2>2. ViewsTyped /\ ViewsAgree
    BY DEF MigrationInit, IReadsInit, ViewsTyped, ViewsAgree, NoView
  <2>3. QED BY <2>1, <2>2 DEF MigrationInit, IMInv, Initial, Attempts
<1>2. IMInv /\ [MigrationNext]_imvars => IMInv'
  BY IMInvNext, ImportAssumption
<1>3. QED BY <1>1, <1>2, PTL DEF MigrationSpec

(* Whatever is committed between its two statements, no reader is shown    *)
(* progress that the rows beside it do not bear out, or a result that they *)
(* contradict.                                                             *)
THEOREM ProgressShown == MigrationSpec => []ProgressNotAhead
<1>1. IMInv => ProgressNotAhead
  <2> SUFFICES ASSUME IMInv, NEW q \in Readers, view[q].step = 2
               PROVE  NotAhead(view[q].row, view[q].rows)
    BY DEF ProgressNotAhead, NotAhead, RefusedTo
  <2>1. view[q] \in Shot
    BY DEF IMInv, ViewsTyped, NoView
  <2>2. QED BY <2>1 DEF IMInv, ViewsAgree, Shot
<1>2. QED BY <1>1, MigrationInvariant, PTL

(* An article is imported once although the job that made it was migrated. *)
THEOREM ImportedOnceThroughout == MigrationSpec => []ImportedOnce
<1>1. IMInv => ImportedOnce
  BY DEF IMInv, Base
<1>2. QED BY <1>1, MigrationInvariant, PTL

(* Only an editor's retry resumes a job that has stopped: neither a worker *)
(* that fails late nor a migration that forgets its attempts does.         *)
THEOREM StoppedStays == MigrationSpec => StoppedUntilRetry
<1>1. ASSUME IMInv, [MigrationNext]_imvars, NEW j \in Jobs,
             job[j].status = "failed", job'[j] # job[j]
      PROVE  \/ requested'[j] = requested[j] + 1
             \/ schema' # schema /\ job'[j].status = "failed"
  <2>1. TypeOK /\ HolderIsCurrent /\ job[j] \in Job
    BY <1>1 DEF IMInv, Base, TypeOK
  <2>2. CASE [Next]_vars
    <3>1. ASSUME NEW k \in Jobs, Ask(k) PROVE FALSE
      <4>1. k # j
        BY <1>1, <3>1 DEF Ask, CreateImportJob
      <4>2. QED BY <1>1, <2>1, <3>1, <4>1 DEF Ask, CreateImportJob, TypeOK
    <3>2. ASSUME NEW k \in Jobs, RetryImport(k) PROVE requested'[j] = requested[j] + 1
      <4>1. k = j
        BY <1>1, <2>1, <3>2 DEF RetryImport, TypeOK
      <4>2. QED BY <2>1, <3>2, <4>1 DEF RetryImport, TypeOK
    <3>3. ASSUME NEW w \in Workers, CommitRow(w) PROVE FALSE
      <4>1. PICK k \in Jobs : \E i \in DOMAIN items[k] : \E t \in Slugs, ok \in BOOLEAN :
              k = worker[w].job /\ items[k] \in Seq(Item) /\ CommitOf(w, k, i, t, ok)
        BY <2>1, <3>3, CommitFacts
      <4>2. job[k].status \in Active /\ \E y : job' = [job EXCEPT ![k] = y]
        BY <4>1 DEF CommitOf, IsDue
      <4>3. QED BY <1>1, <2>1, <4>2 DEF Active, TypeOK
    <3>4. ASSUME NEW w \in Workers, RecordFailure(w) PROVE FALSE
      <4> DEFINE k == worker[w].job
      <4>1. k \in Jobs /\ job' = [job EXCEPT ![k] = Charged(job[k])]
        BY <2>1, <3>4, WorkerFacts, PhaseWorks DEF RecordFailure
      <4>2. Charged(job[j]) = job[j]
        BY <1>1 DEF Charged, Active
      <4>3. QED BY <1>1, <2>1, <4>1, <4>2 DEF TypeOK
    <3>5. QED BY <1>1, <2>1, <2>2, <3>1, <3>2, <3>3, <3>4, DataKept DEF CreateArticle
  <2>3. CASE ~[Next]_vars
    <3>1. Downgrade \/ Upgrade
      BY <1>1, <2>3, ImportIsStep DEF MigrationNext, Work, imvars, iviews
    <3>2. schema' # schema /\ job' = [k \in Jobs |-> [job[k] EXCEPT !.attempts = 0]]
      BY <3>1 DEF Downgrade, Upgrade, Restarted, Initial, Attempts
    <3>3. job'[j].status = "failed"
      BY <1>1, <2>1, <3>2 DEF Job
    <3>4. QED BY <3>2, <3>3
  <2>4. QED BY <2>2, <2>3
<1>2. IMInv /\ [MigrationNext]_imvars =>
        [\A j \in Jobs : job[j].status = "failed" /\ job'[j] # job[j] =>
           \/ requested'[j] = requested[j] + 1
           \/ schema' # schema /\ job'[j].status = "failed"]_imvars
  BY <1>1
<1>3. QED BY <1>2, MigrationInvariant, PTL DEF MigrationSpec, StoppedUntilRetry
=============================================================================
