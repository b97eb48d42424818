----------------------------- MODULE ImportJobs -----------------------------
(***************************************************************************)
(* Imports as they run: an editor's request stores a job with its rows;    *)
(* workers pick jobs that are due and import at most RowsPerRun rows of    *)
(* one, each row in a transaction of its own under the lock of the job's   *)
(* row; a failure is rolled back and then recorded in a second transaction *)
(* with a delay before the next attempt; a job that failed MaxAttempts     *)
(* times waits for an editor's retry.                                      *)
(*                                                                         *)
(* A statement of SQL is one step, and so is a commit.  The articles are   *)
(* seen here through their unique slugs: which row, or which author        *)
(* (create_article), an article comes from.                                *)
(***************************************************************************)
EXTENDS Naturals, Sequences, FiniteSets

CONSTANTS Jobs,         \* import jobs that may ever be requested
          Slugs,        \* addresses of articles
          Workers,      \* importer processes
          Free,         \* in place of a worker: nobody holds it
          Nobody,       \* in place of an article's origin: no such article
          Author,       \* the article was written by hand
          MaxAttempts,  \* recorded failures after which a job stops (5)
          RowsPerRun,   \* rows imported for one pick of a job (10)
          MaxRows,      \* rows of a job (at most 100)
          MaxRequests   \* times a job is requested or retried (a bound)

ASSUME ImportAssumption ==
  /\ Free \notin Workers
  /\ Nobody # Author /\ {Nobody, Author} \cap (Jobs \X Nat) = {}
  /\ {MaxAttempts, RowsPerRun, MaxRows, MaxRequests} \subseteq Nat \ {0}

VARIABLES job,        \* job[j]: the committed row of import_jobs
          items,      \* items[j]: its rows of import_items, by position
          article,    \* article[s]: where the article of slug s comes from
          announced,  \* announced[s]: events that tell of its creation
          requested,  \* requested[j]: events content.import.requested
          waiting,    \* the jobs whose next_attempt_at is in the future
          ahead,      \* ahead[j]: due jobs with an earlier next_attempt_at
          lock,       \* lock[j]: the worker that holds j's row FOR UPDATE
          claim,      \* claim[s]: the worker that inserted s, not committed
          worker      \* worker[w]: what importer w is doing

tables == <<job, items, article, announced, requested, waiting, ahead>>
vars == <<tables, lock, claim, worker>>

Active == {"pending", "processing"}
Completed == {"completed", "completed_with_errors"}
Job == [status : Active \cup Completed \cup {"absent", "failed"},
        attempts : Nat, processed : Nat, failed : Nat,
        error : BOOLEAN]     \* error is not NULL
NoJob == [status |-> "absent", attempts |-> 0, processed |-> 0, failed |-> 0,
          error |-> FALSE]
Item == [slug : Slugs, status : {"pending", "imported", "failed"}]
Origin == {Nobody, Author} \cup (Jobs \X Nat)

(***************************************************************************)
(* An importer: idle; with a job, before it locks (or re-locks) the row;   *)
(* with the locked row loaded; with a row's statements executed; or, after *)
(* the rollback of an exception, about to record the failure.              *)
(***************************************************************************)
Working == [phase : {"picked", "loaded", "written", "broken"}, job : Jobs,
            left : Nat, item : Nat, copy : Job]
Idle == [phase |-> "idle"]
At(phase, j, left, item, copy) ==
  [phase |-> phase, job |-> j, left |-> left, item |-> item, copy |-> copy]

IsDue(j, x) == x.status \in Active /\ j \notin waiting
DueJobs == {j \in Jobs : IsDue(j, job[j])}

(* next_attempt_at is set to now or just passed: j is the last of the due  *)
Join(j) == ahead' = [ahead EXCEPT ![j] = DueJobs \ {j}]
Leave(j) == ahead' = [i \in Jobs |-> IF i = j THEN {} ELSE ahead[i] \ {j}]

Init ==
  /\ job = [j \in Jobs |-> NoJob]
  /\ items = [j \in Jobs |-> <<>>]
  /\ article = [s \in Slugs |-> Nobody]
  /\ announced = [s \in Slugs |-> 0]
  /\ requested = [j \in Jobs |-> 0]
  /\ waiting = {}
  /\ ahead = [j \in Jobs |-> {}]
  /\ lock = [j \in Jobs |-> Free]
  /\ claim = [s \in Slugs |-> Free]
  /\ worker = [w \in Workers |-> Idle]

-----------------------------------------------------------------------------
(* create_import_job: a slug may be listed twice                           *)
CreateImportJob(j, slugs) ==
  /\ job[j].status = "absent"
  /\ job' = [job EXCEPT ![j].status = "pending"]
  /\ items' = [items EXCEPT ![j] =
       [p \in DOMAIN slugs |-> [slug |-> slugs[p], status |-> "pending"]]]
  /\ requested' = [requested EXCEPT ![j] = 1]
  /\ Join(j)
  /\ UNCHANGED <<article, announced, waiting, lock, claim, worker>>

(* create_article by hand: waits for an uncommitted insert of its slug     *)
CreateArticle(s) ==
  /\ article[s] = Nobody /\ claim[s] = Free
  /\ article' = [article EXCEPT ![s] = Author]
  /\ announced' = [announced EXCEPT ![s] = @ + 1]
  /\ UNCHANGED <<job, items, requested, waiting, ahead, lock, claim, worker>>

(* retry_import: an editor resumes a job that has stopped                  *)
RetryImport(j) ==
  /\ job[j].status = "failed" /\ lock[j] = Free
  /\ requested[j] < MaxRequests
  /\ job' = [job EXCEPT ![j] = [@ EXCEPT !.status = "pending", !.attempts = 0,
                                  !.error = FALSE]]
  /\ waiting' = waiting \ {j}
  /\ requested' = [requested EXCEPT ![j] = @ + 1]
  /\ Join(j)
  /\ UNCHANGED <<items, article, announced, lock, claim, worker>>

(* The clock reaches next_attempt_at                                       *)
DelayElapses(j) ==
  /\ j \in waiting
  /\ waiting' = waiting \ {j}
  /\ IF job[j].status \in Active THEN Join(j) ELSE UNCHANGED ahead
  /\ UNCHANGED <<job, items, article, announced, requested, lock, claim, worker>>

-----------------------------------------------------------------------------
(* process_next_import: SKIP LOCKED, ordered by next_attempt_at            *)
PickJob(w, j) ==
  /\ worker[w] = Idle
  /\ j \in DueJobs /\ lock[j] = Free
  /\ \A i \in ahead[j] : lock[i] # Free
  /\ lock' = [lock EXCEPT ![j] = w]
  /\ worker' = [worker EXCEPT ![w] = At("picked", j, RowsPerRun, 0, NoJob)]
  /\ UNCHANGED <<tables, claim>>

(* The select FOR UPDATE at the head of process_import_job's loop, with    *)
(* populate_existing: the copy in the session is read again                *)
LockJob(w) ==
  LET x == worker[w]
  IN /\ x.phase = "picked"
     /\ lock[x.job] \in {Free, w}
     /\ lock' = [lock EXCEPT ![x.job] = w]
     /\ worker' = [worker EXCEPT ![w] = At("loaded", x.job, x.left, 0, job[x.job])]
     /\ UNCHANGED <<tables, claim>>

First_AnyStatus(j, p) == \* (mutant) decided rows are selected again
  /\ p \in DOMAIN items[j]
  /\ \A q \in 1..(p - 1) : items[j][q].status # "pending"
First(j, p) == /\ p \in DOMAIN items[j]
               /\ items[j][p].status = "pending"
               /\ \A q \in 1..(p - 1) : items[j][q].status # "pending"

(* (mutant) next_attempt_at is looked at only when the job is picked       *)
Workable_IgnoreDelay(x) ==
  x.copy.status \in Active /\ \E p \in DOMAIN items[x.job] : First(x.job, p)

(* The job may be continued and has a row left                             *)
Workable(x) ==
  IsDue(x.job, x.copy) /\ \E p \in DOMAIN items[x.job] : First(x.job, p)

(* The end of w's transaction                                              *)
Release(w) == /\ lock' = [j \in Jobs |-> IF lock[j] = w THEN Free ELSE lock[j]]
              /\ claim' = [s \in Slugs |-> IF claim[s] = w THEN Free ELSE claim[s]]

Return(w) ==
  /\ worker[w].phase = "loaded" /\ ~Workable(worker[w])
  /\ Release(w)
  /\ worker' = [worker EXCEPT ![w] = Idle]
  /\ UNCHANGED tables

(***************************************************************************)
(* The first pending row is inserted as an article under a savepoint.  The *)
(* insert waits for another transaction that has inserted the slug; when   *)
(* the slug is taken the savepoint alone is rolled back.                   *)
(***************************************************************************)
InsertRow(w) ==
  LET x == worker[w]
  IN /\ x.phase = "loaded" /\ Workable(x)
     /\ \E p \in DOMAIN items[x.job] :
          LET s == items[x.job][p].slug
          IN /\ First(x.job, p)
             /\ claim[s] = Free
             /\ claim' = IF article[s] = Nobody THEN [claim EXCEPT ![s] = w]
                         ELSE claim
             /\ worker' = [worker EXCEPT ![w] =
                             At("written", x.job, x.left, p, x.copy)]
     /\ UNCHANGED <<tables, lock>>

(* (mutant) the result is decided before the last row is counted           *)
Advanced_MissFailed(x, total, ok) ==
  [x EXCEPT !.processed = @ + 1, !.failed = IF ok THEN @ ELSE @ + 1,
            !.error = FALSE,
            !.status = IF x.processed + 1 < total THEN "processing"
                       ELSE IF x.failed = 0 THEN "completed"
                       ELSE "completed_with_errors"]

(* The job after one more row: attempts are kept                           *)
Advanced(x, total, ok) ==
  LET failed == IF ok THEN x.failed ELSE x.failed + 1
  IN [x EXCEPT !.processed = @ + 1, !.failed = failed, !.error = FALSE,
               !.status = IF x.processed + 1 # total THEN "processing"
                          ELSE IF failed = 0 THEN "completed"
                          ELSE "completed_with_errors"]

(* The article, its event, the row's result and the counters of the job    *)
CommitRow(w) ==
  LET x == worker[w]
      j == x.job
      s == items[j][x.item].slug
      ok == claim[s] = w
      new == Advanced(x.copy, Len(items[j]), ok)
  IN /\ x.phase = "written"
     /\ job' = [job EXCEPT ![j] = new]
     /\ items' = [items EXCEPT ![j][x.item].status =
                    IF ok THEN "imported" ELSE "failed"]
     /\ article' = IF ok THEN [article EXCEPT ![s] = <<j, x.item>>] ELSE article
     /\ announced' = IF ok THEN [announced EXCEPT ![s] = @ + 1] ELSE announced
     /\ IF new.status \in Active THEN UNCHANGED ahead ELSE Leave(j)
     /\ Release(w)
     /\ worker' = [worker EXCEPT ![w] =
          IF x.left <= 1 THEN Idle ELSE At("picked", j, x.left - 1, 0, new)]
     /\ UNCHANGED <<requested, waiting>>

(***************************************************************************)
(* An exception after the pick: the session is closed, which rolls back.   *)
(* The failure is recorded in a session of its own, where the job may have *)
(* been continued, completed or retried meanwhile.                         *)
(***************************************************************************)
Fail(w) ==
  /\ worker[w].phase \in {"picked", "loaded", "written"}
  /\ Release(w)
  /\ worker' = [worker EXCEPT ![w] = At("broken", @.job, 0, 0, NoJob)]
  /\ UNCHANGED tables

(* (mutant) the status is not looked at again                              *)
Charged_Always(x) ==
  [x EXCEPT !.attempts = @ + 1, !.error = TRUE,
            !.status = IF x.attempts + 1 >= MaxAttempts THEN "failed" ELSE @]

(* (mutant) the failure is stored but not counted                          *)
Charged_NotCounted(x) == IF x.status \in Active THEN [x EXCEPT !.error = TRUE] ELSE x

(* The job after one more recorded failure                                 *)
Charged(x) ==
  IF x.status \notin Active THEN x
  ELSE [x EXCEPT !.attempts = @ + 1, !.error = TRUE,
                 !.status = IF x.attempts + 1 >= MaxAttempts THEN "failed" ELSE @]

RecordFailure(w) ==
  LET j == worker[w].job
  IN /\ worker[w].phase = "broken" /\ lock[j] = Free
     /\ job' = [job EXCEPT ![j] = Charged(@)]
     /\ waiting' = IF Charged(job[j]) = job[j] THEN waiting ELSE waiting \cup {j}
     /\ Leave(j)
     /\ worker' = [worker EXCEPT ![w] = Idle]
     /\ UNCHANGED <<items, article, announced, requested, lock, claim>>

(* The process is killed, or the database cannot record the failure        *)
Crash(w) ==
  /\ worker[w] # Idle
  /\ Release(w)
  /\ worker' = [worker EXCEPT ![w] = Idle]
  /\ UNCHANGED tables

-----------------------------------------------------------------------------
SlugLists == UNION {[1..n -> Slugs] : n \in 1..MaxRows}

Ask(j) == \E slugs \in SlugLists : CreateImportJob(j, slugs)
Pick(w) == \E j \in Jobs : PickJob(w, j)
Step(w) == \/ Pick(w) \/ LockJob(w) \/ Return(w) \/ InsertRow(w) \/ CommitRow(w)
           \/ Fail(w) \/ RecordFailure(w) \/ Crash(w)

Next == \/ \E j \in Jobs : Ask(j) \/ RetryImport(j) \/ DelayElapses(j)
        \/ \E s \in Slugs : CreateArticle(s)
        \/ \E w \in Workers : Step(w)

Spec == Init /\ [][Next]_vars

(***************************************************************************)
(* Time passes and a worker always goes on (an importer loops for ever and *)
(* is restarted).  It may be killed at any step again and again, but not   *)
(* every time before it gets one step further; nothing is assumed of rows  *)
(* that fail each time.                                                    *)
(***************************************************************************)
Fairness ==
  /\ \A j \in Jobs : WF_vars(DelayElapses(j))
  /\ \A w \in Workers :
       /\ WF_vars(Step(w))
       /\ SF_vars(LockJob(w)) /\ SF_vars(Return(w) \/ InsertRow(w))
       /\ SF_vars(CommitRow(w) \/ RecordFailure(w))

FairSpec == Spec /\ Fairness

-----------------------------------------------------------------------------
(* Every table, lock and importer has its type, and the bounds of the code *)
(* hold of the counters.                                                   *)
TypeOK ==
  /\ job \in [Jobs -> Job]
  /\ items \in [Jobs -> Seq(Item)]
  /\ article \in [Slugs -> Origin]
  /\ announced \in [Slugs -> Nat]
  /\ requested \in [Jobs -> Nat]
  /\ waiting \in SUBSET Jobs
  /\ ahead \in [Jobs -> SUBSET Jobs]
  /\ lock \in [Jobs -> Workers \cup {Free}]
  /\ claim \in [Slugs -> Workers \cup {Free}]
  /\ worker \in [Workers -> Working \cup {Idle}]

LoadedCurrent ==
  \A w \in Workers : worker[w].phase \in {"loaded", "written"} =>
    lock[worker[w].job] = w /\ worker[w].copy = job[worker[w].job]
WrittenFirst ==
  \A w \in Workers : worker[w].phase = "written" =>
    /\ IsDue(worker[w].job, worker[w].copy)
    /\ First(worker[w].job, worker[w].item)
    /\ LET s == items[worker[w].job][worker[w].item].slug
       IN article[s] = Nobody <=> claim[s] = w
LocksHeld ==
  \A j \in Jobs : lock[j] # Free =>
    /\ worker[lock[j]].phase \in {"picked", "loaded", "written"}
    /\ worker[lock[j]].job = j
ClaimsHeld ==
  \A s \in Slugs : claim[s] # Free =>
    /\ article[s] = Nobody /\ worker[claim[s]].phase = "written"
    /\ items[worker[claim[s]].job][worker[claim[s]].item].slug = s

(* A worker that decides a row does so from the committed job and for the  *)
(* first pending row, with nobody else on that job or slug.                *)
HolderIsCurrent == LoadedCurrent /\ WrittenFirst /\ LocksHeld /\ ClaimsHeld

(* Progress and result of a job agree with its rows whatever crashed,      *)
(* failed, was retried or was charged late: the rows are decided in order, *)
(* the counters count them, a job is completed when and only when no row   *)
(* is left, and one that can stop has been charged MaxAttempts times.      *)
ProgressMatches ==
  \A j \in Jobs :
    LET x == job[j]
        refused == {p \in DOMAIN items[j] : items[j][p].status = "failed"}
    IN /\ x.processed <= Len(items[j])
       /\ \A p \in DOMAIN items[j] :
            items[j][p].status = "pending" <=> p > x.processed
       /\ x.failed = Cardinality(refused)
       /\ x.status \in Completed <=> x.processed = Len(items[j]) /\ items[j] # <<>>
       /\ x.status = "completed" => refused = {}
       /\ x.status = "completed_with_errors" => refused # {}
       /\ x.attempts <= MaxAttempts
       /\ x.status = "failed" <=> x.attempts = MaxAttempts

(* An article is created once, by one row or by one author: an imported    *)
(* row has its article and its event, and no row is refused for a slug     *)
(* that is free or that it took itself.                                    *)
ImportedOnce ==
  /\ \A j \in Jobs : \A p \in DOMAIN items[j] :
       LET origin == article[items[j][p].slug]
       IN /\ items[j][p].status = "imported" <=> origin = <<j, p>>
          /\ items[j][p].status = "failed" => origin \notin {Nobody, <<j, p>>}
  /\ \A s \in Slugs : announced[s] = (IF article[s] = Nobody THEN 0 ELSE 1)

(* What the invariants above also rest on: nothing refers to a job or to a *)
(* row that was not stored.                                                *)
NoDangling ==
  /\ \A j \in Jobs : job[j].status = "absent" =>
       job[j] = NoJob /\ items[j] = <<>>
  /\ \A w \in Workers : worker[w] # Idle =>
       job[worker[w].job].status # "absent"
  /\ \A s \in Slugs : article[s] \in Jobs \X Nat =>
       LET j == article[s][1]
           p == article[s][2]
       IN p \in DOMAIN items[j] /\ items[j][p].slug = s

IInv == /\ TypeOK /\ HolderIsCurrent /\ NoDangling
        /\ ImportedOnce /\ ProgressMatches

(* A job is not worked on while it waits for its next attempt, after its   *)
(* last row or before its retry, even by a worker that was already on it.  *)
RestsBetweenAttempts ==
  [][\A j \in Jobs : items'[j] # items[j] /\ items[j] # <<>> =>
       IsDue(j, job[j])]_vars

(* What was stored or decided is never decided again: the workers keep the *)
(* promise made to the editor, however often they fail.                    *)
State(x) == IF x.status \in Active THEN "open"
            ELSE IF x.status \in Completed THEN "finished"
            ELSE IF x.status = "failed" THEN "stopped" ELSE "none"
Promise == INSTANCE ImportPromise WITH state <- [j \in Jobs |-> State(job[j])]
KeepsPromise == Promise!Spec

(* A job that was asked for comes to an end or stops, although any row may *)
(* fail each time and workers are killed: nobody has to watch it.          *)
JobEnds == \A j \in Jobs : job[j].status \in Active ~> job[j].status \notin Active
=============================================================================
