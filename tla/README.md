# PublishFlow: specifications, model checking and proofs

TLA+ specifications of PublishFlow (`src/src/publishflow`), an editorial backend
on FastAPI, PostgreSQL and RabbitMQ. Paths below are relative to
`src/src/publishflow` unless they say otherwise. The code is the reference; each
definition of a module names, in `PROJECT.json` (`map`), the lines it models.

## 1. The system

| Part | Code | State it keeps | Operations |
|---|---|---|---|
| Editorial workflow | `services.py`, `api.py` | `articles`, `article_versions`, `article_history`, `outbox_events` | create, edit, submit, review, schedule, publish, archive |
| Scheduler | `worker/scheduler.py`, `publish_due_articles` | none of its own | select due rows, publish them in one commit |
| Import jobs | `services.py`, `api.py` (create, retry) | `import_jobs`, `import_items` and the articles they create | create, pick, import a row, record a failure, retry |
| Outbox publisher | `worker/publisher.py`, `broker.py` | `outbox_events.published_at` | publish a batch with confirms |
| Import notifications | `worker/importer.py` | queue `publishflow.imports` and its quarantine | check, quarantine, acknowledge |
| Retention | `retention.py` | old rows of `outbox_events`, a policy of the broker | look at the policies, write or remove its own, delete a batch |
| Reads | `api.py`, `services.py` | none | public list and text, lists page by page, detail, versions, jobs with their rows |
| Accounts | `security.py`, `dependencies.py`, `api.py`, `seed.py` | `users`, tokens | register, log in, check a token and a role, seed |
| Schema | `migrations/` | all tables | upgrade, downgrade |
| Test guard | `test_safety.py` | none | refuse to run tests against a real environment |

How they interact: every change of an article or a job adds its event to the
outbox in the same transaction; the publisher carries the event to RabbitMQ;
the importer takes `content.import.requested` only as a reason to wake up, for it
also polls `import_jobs`; the scheduler and the HTTP handlers meet on the rows of
`articles`, importers and the handler of a retry on the rows of `import_jobs`,
importers and authors on the unique slugs, publishers and the retention command
on the rows of the outbox, retention commands and operators on the policies of the
broker, registrations and the seed on the unique emails. Readers meet nobody: they
take no lock, and see what was committed before each of their statements.

What is hard: all of them run at once at READ COMMITTED, sessions keep objects
across statements (`expire_on_commit=False`, `autoflush=False`), some row locks
wait and others are skipped, any transaction can end in a time-out, messages
are lost and duplicated, an answer is put together from several statements, and a
call over HTTP may take effect after its caller gave up. `PROJECT.json` lists these places under `hazards`, each with
its line and the properties that watch it.

What makes each part correct:

* workflow: no lost update; a version is never rewritten; only text an editor
  approved becomes public; one publication; one history entry and one event per
  revision; a request acts only at the revision its client saw;
* scheduler: never early, never twice, in the end always;
* imports: each row decided once and in order, counters that agree with the rows,
  no work between attempts, every job ends or stops;
* outbox: nothing marked that was not routed, no duplicate without a fault, no
  message of the import queue lost, genuine requests never in quarantine;
* reads: a revision names one state, to clients that keep to the contract of `If-Match` the history is
  shown in the order of its commits,
  an answer of several statements holds together, the progress of a job is not ahead of
  its rows, a client who turns all pages misses nothing that was there;
* retention: no row is deleted before the policy is in force, nobody else's policy is
  overwritten, a failed command can be repeated;
* migrations: no upgrade is refused, none makes public what was not, a stopped job stays
  stopped;
* accounts: one per address, never taken over, and a request acts as the account of now.

## 2. Modules

| Module | What it is |
|---|---|
| `ArticleLifecycle` | abstract: an article is a versioned cell that moves along the editorial graph one revision at a time |
| `Editorial` | detailed: HTTP requests and schedulers as database sessions over locked rows |
| `EditorialProofs` | inductive invariants of `Editorial` and the theorems that follow; proof that it implements `ArticleLifecycle` |
| `ImportPromise` | abstract: the rows of a job are decided one by one, each once; a stopped job can be resumed |
| `ImportJobs` | detailed: importers over locked jobs, transactions per row, failures and retries; implements `ImportPromise` |
| `ImportProofs` | inductive invariant of `ImportJobs` and the theorems that follow; proof that it implements `ImportPromise`; theorems about the readers and the migrations of jobs |
| `OutboxPromise` | abstract: each event is delivered at least once before it is marked and never after; each copy is settled at most once |
| `Outbox` | detailed: events from the outbox to the queues, the consumer of import requests, deletion of old events; implements `OutboxPromise` |
| `OutboxProofs` | inductive invariant of `Outbox` and the theorems that follow; proof that it implements `OutboxPromise` |
| `ArticleReads` | on `Editorial`: when transactions begin, the three statements of a detail, answers after a commit, the public |
| `ReadsProofs` | `ArticleReads` implements `Editorial`, and the theorems about what readers are shown |
| `ImportReads` | on `ImportJobs`: a job and its rows in two statements, answers to a new job and a retry |
| `ArticleLists` | a list of articles page by page, with its total |
| `ListsProofs` | inductive invariant of `ArticleLists`: what is not shown yet is still to come |
| `RetentionPolicy` | the retention command step by step against the broker and operators |
| `RetentionProofs` | inductive invariant of `RetentionPolicy` and the theorems that follow |
| `ArticleMigration` | on `Editorial`: upgrade and downgrade of the articles with stopped services |
| `MigrationProofs` | what is proved of `Editorial` survives the migrations |
| `ImportMigration` | on `ImportReads`: the same for import jobs |
| `Accounts` | registration, login, tokens, the account a request acts for, the seed |
| `AccountsProofs` | inductive invariant of `Accounts` and the theorems that follow |
| `MC...` | instances for TLC, one per module that is run |

`ArticleReads`, `ArticleMigration`, `ImportReads` and `ImportMigration` extend the modules
they are about: their actions contain those of the workflow or of the importers, with what
a reader or a migration adds, so that they are compositions with the real transactions
and not with an imitation of them.

A module contains, next to some definitions, a variant marked *(mutant)*: the
definition with a plausible bug. `PROJECT.json` (`mutants`) says which property
must fail when the variant takes the definition's place.

### Editorial

A step is one SQL statement, or a commit with the flush before it. At READ
COMMITTED nobody sees a transaction's writes before its commit, so the writes of a
handler appear at once in its commit step; what matters is when it *reads* and when
it holds the row.

* `Receive` is everything up to the lock: authorisation (`require_editor`,
  `require_article_access`), the `If-Match` header, `get_article`. The row is copied into
  `session[r]`.
* `LockArticle` is `db.refresh(article, with_for_update=True)`: waits for the row, then
  re-reads it. `Reject` is the answer 412, 409 or 422; `Abort` a time-out, a failed
  statement or a dead process (rollback).
* `UpdateArticle`, `SubmitArticle`, `ReviewArticle`, `ScheduleArticle`,
  `PublishArticle`, `ArchiveArticle` decide on the *copy* `session[r]` and write the
  row from it, as the code writes the attributes of a loaded object. A stale copy
  therefore would overwrite newer data; that it never does is a theorem.
* `SelectDue` takes a batch under `SKIP LOCKED` in the order of `scheduled_at`;
  `PublishDue` writes it from the copies; `AbortBatch` rolls it back.
* A slug stands for its article. A text is a function from its fields to the version
  that introduced the field's present content, which is enough to see an edit lost.
  The schema's CHECK constraints are not guards: `ConstraintsHold` states that no
  commit would ever meet one, and with them one rule that the schema does not have: a
  `scheduled_at` is set exactly while the article waits for the scheduler.
* The row, the version, the history entry and the event of a change are written in one
  step because they are one commit of one session. That a commit is not torn is therefore assumed
  (it is PostgreSQL's promise), and no property could see it fail; the properties say
  that what is committed is complete.

Left out: the title, summary and body themselves, the reason of a review, ids,
`published_at` of an article (only its order in public lists), deletion of users
(the code has none).

### ImportJobs

An importer is `idle`, or has a job in one of four phases: `picked` (before the
`SELECT ... FOR UPDATE` at the head of the loop; it still has the lock of the pick in the
first round and has none in later rounds), `loaded` (row locked, object refreshed),
`written` (statements of one row executed, savepoint released or rolled back) and
`broken` (exception, session closed, failure not yet recorded).

* `InsertRow` and `CommitRow` are two steps because the insert of a unique slug waits for
  another uncommitted insert of it: `claim[s]` is that uncommitted insert.
* The counters are written from the session's copy of the job (`copy`), so that a
  worker that did not refresh it would lose another's update.
* `RecordFailure` is the second transaction of `process_next_import`; between `Fail` and it
  the job may be picked, finished, stopped or retried by others. `Crash` covers a
  killed process and a failure that could not be recorded.
* `next_attempt_at` is abstracted to what is compared: whether it is in the future
  (`waiting`) and, among the jobs that are due, which are earlier (`ahead`). A job that
  becomes due, is created or is retried has the latest time of all that are due. The
  length of the delay, `2**attempts` seconds up to 300, is left out: a delay ends at
  some moment (`DelayElapses`).
* An article is seen through its slug: nobody's, an author's, or row `<<j, p>>`'s. Its
  first version and history entry are written in the same transaction as the event
  counted by `announced`. Started and completed times are left out.

### Outbox

An event is its place in the order of `created_at`; since that is the start of a
transaction, events may be committed in any order (`AddOutbox`). A publisher publishes
the events of its batch one by one (`Publish`, `PublishFails`; the latter with or without
the broker having routed the event) and marks the confirmed ones in one commit. A
consumer takes any ready message (a superset of the queue's order), checks it against
the outbox, and acknowledges it, after a copy in quarantine if it does not match.
`Requeue` is a lost connection, a dead importer or a failed query: the broker makes the
message ready again. `SelectOld` and `DeleteOld` are `cleanup_batch`. The number of
attempts and the last error of an event are diagnostics that nothing reads; they are
left out. Which events are old enough to be deleted is decided here; how the command
gets to the deletion is in `RetentionPolicy`.

RabbitMQ is external: its queues are durable, a confirm means the message was routed
(the publisher sets `mandatory`), an unacknowledged message is delivered again.

`OutboxPromise` is what is left of this for those who only see events and queues: it has the rows
and the copies that were sent, settled (`acked`) and refused (`invalid`), and neither
processes, locks, batches nor faults. Its guards are what the code has to keep: `Deliver` needs a
row that is still pending, `Mark` a copy that was sent, `Settle` a copy that is not settled yet
and, for a foreign message, one more copy in quarantine.

### ArticleReads

What is added to `Editorial` is time. `created_at` of a history entry is the server's default
`now()`, the *start* of the transaction, and so `begun[p]` keeps the moment at which `p`'s
transaction began (its first statement reads the user, long before the row lock) and
`stamps[a]` what its entry got. A moment is the number of changes each article had by
then: the finest difference that the order of one article's history can show. A scheduler takes
its cut-off time just before its transaction begins; the clock does not advance from then to
its select (`TickUnpolled`), and the clocks of the containers of one host are the same.

`Known` is an assumption about clients: they send a revision, or the random id of an article, only
after an answer told them. `src/README.md` asks this of them (`If-Match` is the `revision` of an
answer of the API), but the server does not enforce it: `expected_revision` accepts any positive
number. A client that guesses the next revision, in a call whose transaction begins before
the commit of that revision, could pass the check under the lock and have its entry listed before the one it
follows. `HistoryInOrder`, and with it `HistoryShownInOrder`, holds under this assumption only; the
proof uses it in one place (`Knowing`). No other theorem rests on it.

`ReadArticle` is one statement of `get_article(details=True)`; other sessions commit between
them. `Refresh` is `db.refresh` after the commit: `reply` keeps what was written from the commit to
that moment. `ReadPublic` is the join of a published article with its published version.

### ImportReads

A job is selected before its rows (`selectinload`), except in the answers to a new job and
to a retry, where the job is the object in the session's memory (`expire_on_commit=False`) and
only the rows are loaded after the commit.

### ArticleLists

Items and total are two statements, pages are cut by `offset`. Articles begin and commit in any
order, so that one may appear in the middle of a list that is being paged. Times are taken to be
distinct: `created_at` has microseconds, and the order of equal ones is not fixed by the code.

### RetentionPolicy

A run is one invocation. Looking at the own policy, listing the others, sending the PUT or
DELETE, its execution by the broker, the answer, the select, the deletion and the report are
each a step, and a run may fail at every one. `urlopen` gives up after five seconds, so a
request may be executed when its run has failed long ago (`flight`), or never. `altered[r]` is
bookkeeping of the properties: the policies that others have changed since `r` looked. The
documents ask operators not to change the policies while the command runs; the model lets
them, and the properties say what holds even then.

### ArticleMigration and ImportMigration

`docs/architecture.md` has API and workers stopped before a migration, so it runs when no session
is open and in one transaction. `Downgraded` drops the later columns, `Upgraded` is the server's
default and the two updates by status. `kept` remembers the rows before a downgrade for
`RoundTripLossless`. Nothing is assumed about the time between two migrations. Revisions start
with 1 again, and a revision that a client kept from before could be accepted for another
state: the documents warn that revisions are lost, the code does not prevent it, and no
property is claimed about it.

### Accounts

An email is an address in some spelling. The row is read before the slow verification of
the password (`LookUp`, then `Login` or `Refuse`), and once per request before its work
(`Authenticate`, then `Answer`). An administrator works in the database: no handler changes a
role, a password or `is_active`. Hash and signature are modelled by what they accept.

## 3. Runs

Deadlock is not checked: with a bounded clock, bounded `If-Match` or all jobs done the
system may really stop.

| Run | Question | Instance |
|---|---|---|
| `race` | what two requests and a scheduler can do to one article | 1 article of title and body, 2 requests of an editor, 1 scheduler, revisions sent up to 3 |
| `polling` | the gap between select and commit; does a scheduled article become public | 2 articles in batches of 1, 2 schedulers, 1 request, revisions up to 4, clock, `FairSpec` |
| `detail` | what readers see between the commits | 1 article, 1 request, 1 scheduler, 1 reader, revisions up to 4, clock |
| `migration` | upgrade and downgrade anywhere in an article's life | 1 article, 1 request, 1 scheduler, revisions up to 4, 2 downgrades |
| `imports` | importers, authors, failures and retries | 2 jobs of 1 or 2 rows (slugs may repeat), 2 slugs, 2 workers, 2 attempts, 1 retry |
| `retries` | does every job end | the same with 1 slug and no retry, `FairSpec` |
| `convert` | a job watched, retried and migrated | 1 job of up to 2 rows, 2 workers, 1 reader, 2 downgrades |
| `delivery` | loss and duplication on the way of events and messages | 3 events, 1 foreign message, 2 publishers, 2 importers, 1 cleaner, 2 faults |
| `notify` | is everything published and handled in the end | 2 events, 1 foreign message, 2 publishers, 1 importer, 2 faults, `FairSpec` |
| `lists` | paging while articles appear | 4 articles, 3 of them the author's, pages of 2 |
| `retention` | policy and deletion under late effects | 3 runs in any mode, 3 events in batches of 2, 2 changes by an operator |
| `accounts` | registration, seed, login and change of role | 1 address in 2 spellings, 2 passwords, 2 clients, tokens of 1 time unit |

What the runs show: in all of these instances every listed property holds. `race`: no update is
lost, no CHECK constraint is hit, a request acts only at its revision, a text once
stored stays. `polling`: only due articles are
published, every commit is a step of `ArticleLifecycle`, every scheduled article becomes public.
`detail`: one approved text is published, once, also when a manual publication at the scheduled revision
races the scheduler, and when the text was edited before its review; as long as clients keep
to `Known`, the history in the order of `created_at` is the history in the order of commits, although
`created_at` is taken before the lock; a revision names one state; a detail mixed from three
moments has the texts it names and a history that leads to its status; the public never sees two
texts of an article. `migration`: no upgrade is refused, a round trip changes nothing but
revisions. `imports`, `retries`: each row is decided once, progress agrees with the rows, no work
between attempts, every job ends or stops. `convert`: the progress shown is never ahead of the rows
shown with it, and a stopped job waits for its retry even when a migration gave it its
attempts back. `delivery`, `notify`: nothing is lost, copies need faults, all is handled, and every step is one of
`OutboxPromise`. `lists`:
a client that turns the pages of a list without a status misses nothing that was there when it
began; with a status as filter articles leave the list while it is read, and one can be
missed. `retention`: rows are deleted under the policy only. `accounts`: one account per address.

Why the bounds are enough to be interesting. A lost update or a double publication needs
two sessions on one row, and a second request is always in the middle of something while
the first commits; revisions up to 3 lead from creation through submission and approval to
publication or to a schedule, with stale ones sent on the way. They lead neither to a manual publication at
the scheduled revision nor to an edited text that becomes public, which is why `PublishedOnce` and
`PublicIsApproved` are checked by `detail`: revisions up to 4 lead to both, and on to the
archive, to requested changes and to their revision. Two jobs with two
rows and two slugs contain a slug repeated within a job, shared by two jobs and taken by an
author, each with its insert waiting for the other. `MaxAttempts` 2 (5 in the code) and
`RowsPerRun` 2 (10) let a job stop, be retried and be left by a worker between two rows.
Two faults give two duplicates, or a failure during the recovery from one. Two
downgrades give a round trip after a round trip. Three runs of the retention command are
one that failed and left its request on the way, one that looks before it is executed and one after; two
changes by an operator are a policy that comes and goes. Four articles are two full pages, or
a page that grows while the next is read. Two clients and the seed are all kinds
of inserts of one email at once. What these instances do not contain is covered by proofs for
all of them: several kinds of users (an author who may not review), several
articles with different requests, batches of several rows, long cycles of edits and reviews
(`PublicationHappensOnce`, `OnlyApprovedIsPublic`, `ApprovalSurvives`).

Bounds that are not the code's: `IfMatch`, `Horizon`, `MaxRequests`, `MaxFaults`, `Changes`,
`Downgrades`; the others are parameters of the code with smaller values.

Fairness. In `Editorial`: the clock advances; a request that holds a row ends (the time-outs
of `db.py`: 3 s for a lock, 10 s for a statement); the scheduler loops for ever, and its
select and its commit succeed *again and again* (strong fairness), as a row may be locked
whenever it looks and an iteration may be rolled back. In `ImportJobs`: delays elapse; a
worker never stops for ever (loop and container restart); it may be killed at any step
any number of times, but not each time before it locks, reads, and commits or
records a failure (strong fairness). Nothing is assumed about rows that fail every
time: it is the limit on attempts that ends such jobs. No broker is modelled there: that the
workers also pick again and again while it is down is due to the `process_next_import` before each
`connect` (`worker/importer.py:55`); it is a reason for this fairness, and `JobEnds` would not notice
if that call were missing. In `Outbox`: publishers and
importers loop and faults are finitely many (`MaxFaults`); nobody has to run the
retention command.

## 4. Proofs

All proofs are checked by TLAPS, to the last leaf. Those of `EditorialProofs` hold for every
set of articles, users, requests and schedulers and every bound, from `EditorialAssumption`
alone (roles are among the users, sets of sessions are disjoint, bounds are numbers).

The inductive invariant is `IInv == TypeOK /\ LockOwnsCopy /\ CalledExist`. `TypeOK` alone
is not inductive for `UpdateArticle` without the article existing, and none of the
properties follows without `LockOwnsCopy`: the session that holds the lock of a row has
exactly the committed row as its copy, because the lock is taken with the re-read and nobody
else writes a locked row. One lemma per action shows that it preserves `IInv`
(`CreateInv`, `ReceiveInv`, `LockArticleInv`, ..., `NextInv`).

From it: `TypeCorrect`, `LockHolderIsCurrent`; `ConstraintsNeverTrip`, by the lemmas that say
what an edit, a move and a publication do to the fields of a row, with the status that
the guard found in the copy; `OptimisticLock` and `SchedulerNeverEarly`, action properties that
follow because only the owner of a lock writes its row (`OnlyOwnerWrites`); and
`LifecycleImplemented`: each commit maps to an edit, a move or a publication of
`ArticleLifecycle`, every other step to a stutter.

`ImportProofs` does the same for any number of jobs, rows,
slugs, workers, attempts and rows per run, from `ImportAssumption` (`Free` is no worker,
`Nobody` and `Author` are no rows, the limits are positive). The inductive invariant is

    IInv == TypeOK /\ HolderIsCurrent /\ NoDangling /\ ImportedOnce /\ ProgressMatches

* `HolderIsCurrent` carries the argument: a worker with a loaded row holds its lock and has
  the committed job as its copy; a written row is the first pending one of a job that is due,
  and its slug is claimed by that worker exactly when it is free. Requests cannot break it,
  because a job that is not stored yet is locked by nobody (`NoDangling`) and a retry
  takes the row's lock; workers cannot, because each writes only jobs and slugs that it
  holds (`CommitHolders`, `RecordHolders`, ...).
* `CommitFacts` restates a commit in terms of the committed tables alone. With it,
  `ImportedOnceStep` and `ProgressStep` are about tables only; the latter rests on lemmas about
  one job and its rows (`AgreesNew`, `AgreesAdvanced`, `AgreesCharged`, `AgreesRetried`), and on
  `FirstIsNext`: the first pending row is the one after those that are counted.
* `RestsKept` and `PromiseKept` follow from the same facts: each commit of a row is a
  `Decide` of `ImportPromise`, the last recorded failure and the retry are its `Turn`, the
  other steps stutter.

The same module goes on to the readers and the migrations of jobs, for any number of both.
`Base` is what is left of `IInv` when a downgrade may forget the attempts: a stopped job has
then none, and so the attempts are no longer told by the status (`Counted`). `ViewsAgree`
says of a reader between its statements that the row it has is not ahead of the rows that
are stored by then, and of one that has both that the two agree; `DecidedStay` is why it
stays so: a row once decided is never written again. A migration finds no session open
(`Stopped`) and changes only the attempts (`MigratedBase`). `ProgressShown`, `StoppedStays` and
`ImportedOnceThroughout` follow; the last is `ImportedOnce` again, now over migrations.

`OutboxProofs` holds for any number of events, foreign messages, publishers, importers, cleaners
and faults, from `OutboxAssumption` (the importers are finitely many, since the invariant
counts them). Its inductive invariant adds three parts to those that the run checks:
`RoutedWasStored`; `UnconfirmedCopies` (an event not yet confirmed has a fault for every copy
of it: that is why the next copy still needs no fault of its own); `HandledForeign` (the
copies acknowledged and those about to be are in quarantine). The proof regroups them by
subject: `Owned` for processes and events, `EventKnown` for one event, `MessagesKnown` for
the messages to importers, with one lemma for each way a message moves. `PromiseKept` maps the
steps to `OutboxPromise`: an attempt that reaches the queue is a `Deliver`, also when its confirm
is lost, because the lock keeps the row pending; a commit is a `Mark` of the confirmed events; a copy
an importer has is counted among those sent and not acknowledged (`TakenIsOpen`), so that
quarantine and acknowledgement are `Refuse` and `Settle`; locks, selections, checks,
redeliveries and aborted batches stutter.

The second half of `EditorialProofs` goes on from `IInv`. `LInv` adds the CHECK constraints and `EditorsDecide` (an
operation of editors is in progress for an editor only). `StepShape` reduces every step to what
it does to one article: nothing (`Kept`), its creation, an edit (`Rewritten`) or a change of
status (`Turned`), each of which appends one entry and one event (`Recorded`, `RecordedOnce`). From
there the proofs are about one article: `EveryRevisionRecorded`, `PublicationHappensOnce` (with
`OneEvent`: the public statuses are reached once and never left except for the archive),
`NoEditLost`, `StoredTextsKept` and `OnlyApprovedIsPublic`, whose invariant finds in the history
the approval after which no version was created, for every article that is approved or later;
and `ApprovalExpires`: an article that is neither approved nor later has no approved version.
`Workflow` is the conjunction of them all, and inductive.

`MigrationProofs` starts from `Workflow`. Its invariant `MgInv` is `Workflow` under the later schema,
and under the earlier one `Earlier`: nobody is at work, the tables say what they said
(`Sound`), and the present row is what the downgrade left of a row whose later columns were
those that the upgrade will fill in (`Derived`). The core is that the status and the
current version determine the approved and the published version in every state the
handlers can reach (`WorkflowSound`; `ApprovalExpires` and `OneEvent` are needed for it) and that nothing
else is lost without them (`SoundWorkflow`). From it `UpgradeNeverRefused`, `RoundTrip` (column
by column, `RowsEqual`), `ApprovalSurvives` and `EditsSurvive`, for any number of downgrades and any
work between them. Revisions, and with them `RevisionLedger`, do not survive a downgrade:
they start with 1 again, as docs/architecture.md says.

`ReadsProofs` first shows `ReadsAreEditorial` (`ReadsSpec => Spec`), so that the invariants above may
be used; `PublicationWatched` carries two of them over to the specification that `detail` runs. `RevisionsNameStates`: a row changes only with its revision (`Grown`).
`DetailsHoldTogether`: `StillThere` says what remains true of a row that was read once, and
each later statement of the reader finds it so. `PublicSeesOneText`: the published version never
changes once there is one. `HistoryShownInOrder` needs six parts: a request in progress is the one that
was sent (`Asking`); its client knew the revision before the transaction began (`Knowing`, from the
assumption `Known`), so that a
commit at that revision was begun after the commit before it; what a scheduler holds has
not changed since its poll began (`Holding`), because until it takes its batch nothing that is due
changes and remains due (`Looking`, `DueLater`); and the entries have the numbers 0, 1, 2, ... as
their moments (`Stamped`).

`RetentionProofs` holds for any number of runs, policies, events and changes, from
`RetentionAssumption`. Its invariant `RInv` says for each step of a run what it has seen and what may
have changed since: `OthersClear` (no covering policy of another name that is not in
`altered`), `InForce` (the own policy, once the broker has executed the request), `LookedBefore` (a
request on the way was sent by a run that saw no foreign policy), `OwnTraces` (without changes by
others there is nothing the command would refuse) and `BatchesHeld` (selected rows are there and
locked by one run).

`ListsProofs` holds for any number of articles and clients and any size of a page, from
`ListsAssumption`. Its invariant `Covers` is about a client's place in a list into which rows are
inserted: each article that was there when it began and is not shown yet has a place (the number
of rows above it, `Place`) at or after the offset of the next page, and as long as there is one, the
total it was told lies behind the pages it has read. An insertion only moves places down the list
(`PlaceGrows`), a page shows every place it covers (`CoveredFirst`), and the total counts at least the
rows up to that article (`PlaceBelow`).

`AccountsProofs` holds for any addresses, spellings, passwords and clients, from `AccountsAssumption`.
`AInv` adds to the properties that the run checks that every stored email is in lower case
(`Normalised`) and that the account a request was let in for is still there (`ServedExists`). The
first is what `OneAccount` rests on: two spellings of an address would otherwise be two rows for
the unique index.

Only model-checked: all liveness (`ScheduledIsPublished`, `JobEnds`, `PendingIsPublished`,
`RequestsAreHandled`), which with fairness and ENABLED is out of the prover's reach. Every
invariant, every action property and all three refinements that a run checks are theorems;
`LockOwnsCopy` and `HolderIsCurrent`, the cores of two inductive invariants, are proved and no
longer run. `MgInv` was model-checked in the configuration of run `migration` before it was
proved. None of the modules uses a RECURSIVE operator or an induction over data.

## 5. Not modelled

* The test environment guard (`test_safety.py`), settings, health check and request logging: pure
  checks of values or input and output, without state or concurrency.
* Deployment (containers, scripts): a restart appears as a crash after which a worker is idle.
* Lengths, patterns and formats of request bodies: pure functions of one request.
  Which requests are well formed appears where it matters (`WellFormed`, `SlugLists`).
* The order of the public list by `published_at`; TTL and length limits inside the broker; the
  lengths of delays and time-outs.
* The state of the old schema under the code of its time, which the repository does not have.

The components with their reasons are listed in `PROJECT.json`.

The code and its documents agree on everything the modules state; no divergence was met.

## 6. Plan

Done: the workflow, the imports and the outbox with their abstract specifications; reads, lists,
retention, migrations and accounts; proofs of every safety property, action property and
refinement that a run checks. Left:

1. `Delivery`: the transactions of `Editorial` and `ImportJobs` composed with `Outbox`; so far they
   meet only at the events, whose number and order `RevisionLedger` and `AddOutbox` describe.
2. More about the specifications the runs check only in parts: that `ArticleLifecycle`
   and `ImportPromise` themselves have the properties their readers expect of them.
