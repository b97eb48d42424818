------------------------------ MODULE Editorial ------------------------------
(***************************************************************************)
(* The editorial workflow of PublishFlow as it runs: HTTP requests and     *)
(* schedulers are database sessions over one articles table.  A request    *)
(* loads an article, later locks and re-reads its row (lock_article), then *)
(* decides and commits or rolls back; a scheduler locks a batch of due     *)
(* rows with SKIP LOCKED and publishes the batch in one commit.            *)
(*                                                                         *)
(* A statement of SQL is one step, and so is a commit with the flush that  *)
(* precedes it: at READ COMMITTED nobody sees the writes of a transaction  *)
(* before its commit, and the row lock is held to the end of it.           *)
(* An article stands for its slug, which is unique and never changes.      *)
(***************************************************************************)
EXTENDS Naturals, Sequences, FiniteSets

CONSTANTS Articles,    \* slugs
          Users,       \* active accounts
          Editors,     \* those of role editor or admin
          Requests,    \* HTTP requests that may be in progress at once
          Schedulers,  \* scheduler processes
          Free,        \* in place of a lock's owner: the row is not locked
          System,      \* in place of an actor or author: NULL
          Fields,      \* the parts of a text: title, summary, body
          Headline,    \* those copied to the article's row: title, summary
          IfMatch,     \* revisions a client may send (bounds row[a].revision)
          Horizon,     \* the last moment of the clock (a bound)
          BatchLimit   \* rows a scheduler takes at once

Sessions == Requests \cup Schedulers

ASSUME EditorialAssumption ==
  /\ Editors \subseteq Users /\ System \notin Users
  /\ Requests \cap Schedulers = {} /\ Free \notin Sessions
  /\ Headline \subseteq Fields
  /\ IfMatch \subseteq Nat \ {0}
  /\ Horizon \in Nat \ {0} /\ BatchLimit \in Nat \ {0}

VARIABLES row,       \* row[a]: the committed row of articles
          versions,  \* versions[a][v]: text of version v (article_versions)
          history,   \* history[a]: the rows of article_history, in commit order
          outbox,    \* outbox[a]: the events added to outbox_events
          lock,      \* lock[a]: the session that holds a's row FOR UPDATE
          session,   \* session[p][a]: the copy of row a that session p loaded
          call,      \* call[r]: the request in progress
          now        \* the clock of the database and its clients

tables == <<row, versions, history, outbox>>
vars == <<tables, lock, session, call, now>>

Null == 0   \* NULL in a column whose values are positive

Statuses == {"draft", "in_review", "changes_requested", "approved",
             "scheduled", "published", "archived"}
Row == [status : Statuses \cup {"absent"}, author : Users \cup {System},
        revision : Nat, current : Nat, approved : Nat, published : Nat,
        scheduledAt : Nat, headline : [Headline -> Nat]]
NoRow == [status |-> "absent", author |-> System, revision |-> 0,
          current |-> 0, approved |-> Null, published |-> Null,
          scheduledAt |-> Null, headline |-> [f \in Headline |-> 0]]

(***************************************************************************)
(* A text is told from another by the version that introduced each field.  *)
(***************************************************************************)
Text == [Fields -> Nat]
Copied(text) == [f \in Headline |-> text[f]]

EditorOps == {"approve", "request_changes", "schedule", "publish", "archive"}
Ops == {"update", "submit", "approve", "request_changes", "schedule", "publish",
        "archive"}
Call == [op : Ops, article : Articles, user : Users, ifMatch : IfMatch,
         fields : SUBSET Fields, at : 0..Horizon]
NoCall == [op |-> "none"]
Detached == [a \in Articles |-> NoRow]

Actions == {"created", "version_created", "submitted", "approved",
            "changes_requested", "scheduled", "published", "archived",
            "published_by_scheduler"}
HistoryEntry == [action : Actions, actor : Users \cup {System},
                 from : Statuses \cup {"none"}, to : Statuses \cup {"none"},
                 version : Nat]
Entry(action, actor, from, to, version) ==
  [action |-> action, actor |-> actor, from |-> from, to |-> to,
   version |-> version]

(* The type of an event is written without its prefix "article."           *)
ArticleEvent == [type : Statuses \cup {"created", "version.created"},
                 status : Statuses, version : Nat, revision : Nat,
                 approved : Nat]

(* (mutant) the payload is built before the flush fills in the defaults    *)
Event_BeforeFlush(type, x) ==
  [type |-> type, version |-> x.current, revision |-> x.revision,
   status |-> IF type = "created" THEN "absent" ELSE x.status,
   approved |-> x.approved]

(* article_payload, under the event's type                                 *)
Event(type, x) == [type |-> type, status |-> x.status, version |-> x.current,
                   revision |-> x.revision, approved |-> x.approved]

Exists(a) == row[a].status # "absent"
Held(p) == {a \in Articles : lock[a] = p}

Init ==
  /\ row = [a \in Articles |-> NoRow]
  /\ versions = [a \in Articles |-> <<>>]
  /\ history = [a \in Articles |-> <<>>]
  /\ outbox = [a \in Articles |-> <<>>]
  /\ lock = [a \in Articles |-> Free]
  /\ session = [p \in Sessions |-> Detached]
  /\ call = [r \in Requests |-> NoCall]
  /\ now = 1

-----------------------------------------------------------------------------
(***************************************************************************)
(* What the transaction of a request writes about its article: the row,    *)
(* an entry of the history and an event.                                   *)
(***************************************************************************)
Write(a, x, entry, event) ==
  /\ row' = [row EXCEPT ![a] = x]
  /\ history' = [history EXCEPT ![a] = Append(@, entry)]
  /\ outbox' = [outbox EXCEPT ![a] = Append(@, event)]

AddVersion(a, v, text) ==
  versions' = [versions EXCEPT ![a] = [u \in DOMAIN @ \cup {v} |->
                 IF u = v THEN text ELSE versions[a][u]]]

(* The end of p's transaction: commit or rollback frees every row it holds *)
Release(p) ==
  /\ lock' = [a \in Articles |-> IF lock[a] = p THEN Free ELSE lock[a]]
  /\ session' = [session EXCEPT ![p] = Detached]

(***************************************************************************)
(* create_article.  A second insert of the slug waits for the first to     *)
(* commit and is then refused with 409.                                    *)
(***************************************************************************)
CreateArticle(a, u) ==
  LET new == [NoRow EXCEPT !.status = "draft", !.author = u, !.revision = 1,
                !.current = 1, !.headline = [f \in Headline |-> 1]]
  IN /\ ~Exists(a)
     /\ Write(a, new, Entry("created", u, "none", "draft", Null),
              Event("created", new))
     /\ AddVersion(a, 1, [f \in Fields |-> 1])
     /\ UNCHANGED <<lock, session, call, now>>

(***************************************************************************)
(* A request up to the lock: the user, the If-Match header and the body    *)
(* are checked, get_article loads the row, and require_article_access      *)
(* judges the loaded copy.  A refused request leaves no trace.             *)
(***************************************************************************)
MayCall(u, op, x) ==
  /\ op \in EditorOps => u \in Editors
  /\ u \in Editors \/ x.author = u

Receive(r, c) ==
  /\ call[r] = NoCall
  /\ Exists(c.article)
  /\ MayCall(c.user, c.op, row[c.article])
  /\ (c.op = "update") <=> (c.fields # {})
  /\ (c.op = "schedule") <=> (c.at # 0)
  /\ call' = [call EXCEPT ![r] = c]
  /\ session' = [session EXCEPT ![r][c.article] = row[c.article]]
  /\ UNCHANGED <<tables, lock, now>>

(* (mutant) the row is locked but the loaded copy is kept                  *)
LockArticle_NoRefresh(r) ==
  /\ call[r] # NoCall
  /\ lock[call[r].article] = Free
  /\ lock' = [lock EXCEPT ![call[r].article] = r]
  /\ UNCHANGED <<tables, session, call, now>>

(* lock_article: db.refresh(article, with_for_update=True)                 *)
LockArticle(r) ==
  LET a == call[r].article
  IN /\ call[r] # NoCall
     /\ lock[a] = Free
     /\ lock' = [lock EXCEPT ![a] = r]
     /\ session' = [session EXCEPT ![r][a] = row[a]]
     /\ UNCHANGED <<tables, call, now>>

Copy(r) == session[r][call[r].article]
Locked(r) == call[r] # NoCall /\ lock[call[r].article] = r
Editable == {"draft", "changes_requested"}

(* (mutant) a text in review can still be edited                           *)
Accepts_EditInReview ==
  [update |-> Editable \cup {"in_review"}, submit |-> Editable,
   approve |-> {"in_review"}, request_changes |-> {"in_review"},
   schedule |-> {"approved"}, publish |-> {"approved", "scheduled"},
   archive |-> {"published"}]

(* (mutant) a text that waits for its publication can still be edited      *)
Accepts_EditScheduled ==
  [update |-> Editable \cup {"scheduled"}, submit |-> Editable,
   approve |-> {"in_review"}, request_changes |-> {"in_review"},
   schedule |-> {"approved"}, publish |-> {"approved", "scheduled"},
   archive |-> {"published"}]

(* The statuses from which each operation is not refused with 409          *)
Accepts == [update |-> Editable, submit |-> Editable,
            approve |-> {"in_review"}, request_changes |-> {"in_review"},
            schedule |-> {"approved"}, publish |-> {"approved", "scheduled"},
            archive |-> {"published"}]

(* (mutant) the revision is not compared                                   *)
Granted_AnyRevision(r) ==
  /\ Copy(r).status \in Accepts[call[r].op]
  /\ call[r].op = "schedule" => call[r].at > now

(* The request is not answered 412, 409 or 422                             *)
Granted(r) ==
  /\ Copy(r).revision = call[r].ifMatch
  /\ Copy(r).status \in Accepts[call[r].op]
  /\ call[r].op = "schedule" => call[r].at > now

(* (mutant) the session is not closed and its row stays locked             *)
EndRequest_LockLeak(r) == /\ call' = [call EXCEPT ![r] = NoCall]
                          /\ UNCHANGED <<lock, session, now>>

EndRequest(r) == /\ call' = [call EXCEPT ![r] = NoCall]
                 /\ Release(r)
                 /\ UNCHANGED now

Reject(r) == Locked(r) /\ ~Granted(r) /\ EndRequest(r) /\ UNCHANGED tables

(***************************************************************************)
(* The lock wait or a statement times out, the database or the process     *)
(* fails: the transaction is rolled back.                                  *)
(***************************************************************************)
Abort(r) == call[r] # NoCall /\ EndRequest(r) /\ UNCHANGED tables

(* (mutant) omitted fields are taken from the first version                *)
EditedText_FromFirst(a, x, fields) ==
  [f \in Fields |-> IF f \in fields THEN x.current + 1 ELSE versions[a][1][f]]

(* The fields that the client sent, the others from the current version    *)
EditedText(a, x, fields) ==
  [f \in Fields |-> IF f \in fields THEN x.current + 1
                    ELSE versions[a][x.current][f]]

UpdateArticle(r) ==
  LET a == call[r].article
      x == Copy(r)
      v == x.current + 1
      text == EditedText(a, x, call[r].fields)
      new == [x EXCEPT !.current = v, !.revision = @ + 1, !.approved = Null,
                       !.headline = Copied(text)]
  IN /\ Locked(r) /\ Granted(r) /\ call[r].op = "update"
     /\ x.current \in DOMAIN versions[a]
     /\ AddVersion(a, v, text)
     /\ Write(a, new,
              Entry("version_created", call[r].user, "none", "none", v),
              Event("version.created", new))
     /\ EndRequest(r)

(* (mutant) publication does not record which version is published         *)
Moved_NoVersion(x, to) ==
  IF to = "published"
  THEN [x EXCEPT !.revision = @ + 1, !.status = to, !.scheduledAt = Null]
  ELSE [x EXCEPT !.revision = @ + 1, !.status = to]

(* (mutant) the change of status does not count                           *)
Moved_SameRevision(x, to) ==
  IF to = "published"
  THEN [x EXCEPT !.status = to, !.published = x.approved, !.scheduledAt = Null]
  ELSE [x EXCEPT !.status = to]

(***************************************************************************)
(* transition_article, from the copy x that the handler has prepared       *)
(***************************************************************************)
Moved(x, to) ==
  IF to = "published"
  THEN [x EXCEPT !.revision = @ + 1, !.status = to, !.published = x.approved,
                 !.scheduledAt = Null]
  ELSE [x EXCEPT !.revision = @ + 1, !.status = to]

TransitionArticle(r, x, to, action) ==
  LET a == call[r].article
      new == Moved(x, to)
  IN /\ Locked(r) /\ Granted(r)
     /\ Write(a, new, Entry(action, call[r].user, x.status, to, x.current),
              Event(to, new))
     /\ EndRequest(r)
     /\ UNCHANGED versions

SubmitArticle(r) ==
  /\ call[r].op = "submit"
  /\ TransitionArticle(r, Copy(r), "in_review", "submitted")

ReviewArticle(r) ==
  \/ /\ call[r].op = "approve"
     /\ TransitionArticle(r, [Copy(r) EXCEPT !.approved = Copy(r).current],
                          "approved", "approved")
  \/ /\ call[r].op = "request_changes"
     /\ TransitionArticle(r, Copy(r), "changes_requested", "changes_requested")

ScheduleArticle(r) ==
  /\ call[r].op = "schedule"
  /\ TransitionArticle(r, [Copy(r) EXCEPT !.scheduledAt = call[r].at],
                       "scheduled", "scheduled")

PublishArticle(r) ==
  /\ call[r].op = "publish"
  /\ TransitionArticle(r, Copy(r), "published", "published")

ArchiveArticle(r) ==
  /\ call[r].op = "archive"
  /\ TransitionArticle(r, Copy(r), "archived", "archived")

-----------------------------------------------------------------------------
(***************************************************************************)
(* publish_due_articles: the select takes the earliest due rows that are   *)
(* not locked, at most BatchLimit of them; equal times are ordered by a    *)
(* random id.                                                              *)
(***************************************************************************)
Due_AnyTime(a) == row[a].status = "scheduled"   \* (mutant)
Due(a) == row[a].status = "scheduled" /\ row[a].scheduledAt <= now

SelectDue(s, S) ==
  LET open == {a \in Articles : Due(a) /\ lock[a] = Free}
  IN /\ Held(s) = {}
     /\ S # {} /\ S \subseteq open
     /\ Cardinality(S) <= BatchLimit
     /\ S # open => Cardinality(S) = BatchLimit
     /\ \A a \in S, b \in open \ S : row[a].scheduledAt <= row[b].scheduledAt
     /\ lock' = [a \in Articles |-> IF a \in S THEN s ELSE lock[a]]
     /\ session' = [session EXCEPT ![s] =
          [a \in Articles |-> IF a \in S THEN row[a] ELSE NoRow]]
     /\ UNCHANGED <<tables, call, now>>

PublishDue(s) ==
  LET S == Held(s)
      new(a) == Moved(session[s][a], "published")
      entry(a) == Entry("published_by_scheduler", System, session[s][a].status,
                        "published", Null)
  IN /\ S # {}
     /\ row' = [a \in Articles |-> IF a \in S THEN new(a) ELSE row[a]]
     /\ history' = [a \in Articles |->
          IF a \in S THEN Append(history[a], entry(a)) ELSE history[a]]
     /\ outbox' = [a \in Articles |->
          IF a \in S THEN Append(outbox[a], Event("published", new(a)))
          ELSE outbox[a]]
     /\ Release(s)
     /\ UNCHANGED <<versions, call, now>>

(* The iteration fails or the process dies: the whole batch is rolled back *)
AbortBatch(s) == Held(s) # {} /\ Release(s) /\ UNCHANGED <<tables, call, now>>

Tick == now < Horizon /\ now' = now + 1 /\ UNCHANGED <<tables, lock, session, call>>

-----------------------------------------------------------------------------
Commit(r) == \/ UpdateArticle(r) \/ SubmitArticle(r) \/ ReviewArticle(r)
             \/ ScheduleArticle(r) \/ PublishArticle(r) \/ ArchiveArticle(r)

Handle(r) == \/ \E c \in Call : Receive(r, c)
             \/ LockArticle(r) \/ Reject(r) \/ Abort(r) \/ Commit(r)

SelectSome(s) == \E S \in SUBSET Articles : SelectDue(s, S)
Schedule(s) == SelectSome(s) \/ PublishDue(s) \/ AbortBatch(s)

Next == \/ \E a \in Articles, u \in Users : CreateArticle(a, u)
        \/ \E r \in Requests : Handle(r)
        \/ \E s \in Schedulers : Schedule(s)
        \/ Tick

Spec == Init /\ [][Next]_vars

(***************************************************************************)
(* A request ends by itself or by a timeout.  SKIP LOCKED means that the   *)
(* due row may be locked each time a scheduler looks, and an iteration may *)
(* fail: both only have to succeed when they can again and again, for a    *)
(* scheduler polls for ever.                                               *)
(***************************************************************************)
Fairness ==
  /\ WF_vars(Tick)
  /\ \A r \in Requests : WF_vars(Reject(r) \/ Abort(r) \/ Commit(r))
  /\ \A s \in Schedulers : SF_vars(SelectSome(s)) /\ SF_vars(PublishDue(s))

FairSpec == Spec /\ Fairness

-----------------------------------------------------------------------------
(* Every table, session, lock and request in progress has its type; an     *)
(* event never carries the status of an article that does not exist yet.   *)
TypeOK ==
  /\ row \in [Articles -> Row]
  /\ versions = [a \in Articles |-> versions[a]]
  /\ \A a \in Articles : /\ DOMAIN versions[a] \subseteq Nat
                         /\ versions[a] \in [DOMAIN versions[a] -> Text]
  /\ history \in [Articles -> Seq(HistoryEntry)]
  /\ outbox \in [Articles -> Seq(ArticleEvent)]
  /\ lock \in [Articles -> Sessions \cup {Free}]
  /\ session \in [Sessions -> [Articles -> Row]]
  /\ call \in [Requests -> Call \cup {NoCall}]
  /\ now \in 1..Horizon

(* The session that holds a row's lock works on the committed row: what it *)
(* decided from (revision, status, version) is still so when it commits.   *)
LockOwnsCopy ==
  \A a \in Articles : lock[a] # Free =>
    /\ session[lock[a]][a] = row[a]
    /\ lock[a] \in Requests => call[lock[a]] # NoCall /\ call[lock[a]].article = a
    /\ lock[a] \in Schedulers => Due(a)

(* Rows are never deleted: a request in progress is about an article that  *)
(* is there.  With the two invariants above this is the inductive          *)
(* invariant on which every proof rests.                                   *)
CalledExist == \A r \in Requests : call[r] # NoCall => Exists(call[r].article)
IInv == TypeOK /\ LockOwnsCopy /\ CalledExist

(* The CHECK constraints of articles never refuse a commit, so no handler  *)
(* answers 500: from approval on the approved version is the current one,  *)
(* and from publication on it is the published one (models.py, Article).   *)
(* And, which no constraint says, a time is set exactly while the article  *)
(* waits for the scheduler.                                                *)
Checks(x) ==
  /\ x.status # "absent" => x.current # Null /\ x.revision # Null
  /\ x.status \in {"approved", "scheduled", "published", "archived"} =>
       x.approved = x.current
  /\ x.status \in {"published", "archived"} => x.published = x.approved
Constraints(x) == Checks(x) /\ ((x.scheduledAt # Null) <=> (x.status = "scheduled"))
ConstraintsHold == \A a \in Articles : Constraints(row[a])

(* What list_public_articles shows of an article (the join finds its text) *)
(* was approved by an editor, and nobody has written a text since.         *)
PublicIsApproved ==
  \A a \in Articles : row[a].status = "published" =>
    /\ row[a].published \in DOMAIN versions[a]
    /\ \E i \in DOMAIN history[a] :
         /\ history[a][i].action = "approved"
         /\ history[a][i].version = row[a].published
         /\ history[a][i].actor \in Editors
         /\ \A j \in i..Len(history[a]) : history[a][j].action # "version_created"

(* Every revision of an article has its own history entry and its own      *)
(* event, no revision is skipped or used twice however requests and        *)
(* schedulers interleave, and the last event shows the committed row.      *)
RevisionLedger ==
  \A a \in Articles :
    /\ Len(history[a]) = row[a].revision
    /\ Len(outbox[a]) = row[a].revision
    /\ \A n \in DOMAIN outbox[a] : outbox[a][n].revision = n
    /\ Exists(a) => outbox[a][row[a].revision] =
         Event(outbox[a][row[a].revision].type, row[a])

(* A manual publication racing the schedulers, or two schedulers, publish  *)
(* an article once: one event article.published (architecture.md, Editing).*)
PublishedOnce ==
  \A a \in Articles :
    Cardinality({n \in DOMAIN outbox[a] : outbox[a][n].type = "published"})
      = (IF row[a].published = Null THEN 0 ELSE 1)

(* No edit is lost: the versions are numbered without a gap up to the      *)
(* current one, each differs from the one before only in fields its author *)
(* sent, and the row's copy of title and summary is the current version's. *)
EditsCompose ==
  \A a \in Articles :
    /\ DOMAIN versions[a] = 1..row[a].current
    /\ \A v \in 2..row[a].current, f \in Fields :
         versions[a][v][f] \in {v, versions[a][v - 1][f]}
    /\ Exists(a) => row[a].headline = Copied(versions[a][row[a].current])

(* A stored text never changes, and while an article is in review,         *)
(* approved or later no text is added to it either.                        *)
VersionsImmutable ==
  [][\A a \in Articles :
       /\ \A v \in DOMAIN versions[a] :
            v \in DOMAIN versions'[a] /\ versions'[a][v] = versions[a][v]
       /\ versions'[a] # versions[a] =>
            row[a].status \in Editable \cup {"absent"}]_vars

(* A request changes an article only at the revision its client sent in    *)
(* If-Match, whatever was committed since the request loaded the row.      *)
DecidedAtIfMatch ==
  [][\A r \in Requests : \A a \in Held(r) :
       row'[a] # row[a] => row[a].revision = call[r].ifMatch]_vars

(* Between its select and its commit a scheduler checks nothing again, and *)
(* still publishes only articles that are scheduled and due.               *)
NeverEarly ==
  [][\A s \in Schedulers : \A a \in Held(s) :
       row'[a] # row[a] => /\ row[a].status = "scheduled"
                           /\ row[a].scheduledAt <= now
                           /\ row'[a].status = "published"]_vars

(* A scheduled article is published, by the scheduler if not by an editor, *)
(* although any iteration may find its row locked or be rolled back.       *)
ScheduledIsPublished ==
  \A a \in Articles : row[a].status = "scheduled" ~> row[a].status = "published"

(* The locked table behaves as the abstract lifecycle: every commit is one *)
(* edit or one legal change of status of one article, or one publication   *)
(* of a batch, with revision and approval moving as promised.              *)
View(x) == [status |-> x.status, revision |-> x.revision, current |-> x.current,
            approved |-> x.approved, published |-> x.published]
Lifecycle == INSTANCE ArticleLifecycle WITH
  article <- [a \in Articles |-> View(row[a])]
ImplementsLifecycle == Lifecycle!Spec
=============================================================================
