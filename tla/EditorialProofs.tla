--------------------------- MODULE EditorialProofs ---------------------------
(***************************************************************************)
(* Proofs about Editorial for any number of articles, users, requests and  *)
(* schedulers, any If-Match values, clock and batch size.                  *)
(***************************************************************************)
EXTENDS Editorial, FiniteSetTheorems, TLAPS

(***************************************************************************)
(* What every commit does to the three tables it writes.                   *)
(***************************************************************************)
LEMMA WriteTyped ==
  ASSUME TypeOK, NEW a \in Articles, NEW x \in Row, NEW entry \in HistoryEntry,
         NEW event \in ArticleEvent, Write(a, x, entry, event)
  PROVE  /\ row' \in [Articles -> Row]
         /\ history' \in [Articles -> Seq(HistoryEntry)]
         /\ outbox' \in [Articles -> Seq(ArticleEvent)]
<1>1. history[a] \in Seq(HistoryEntry) /\ outbox[a] \in Seq(ArticleEvent)
  BY DEF TypeOK
<1>2. /\ Append(history[a], entry) \in Seq(HistoryEntry)
      /\ Append(outbox[a], event) \in Seq(ArticleEvent)
  BY <1>1
<1>3. QED BY <1>2 DEF TypeOK, Write

LEMMA NoRowTyped == NoRow \in Row
BY DEF NoRow, Row, Null

LEMMA AddVersionTyped ==
  ASSUME TypeOK, NEW a \in Articles, NEW v \in Nat, NEW text \in Text,
         AddVersion(a, v, text)
  PROVE  /\ versions' = [b \in Articles |-> versions'[b]]
         /\ \A b \in Articles : /\ DOMAIN versions'[b] \subseteq Nat
                                /\ versions'[b] \in [DOMAIN versions'[b] -> Text]
<1>1. versions' = [b \in Articles |-> versions'[b]]
  BY DEF TypeOK, AddVersion
<1>2. ASSUME NEW b \in Articles
      PROVE  DOMAIN versions'[b] \subseteq Nat /\ versions'[b] \in [DOMAIN versions'[b] -> Text]
  <2>1. CASE b = a
    <3>1. versions'[b] = [u \in DOMAIN versions[a] \cup {v} |->
                            IF u = v THEN text ELSE versions[a][u]]
      BY <2>1 DEF TypeOK, AddVersion
    <3>2. QED BY <3>1 DEF TypeOK
  <2>2. CASE b # a
    BY <2>2 DEF TypeOK, AddVersion
  <2>3. QED BY <2>1, <2>2
<1>3. QED BY <1>1, <1>2

LEMMA ReleaseTyped ==
  ASSUME TypeOK, NEW p \in Sessions, Release(p)
  PROVE  /\ lock' \in [Articles -> Sessions \cup {Free}]
         /\ session' \in [Sessions -> [Articles -> Row]]
BY NoRowTyped DEF TypeOK, Release, Detached

(***************************************************************************)
(* A transaction that ends may have rewritten rows it held, and only those *)
(***************************************************************************)
LEMMA ReleaseOwns ==
  ASSUME IInv, NEW p \in Sessions, Release(p),
         \A a \in Articles : lock[a] # p => row'[a] = row[a],
         \A r \in Requests : r # p => call'[r] = call[r],
         now' = now
  PROVE  LockOwnsCopy'
<1> SUFFICES ASSUME NEW a \in Articles, lock'[a] # Free
             PROVE  /\ session'[lock'[a]][a] = row'[a]
                    /\ lock'[a] \in Requests =>
                         call'[lock'[a]] # NoCall /\ call'[lock'[a]].article = a
                    /\ lock'[a] \in Schedulers => Due(a)'
  BY DEF LockOwnsCopy
<1>1. lock'[a] = lock[a] /\ lock[a] # p /\ lock[a] # Free /\ row'[a] = row[a]
  BY DEF Release, IInv, TypeOK
<1>2. lock[a] \in Sessions /\ session'[lock[a]] = session[lock[a]]
  BY <1>1 DEF Release, IInv, TypeOK
<1>3. QED BY <1>1, <1>2 DEF IInv, LockOwnsCopy, Due

LEMMA EndRequestInv ==
  ASSUME IInv, EditorialAssumption, NEW r \in Requests, EndRequest(r),
         \A a \in Articles : lock[a] # r => row'[a] = row[a],
         \A a \in Articles : Exists(a) => Exists(a)'
  PROVE  /\ lock' \in [Articles -> Sessions \cup {Free}]
         /\ session' \in [Sessions -> [Articles -> Row]]
         /\ call' \in [Requests -> Call \cup {NoCall}]
         /\ now' \in 1..Horizon
         /\ LockOwnsCopy'
         /\ CalledExist'
<1>1. r \in Sessions /\ Release(r) /\ now' = now
  BY DEF EndRequest, Sessions
<1>2. call' \in [Requests -> Call \cup {NoCall}] /\ now' \in 1..Horizon
  BY DEF EndRequest, IInv, TypeOK
<1>3. LockOwnsCopy'
  <2>1. \A q \in Requests : q # r => call'[q] = call[q]
    BY DEF EndRequest, IInv, TypeOK
  <2>2. QED BY <1>1, <2>1, ReleaseOwns
<1>4. CalledExist'
  <2> SUFFICES ASSUME NEW q \in Requests, call'[q] # NoCall
               PROVE  row'[call'[q].article].status # "absent"
    BY DEF CalledExist, Exists
  <2>1. call'[q] = call[q] /\ call[q] \in Call
    BY DEF EndRequest, IInv, TypeOK
  <2>2. Exists(call[q].article) /\ call[q].article \in Articles
    BY <2>1 DEF IInv, CalledExist, Call
  <2>3. QED BY <2>1, <2>2 DEF Exists
<1>5. QED BY <1>1, <1>2, <1>3, <1>4, ReleaseTyped DEF IInv

LEMMA InitInv == ASSUME EditorialAssumption, Init PROVE IInv
<1>1. TypeOK
  BY NoRowTyped DEF Init, TypeOK, EditorialAssumption, Sessions, Detached
<1>2. LockOwnsCopy /\ CalledExist
  BY DEF Init, LockOwnsCopy, CalledExist
<1>3. QED BY <1>1, <1>2 DEF IInv

LEMMA LockedFacts ==
  ASSUME IInv, NEW r \in Requests, Locked(r)
  PROVE  /\ call[r] \in Call
         /\ call[r].article \in Articles /\ call[r].user \in Users
         /\ call[r].ifMatch \in IfMatch
         /\ lock[call[r].article] = r /\ r # Free
         /\ Copy(r) = row[call[r].article]
         /\ Copy(r) \in Row
<1> r \in Sessions BY DEF Sessions
<1>1. call[r] \in Call
  BY DEF Locked, IInv, TypeOK
<1>2. r # Free
  BY EditorialAssumption DEF EditorialAssumption
<1>3. QED BY <1>1, <1>2 DEF Locked, Call, IInv, LockOwnsCopy, Copy, TypeOK

-----------------------------------------------------------------------------
(***************************************************************************)
(* One lemma per action: each preserves the inductive invariant.           *)
(***************************************************************************)
LEMMA EntryTyped ==
  ASSUME NEW action \in Actions, NEW actor \in Users \cup {System},
         NEW from \in Statuses \cup {"none"}, NEW to \in Statuses \cup {"none"},
         NEW version \in Nat
  PROVE  Entry(action, actor, from, to, version) \in HistoryEntry
BY DEF Entry, HistoryEntry

LEMMA EventTyped ==
  ASSUME NEW type \in Statuses \cup {"created", "version.created"}, NEW x \in Row,
         x.status \in Statuses
  PROVE  Event(type, x) \in ArticleEvent
BY DEF Event, ArticleEvent, Row

LEMMA CreateInv ==
  ASSUME IInv, NEW a \in Articles, NEW u \in Users, CreateArticle(a, u)
  PROVE  IInv'
<1> DEFINE new == [NoRow EXCEPT !.status = "draft", !.author = u, !.revision = 1,
                     !.current = 1, !.headline = [f \in Headline |-> 1]]
           entry == Entry("created", u, "none", "draft", Null)
           event == Event("created", new)
<1>1. Write(a, new, entry, event)
  BY DEF CreateArticle
<1>2. new \in Row /\ new.status \in Statuses
  BY DEF NoRow, Row, Null, Statuses
<1> HIDE DEF new
<1>3. entry \in HistoryEntry /\ event \in ArticleEvent
  BY <1>2, EntryTyped, EventTyped DEF Null, Actions, Statuses
<1> HIDE DEF entry, event
<1>4. /\ row' \in [Articles -> Row]
      /\ history' \in [Articles -> Seq(HistoryEntry)]
      /\ outbox' \in [Articles -> Seq(ArticleEvent)]
      /\ row' = [row EXCEPT ![a] = new]
  BY <1>1, <1>2, <1>3, WriteTyped DEF IInv, Write
<1>5. TypeOK'
  <2>1. [f \in Fields |-> 1] \in Text BY DEF Text
  <2>2. QED BY <1>4, <2>1, AddVersionTyped DEF IInv, TypeOK, CreateArticle
<1>6. \A b \in Articles : Exists(b) => row'[b] = row[b]
  BY <1>4 DEF CreateArticle, IInv, TypeOK
<1>7. LockOwnsCopy'
  <2>1. \A b \in Articles : lock[b] # Free => Exists(b)
    <3> SUFFICES ASSUME NEW b \in Articles, lock[b] # Free PROVE Exists(b)
      OBVIOUS
    <3>1. lock[b] \in Requests \/ lock[b] \in Schedulers
      BY DEF IInv, TypeOK, Sessions
    <3>2. QED BY <3>1 DEF IInv, LockOwnsCopy, CalledExist, Exists, Due
  <2>2. QED BY <1>6, <2>1 DEF CreateArticle, IInv, LockOwnsCopy, Due
<1>8. CalledExist'
  BY <1>6 DEF CreateArticle, IInv, CalledExist, Exists, TypeOK, Call
<1>9. QED BY <1>5, <1>7, <1>8 DEF IInv

LEMMA ReceiveInv ==
  ASSUME IInv, NEW r \in Requests, NEW c \in Call, Receive(r, c)
  PROVE  IInv'
<1>1. c.article \in Articles /\ row[c.article] \in Row /\ r \in Sessions
  BY DEF Call, IInv, TypeOK, Sessions
<1>2. TypeOK'
  BY <1>1 DEF IInv, TypeOK, Receive, tables
<1>3. LockOwnsCopy'
  <2> SUFFICES ASSUME NEW a \in Articles, lock[a] # Free
               PROVE  /\ session'[lock[a]][a] = row[a]
                      /\ lock[a] \in Requests =>
                           call'[lock[a]] # NoCall /\ call'[lock[a]].article = a
                      /\ lock[a] \in Schedulers => Due(a)
    BY DEF LockOwnsCopy, Receive, tables, Due
  <2>1. lock[a] # r
    BY DEF IInv, LockOwnsCopy, Receive
  <2>2. QED BY <1>1, <2>1 DEF IInv, LockOwnsCopy, TypeOK, Receive
<1>4. CalledExist'
  BY DEF IInv, CalledExist, TypeOK, Receive, tables, Exists
<1>5. QED BY <1>2, <1>3, <1>4 DEF IInv

LEMMA LockArticleInv ==
  ASSUME IInv, EditorialAssumption, NEW r \in Requests, LockArticle(r)
  PROVE  IInv'
<1> DEFINE b == call[r].article
<1>1. r \in Sessions /\ r \notin Schedulers /\ b \in Articles
  BY DEF Sessions, EditorialAssumption, LockArticle, IInv, TypeOK, Call
<1>2. TypeOK'
  BY <1>1 DEF IInv, TypeOK, LockArticle, tables
<1>3. LockOwnsCopy'
  <2> SUFFICES ASSUME NEW a \in Articles, lock'[a] # Free
               PROVE  /\ session'[lock'[a]][a] = row[a]
                      /\ lock'[a] \in Requests =>
                           call[lock'[a]] # NoCall /\ call[lock'[a]].article = a
                      /\ lock'[a] \in Schedulers => Due(a)
    BY DEF LockOwnsCopy, LockArticle, tables, Due
  <2>1. CASE a = b
    BY <1>1, <2>1 DEF LockArticle, IInv, TypeOK
  <2>2. CASE a # b
    BY <1>1, <2>2 DEF LockArticle, IInv, TypeOK, LockOwnsCopy
  <2>3. QED BY <2>1, <2>2
<1>4. CalledExist'
  BY DEF IInv, CalledExist, LockArticle, tables, Exists
<1>5. QED BY <1>2, <1>3, <1>4 DEF IInv

LEMMA RollbackInv ==
  ASSUME IInv, EditorialAssumption, NEW r \in Requests, Reject(r) \/ Abort(r)
  PROVE  IInv'
<1>1. EndRequest(r) /\ UNCHANGED tables
  BY DEF Reject, Abort
<1>2. QED BY <1>1, EndRequestInv DEF tables, Exists, IInv, TypeOK

LEMMA EditedTextTyped ==
  ASSUME TypeOK, NEW a \in Articles, NEW x \in Row, x.current \in DOMAIN versions[a],
         NEW fields
  PROVE  EditedText(a, x, fields) \in Text
BY DEF TypeOK, EditedText, Text, Row

LEMMA UpdateInv ==
  ASSUME IInv, EditorialAssumption, NEW r \in Requests, UpdateArticle(r)
  PROVE  IInv'
<1> DEFINE a == call[r].article
           x == Copy(r)
           v == x.current + 1
           text == EditedText(a, x, call[r].fields)
           new == [x EXCEPT !.current = v, !.revision = @ + 1, !.approved = Null,
                            !.headline = Copied(text)]
           entry == Entry("version_created", call[r].user, "none", "none", v)
           event == Event("version.created", new)
<1>1. /\ Locked(r) /\ Granted(r) /\ call[r].op = "update"
      /\ x.current \in DOMAIN versions[a]
      /\ AddVersion(a, v, text)
      /\ Write(a, new, entry, event)
      /\ EndRequest(r)
  BY DEF UpdateArticle
<1>2. /\ a \in Articles /\ call[r].user \in Users /\ lock[a] = r
      /\ x \in Row /\ v \in Nat /\ x.status \in Editable
  BY <1>1, LockedFacts DEF Granted, Accepts, Row
<1>3. text \in Text
  BY <1>1, <1>2, EditedTextTyped DEF IInv
<1>4. Copied(text) \in [Headline -> Nat]
  BY <1>3, EditorialAssumption DEF Copied, Text, EditorialAssumption
<1> HIDE DEF a, x, v, text
<1>9. new \in Row /\ new.status \in Statuses
  <2>1. x.revision + 1 \in Nat /\ Null \in Nat /\ x.status \in Statuses
    BY <1>2 DEF Row, Null, Editable, Statuses
  <2>2. ASSUME NEW n \in Nat, NEW m \in Nat, NEW k \in Nat, NEW h \in [Headline -> Nat]
        PROVE  LET y == [x EXCEPT !.current = n, !.revision = m, !.approved = k,
                                  !.headline = h]
               IN y \in Row /\ y.status = x.status
    <3> DEFINE y == [x EXCEPT !.current = n, !.revision = m, !.approved = k, !.headline = h]
    <3>1. y.status = x.status
      BY <1>2 DEF Row
    <3>2. y \in Row
      BY <1>2 DEF Row
    <3>3. QED BY <3>1, <3>2
  <2>3. QED BY <1>2, <1>4, <2>1, <2>2, ZenonT(30)
<1> HIDE DEF new
<1>5. entry \in HistoryEntry /\ event \in ArticleEvent
  BY <1>2, <1>9, EntryTyped, EventTyped DEF Actions
<1> HIDE DEF entry, event
<1>6. /\ row' \in [Articles -> Row]
      /\ history' \in [Articles -> Seq(HistoryEntry)]
      /\ outbox' \in [Articles -> Seq(ArticleEvent)]
      /\ row' = [row EXCEPT ![a] = new]
  BY <1>1, <1>2, <1>9, <1>5, WriteTyped DEF IInv, Write
<1>7. \A b \in Articles : /\ lock[b] # r => row'[b] = row[b]
                          /\ Exists(b) => Exists(b)'
  BY <1>2, <1>9, <1>6 DEF IInv, TypeOK, Exists, Statuses
<1>8. QED
  BY <1>1, <1>2, <1>3, <1>6, <1>7, AddVersionTyped, EndRequestInv DEF IInv, TypeOK

LEMMA MovedTyped ==
  ASSUME NEW x \in Row, NEW to \in Statuses
  PROVE  Moved(x, to) \in Row /\ Moved(x, to).status = to
<1>1. x.revision + 1 \in Nat /\ x.approved \in Nat /\ Null \in Nat
  BY DEF Row, Null
<1>2. ASSUME NEW n \in Nat, NEW p \in Nat, NEW t \in Nat
      PROVE  LET y == [x EXCEPT !.revision = n, !.status = to, !.published = p,
                                !.scheduledAt = t]
             IN y \in Row /\ y.status = to
  <2> DEFINE y == [x EXCEPT !.revision = n, !.status = to, !.published = p, !.scheduledAt = t]
  <2>1. y.status = to
    BY DEF Row
  <2>2. y \in Row
    BY DEF Row
  <2>3. QED BY <2>1, <2>2
<1>3. \A n \in Nat : LET y == [x EXCEPT !.revision = n, !.status = to]
                     IN y \in Row /\ y.status = to
  BY DEF Row
<1>4. QED BY <1>1, <1>2, <1>3 DEF Moved

(***************************************************************************)
(* transition_article from any copy x prepared by its caller               *)
(***************************************************************************)
LEMMA TransitionInv ==
  ASSUME IInv, EditorialAssumption, NEW r \in Requests, NEW x \in Row,
         x.status \in Statuses, NEW to \in Statuses, NEW action \in Actions,
         TransitionArticle(r, x, to, action)
  PROVE  IInv'
<1> DEFINE a == call[r].article
           new == Moved(x, to)
           entry == Entry(action, call[r].user, x.status, to, x.current)
           event == Event(to, new)
<1>1. /\ Locked(r)
      /\ Write(a, new, entry, event)
      /\ EndRequest(r)
      /\ UNCHANGED versions
  BY DEF TransitionArticle
<1>2. a \in Articles /\ call[r].user \in Users /\ lock[a] = r
  BY <1>1, LockedFacts
<1>3. new \in Row /\ new.status \in Statuses
  BY MovedTyped
<1> HIDE DEF a, new
<1>4. entry \in HistoryEntry /\ event \in ArticleEvent
  <2>1. x.current \in Nat BY DEF Row
  <2>2. QED BY <1>2, <1>3, <2>1, EntryTyped, EventTyped
<1> HIDE DEF entry, event
<1>5. /\ row' \in [Articles -> Row]
      /\ history' \in [Articles -> Seq(HistoryEntry)]
      /\ outbox' \in [Articles -> Seq(ArticleEvent)]
      /\ row' = [row EXCEPT ![a] = new]
  BY <1>1, <1>2, <1>3, <1>4, WriteTyped DEF IInv, Write
<1>6. \A b \in Articles : /\ lock[b] # r => row'[b] = row[b]
                          /\ Exists(b) => Exists(b)'
  BY <1>2, <1>3, <1>5 DEF IInv, TypeOK, Exists, Statuses
<1>7. QED
  BY <1>1, <1>5, <1>6, EndRequestInv DEF IInv, TypeOK

LEMMA CommitInv ==
  ASSUME IInv, EditorialAssumption, NEW r \in Requests, Commit(r)
  PROVE  IInv'
<1>1. CASE UpdateArticle(r)
  BY <1>1, UpdateInv
<1>2. CASE \E x, to, action : TransitionArticle(r, x, to, action)
  <2>1. Locked(r) /\ Granted(r)
    BY <1>2 DEF TransitionArticle
  <2>2. /\ Copy(r) \in Row /\ Copy(r).status \in Statuses
        /\ [Copy(r) EXCEPT !.approved = Copy(r).current] \in Row
        /\ [Copy(r) EXCEPT !.approved = Copy(r).current].status \in Statuses
    <3>1. call[r] \in Call /\ Copy(r) \in Row
      BY <2>1, LockedFacts
    <3>2. Copy(r).status \in Statuses
      BY <2>1, <3>1 DEF Granted, Accepts, Call, Ops, EditorOps, Editable, Statuses
    <3>3. QED BY <3>1, <3>2 DEF Row
  <2>3. \A n \in Nat : /\ [Copy(r) EXCEPT !.scheduledAt = n] \in Row
                       /\ [Copy(r) EXCEPT !.scheduledAt = n].status \in Statuses
    BY <2>2 DEF Row
  <2>4. call[r].at \in Nat
    BY <2>1, LockedFacts, EditorialAssumption DEF Call, EditorialAssumption
  <2>5. {"in_review", "approved", "changes_requested", "scheduled", "published",
         "archived"} \subseteq Statuses
        /\ {"submitted", "approved", "changes_requested", "scheduled", "published",
            "archived"} \subseteq Actions
    BY DEF Statuses, Actions
  <2>6. CASE SubmitArticle(r)
    BY <2>2, <2>5, <2>6, TransitionInv DEF SubmitArticle
  <2>7. CASE ReviewArticle(r)
    BY <2>2, <2>5, <2>7, TransitionInv DEF ReviewArticle
  <2>8. CASE ScheduleArticle(r)
    BY <2>3, <2>4, <2>5, <2>8, TransitionInv DEF ScheduleArticle
  <2>9. CASE PublishArticle(r)
    BY <2>2, <2>5, <2>9, TransitionInv DEF PublishArticle
  <2>10. CASE ArchiveArticle(r)
    BY <2>2, <2>5, <2>10, TransitionInv DEF ArchiveArticle
  <2>11. CASE UpdateArticle(r)
    BY <1>1, <2>11
  <2>12. QED BY <2>6, <2>7, <2>8, <2>9, <2>10, <2>11 DEF Commit
<1>3. QED
  BY <1>1, <1>2 DEF Commit, SubmitArticle, ReviewArticle, ScheduleArticle,
                    PublishArticle, ArchiveArticle

LEMMA SelectDueInv ==
  ASSUME IInv, EditorialAssumption, NEW s \in Schedulers,
         NEW S \in SUBSET Articles, SelectDue(s, S)
  PROVE  IInv'
<1>1. s \in Sessions /\ s \notin Requests
  BY DEF Sessions, EditorialAssumption
<1>2. [a \in Articles |-> IF a \in S THEN row[a] ELSE NoRow] \in [Articles -> Row]
  BY NoRowTyped DEF IInv, TypeOK
<1>3. TypeOK'
  BY <1>1, <1>2 DEF IInv, TypeOK, SelectDue, tables
<1>4. LockOwnsCopy'
  <2> SUFFICES ASSUME NEW a \in Articles, lock'[a] # Free
               PROVE  /\ session'[lock'[a]][a] = row[a]
                      /\ lock'[a] \in Requests =>
                           call[lock'[a]] # NoCall /\ call[lock'[a]].article = a
                      /\ lock'[a] \in Schedulers => Due(a)
    BY DEF LockOwnsCopy, SelectDue, tables, Due
  <2>1. CASE a \in S
    BY <1>1, <2>1 DEF SelectDue, IInv, TypeOK
  <2>2. CASE a \notin S
    <3>1. lock'[a] = lock[a] /\ lock[a] # s
      BY <2>2 DEF SelectDue, Held
    <3>2. QED BY <1>1, <3>1 DEF SelectDue, IInv, TypeOK, LockOwnsCopy
  <2>3. QED BY <2>1, <2>2
<1>5. CalledExist'
  BY DEF IInv, CalledExist, SelectDue, tables, Exists
<1>6. QED BY <1>3, <1>4, <1>5 DEF IInv

LEMMA SchedulerHolds ==
  ASSUME IInv, NEW s \in Schedulers, NEW a \in Held(s)
  PROVE  /\ a \in Articles /\ s # Free
         /\ session[s][a] = row[a] /\ row[a] \in Row /\ Due(a)
         /\ Moved(session[s][a], "published") \in Row
         /\ Moved(session[s][a], "published").status = "published"
<1>1. a \in Articles /\ lock[a] = s /\ s \in Sessions
  BY DEF Held, Sessions
<1>2. s # Free
  BY <1>1, EditorialAssumption DEF EditorialAssumption
<1>3. session[s][a] = row[a] /\ row[a] \in Row /\ Due(a)
  BY <1>1, <1>2 DEF IInv, TypeOK, LockOwnsCopy
<1>4. "published" \in Statuses
  BY DEF Statuses
<1>5. QED BY <1>1, <1>2, <1>3, <1>4, MovedTyped

LEMMA PublishDueInv ==
  ASSUME IInv, EditorialAssumption, NEW s \in Schedulers, PublishDue(s)
  PROVE  IInv'
<1> DEFINE new(a) == Moved(session[s][a], "published")
           entry(a) == Entry("published_by_scheduler", System,
                             session[s][a].status, "published", Null)
           event(a) == Event("published", new(a))
<1>1. s \in Sessions /\ s \notin Requests /\ Release(s)
  BY DEF Sessions, EditorialAssumption, PublishDue
<1>2. ASSUME NEW a \in Held(s)
      PROVE  new(a) \in Row /\ entry(a) \in HistoryEntry /\ event(a) \in ArticleEvent
  <2>1. /\ session[s][a].status \in Statuses /\ new(a) \in Row
        /\ new(a).status \in Statuses
    BY SchedulerHolds DEF Due, Statuses
  <2> HIDE DEF new
  <2>2. QED BY <2>1, EntryTyped, EventTyped DEF Actions, Statuses, Null
<1> HIDE DEF new, entry, event
<1>3. row' = [a \in Articles |-> IF a \in Held(s) THEN new(a) ELSE row[a]]
  BY DEF PublishDue, new
<1>4. row' \in [Articles -> Row]
  BY <1>2, <1>3 DEF IInv, TypeOK
<1>5. history' \in [Articles -> Seq(HistoryEntry)]
  <2>1. \A a \in Held(s) : Append(history[a], entry(a)) \in Seq(HistoryEntry)
    BY <1>2 DEF IInv, TypeOK, Held
  <2>2. QED BY <2>1 DEF IInv, TypeOK, PublishDue, entry
<1>6. outbox' \in [Articles -> Seq(ArticleEvent)]
  <2>1. \A a \in Held(s) : Append(outbox[a], event(a)) \in Seq(ArticleEvent)
    BY <1>2 DEF IInv, TypeOK, Held
  <2>2. QED BY <2>1 DEF IInv, TypeOK, PublishDue, event, new
<1>7. TypeOK'
  BY <1>1, <1>4, <1>5, <1>6, ReleaseTyped DEF IInv, TypeOK, PublishDue
<1>8. LockOwnsCopy'
  <2>1. \A a \in Articles : lock[a] # s => row'[a] = row[a]
    BY <1>3 DEF Held
  <2>2. QED BY <1>1, <2>1, ReleaseOwns DEF PublishDue
<1>9. CalledExist'
  <2>1. ASSUME NEW a \in Articles, Exists(a)  PROVE row'[a].status # "absent"
    BY <2>1, <1>3, SchedulerHolds DEF Exists, new
  <2>2. QED BY <2>1 DEF IInv, CalledExist, PublishDue, Exists, TypeOK, Call
<1>10. QED BY <1>7, <1>8, <1>9 DEF IInv

LEMMA AbortBatchInv ==
  ASSUME IInv, NEW s \in Schedulers, AbortBatch(s)
  PROVE  IInv'
<1>1. s \in Sessions /\ Release(s) /\ UNCHANGED <<tables, call, now>>
  BY DEF Sessions, AbortBatch
<1>2. TypeOK' /\ CalledExist'
  BY <1>1, ReleaseTyped DEF IInv, TypeOK, CalledExist, Exists, tables
<1>3. LockOwnsCopy'
  BY <1>1, ReleaseOwns DEF tables
<1>4. QED BY <1>2, <1>3 DEF IInv

LEMMA TickInv == ASSUME IInv, EditorialAssumption, Tick PROVE IInv'
<1>1. TypeOK' /\ CalledExist'
  BY DEF IInv, TypeOK, CalledExist, Exists, Tick, tables, EditorialAssumption
<1>2. LockOwnsCopy'
  <2>1. \A a \in Articles : Due(a) => Due(a)'
    BY DEF Due, Tick, tables, IInv, TypeOK, Row
  <2>2. QED BY <2>1 DEF IInv, LockOwnsCopy, Tick, tables
<1>3. QED BY <1>1, <1>2 DEF IInv

-----------------------------------------------------------------------------
LEMMA NextInv ==
  ASSUME IInv, EditorialAssumption, [Next]_vars
  PROVE  IInv'
<1>1. CASE \E a \in Articles, u \in Users : CreateArticle(a, u)
  BY <1>1, CreateInv
<1>2. CASE \E r \in Requests : Handle(r)
  BY <1>2, ReceiveInv, LockArticleInv, RollbackInv, CommitInv DEF Handle
<1>3. CASE \E s \in Schedulers : Schedule(s)
  BY <1>3, SelectDueInv, PublishDueInv, AbortBatchInv DEF Schedule, SelectSome
<1>4. CASE Tick
  BY <1>4, TickInv
<1>5. CASE UNCHANGED vars
  BY <1>5 DEF IInv, TypeOK, LockOwnsCopy, CalledExist, Exists, Due, vars, tables
<1>6. QED BY <1>1, <1>2, <1>3, <1>4, <1>5 DEF Next

(* The inductive invariant: types, and every lock's owner working on the   *)
(* committed row, however requests, schedulers, time-outs and crashes mix. *)
THEOREM InductiveInvariant == Spec => []IInv
<1>1. Init => IInv
  BY InitInv, EditorialAssumption
<1>2. IInv /\ [Next]_vars => IInv'
  BY NextInv, EditorialAssumption
<1>3. QED BY <1>1, <1>2, PTL DEF Spec

(* Tables, locks, sessions and requests keep their types.                  *)
THEOREM TypeCorrect == Spec => []TypeOK
<1>1. IInv => TypeOK
  BY DEF IInv
<1>2. QED BY <1>1, InductiveInvariant, PTL

(* A session that holds a lock has the committed row before it.            *)
THEOREM LockHolderIsCurrent == Spec => []LockOwnsCopy
<1>1. IInv => LockOwnsCopy
  BY DEF IInv
<1>2. QED BY <1>1, InductiveInvariant, PTL

-----------------------------------------------------------------------------
(***************************************************************************)
(* What each commit of a request does to its article's row: it is computed *)
(* from the committed row itself, because of LockOwnsCopy.                 *)
(***************************************************************************)
Edited(x, y) ==
  /\ x.status \in Editable
  /\ \E h \in [Headline -> Nat] :
       y = [x EXCEPT !.current = x.current + 1, !.revision = @ + 1,
                     !.approved = Null, !.headline = h]

Stepped(x, y) ==
  \/ x.status \in Editable /\ y = Moved(x, "in_review")
  \/ /\ x.status = "in_review"
     /\ y = Moved([x EXCEPT !.approved = x.current], "approved")
  \/ x.status = "in_review" /\ y = Moved(x, "changes_requested")
  \/ /\ x.status = "approved"
     /\ \E t \in Nat \ {0} : y = Moved([x EXCEPT !.scheduledAt = t], "scheduled")
  \/ x.status \in {"approved", "scheduled"} /\ y = Moved(x, "published")
  \/ x.status = "published" /\ y = Moved(x, "archived")

LEMMA CommitStep ==
  ASSUME IInv, EditorialAssumption, NEW r \in Requests, Commit(r)
  PROVE  \E a \in Articles : \E y :
           /\ a = call[r].article /\ lock[a] = r
           /\ row[a].revision = call[r].ifMatch
           /\ row' = [row EXCEPT ![a] = y]
           /\ Edited(row[a], y) \/ Stepped(row[a], y)
<1> DEFINE a == call[r].article
           x == row[a]
<1>1. Locked(r) /\ Granted(r)
  BY DEF Commit, UpdateArticle, TransitionArticle, SubmitArticle, ReviewArticle,
         ScheduleArticle, PublishArticle, ArchiveArticle
<1>2. /\ call[r] \in Call /\ a \in Articles /\ lock[a] = r
      /\ Copy(r) = x /\ x \in Row
  BY <1>1, LockedFacts
<1>3. x.revision = call[r].ifMatch /\ x.status \in Accepts[call[r].op]
  BY <1>1, <1>2 DEF Granted
<1>4. CASE UpdateArticle(r)
  <2> DEFINE text == EditedText(a, x, call[r].fields)
             y == [x EXCEPT !.current = x.current + 1, !.revision = @ + 1,
                            !.approved = Null, !.headline = Copied(text)]
  <2>1. row' = [row EXCEPT ![a] = y] /\ x.status \in Editable
    <3> DEFINE z == Copy(r)
    <3>1. /\ call[r].op = "update"
          /\ row' = [row EXCEPT ![a] =
               [z EXCEPT !.current = z.current + 1, !.revision = @ + 1, !.approved = Null,
                 !.headline = Copied(EditedText(a, z, call[r].fields))]]
      BY <1>4 DEF UpdateArticle, Write
    <3>2. z = x
      BY <1>2
    <3>3. x.status \in Editable
      BY <1>3, <3>1 DEF Accepts
    <3> HIDE DEF z
    <3>4. QED BY <3>1, <3>2, <3>3
  <2>2. text \in Text
    BY <1>2, <1>4, EditedTextTyped DEF UpdateArticle, IInv
  <2>3. Copied(text) \in [Headline -> Nat]
    BY <2>2, EditorialAssumption DEF Copied, Text, EditorialAssumption
  <2> HIDE DEF text
  <2>4. Edited(x, y)
    BY <2>1, <2>3 DEF Edited
  <2>5. QED BY <1>2, <1>3, <2>1, <2>4
<1>5. CASE SubmitArticle(r)
  <2>1. x.status \in Editable /\ row' = [row EXCEPT ![a] = Moved(x, "in_review")]
    BY <1>2, <1>3, <1>5 DEF SubmitArticle, TransitionArticle, Write, Accepts
  <2>2. QED BY <1>2, <1>3, <2>1 DEF Stepped
<1>6. CASE ReviewArticle(r)
  <2>1. x.status = "in_review"
    BY <1>2, <1>3, <1>6 DEF ReviewArticle, Accepts
  <2>2. \/ row' = [row EXCEPT ![a] = Moved([x EXCEPT !.approved = x.current], "approved")]
        \/ row' = [row EXCEPT ![a] = Moved(x, "changes_requested")]
    BY <1>2, <1>6 DEF ReviewArticle, TransitionArticle, Write
  <2>3. QED BY <1>2, <1>3, <2>1, <2>2 DEF Stepped
<1>7. CASE ScheduleArticle(r)
  <2>1. x.status = "approved"
    BY <1>2, <1>3, <1>7 DEF ScheduleArticle, Accepts
  <2>2. call[r].at \in Nat \ {0}
    <3>1. call[r].at \in Nat /\ now \in Nat /\ call[r].at > now
      BY <1>1, <1>2, <1>7, EditorialAssumption
      DEF ScheduleArticle, Granted, Call, IInv, TypeOK, EditorialAssumption
    <3>2. QED BY <3>1
  <2>3. row' = [row EXCEPT ![a] = Moved([x EXCEPT !.scheduledAt = call[r].at], "scheduled")]
    BY <1>2, <1>7 DEF ScheduleArticle, TransitionArticle, Write
  <2>4. QED BY <1>2, <1>3, <2>1, <2>2, <2>3 DEF Stepped
<1>8. CASE PublishArticle(r)
  <2>1. /\ x.status \in {"approved", "scheduled"}
        /\ row' = [row EXCEPT ![a] = Moved(x, "published")]
    BY <1>2, <1>3, <1>8 DEF PublishArticle, TransitionArticle, Write, Accepts
  <2>2. QED BY <1>2, <1>3, <2>1 DEF Stepped
<1>9. CASE ArchiveArticle(r)
  <2>1. x.status = "published" /\ row' = [row EXCEPT ![a] = Moved(x, "archived")]
    BY <1>2, <1>3, <1>9 DEF ArchiveArticle, TransitionArticle, Write, Accepts
  <2>2. QED BY <1>2, <1>3, <2>1 DEF Stepped
<1>10. QED BY <1>4, <1>5, <1>6, <1>7, <1>8, <1>9 DEF Commit

LEMMA EditedFields ==
  ASSUME NEW x \in Row, NEW y, Edited(x, y)
  PROVE  /\ y \in Row /\ x.status \in Editable /\ y.status = x.status
         /\ y.current = x.current + 1 /\ y.revision = x.revision + 1
         /\ y.approved = Null /\ y.published = x.published
         /\ y.scheduledAt = x.scheduledAt
<1>1. x.current + 1 \in Nat /\ x.revision + 1 \in Nat /\ Null \in Nat
  BY DEF Row, Null
<1>2. \A n, m, k \in Nat : \A h \in [Headline -> Nat] :
        LET z == [x EXCEPT !.current = n, !.revision = m, !.approved = k, !.headline = h]
        IN z \in Row
  BY DEF Row
<1>3. \A n, m, k, h :
        LET z == [x EXCEPT !.current = n, !.revision = m, !.approved = k, !.headline = h]
        IN /\ z.status = x.status /\ z.current = n /\ z.revision = m
           /\ z.approved = k /\ z.published = x.published
           /\ z.scheduledAt = x.scheduledAt
  BY DEF Row
<1> PICK h \in [Headline -> Nat] :
      y = [x EXCEPT !.current = x.current + 1, !.revision = x.revision + 1,
                    !.approved = Null, !.headline = h]
  BY DEF Edited
<1>4. y \in Row
  BY <1>1, <1>2
<1>5. x.status \in Editable
  BY DEF Edited
<1>6. QED BY <1>3, <1>4, <1>5

LEMMA MovedFields ==
  ASSUME NEW x \in Row, NEW to \in Statuses
  PROVE  LET y == Moved(x, to) IN
         /\ y \in Row /\ y.status = to /\ y.current = x.current
         /\ y.revision = x.revision + 1 /\ y.approved = x.approved
         /\ y.published = (IF to = "published" THEN x.approved ELSE x.published)
         /\ y.scheduledAt = (IF to = "published" THEN Null ELSE x.scheduledAt)
<1>1. Moved(x, to) \in Row /\ Moved(x, to).status = to
  BY MovedTyped
<1>2. CASE to = "published"
  BY <1>1, <1>2 DEF Moved, Row
<1>3. CASE to # "published"
  BY <1>1, <1>3 DEF Moved, Row
<1>4. QED BY <1>2, <1>3

(* Every way of stepping, as the row that Moved starts from.               *)
LEMMA SteppedFields ==
  ASSUME NEW x \in Row, NEW y, Stepped(x, y)
  PROVE  \E z \in Row, to \in Statuses :
           /\ y = Moved(z, to)
           /\ z.status = x.status /\ z.current = x.current
           /\ z.revision = x.revision /\ z.published = x.published
           /\ z.approved = (IF to = "approved" THEN x.current ELSE x.approved)
           /\ to # "scheduled" => z.scheduledAt = x.scheduledAt
           /\ to = "scheduled" => z.scheduledAt \in Nat \ {0}
           /\ \/ <<x.status, to>> \in Lifecycle!Edges
              \/ to = "published" /\ x.status \in {"approved", "scheduled"}
<1>1. {"in_review", "approved", "changes_requested", "scheduled", "published",
       "archived"} \subseteq Statuses
  BY DEF Statuses
<1>2. CASE x.status = "in_review" /\ y = Moved([x EXCEPT !.approved = x.current], "approved")
  <2> DEFINE z == [x EXCEPT !.approved = x.current]
  <2>1. /\ z \in Row /\ z.status = x.status /\ z.current = x.current
        /\ z.revision = x.revision /\ z.published = x.published
        /\ z.approved = x.current /\ z.scheduledAt = x.scheduledAt
    BY DEF Row
  <2> HIDE DEF z
  <2>2. y = Moved(z, "approved")
    BY <1>2 DEF z
  <2>3. QED BY <1>1, <1>2, <2>1, <2>2 DEF Lifecycle!Edges
<1>3. CASE /\ x.status = "approved"
           /\ \E t \in Nat \ {0} : y = Moved([x EXCEPT !.scheduledAt = t], "scheduled")
  <2> PICK t \in Nat \ {0} : y = Moved([x EXCEPT !.scheduledAt = t], "scheduled")
    BY <1>3
  <2> DEFINE z == [x EXCEPT !.scheduledAt = t]
  <2>1. /\ z \in Row /\ z.status = x.status /\ z.current = x.current
        /\ z.revision = x.revision /\ z.published = x.published
        /\ z.approved = x.approved /\ z.scheduledAt = t
    BY DEF Row
  <2>2. y = Moved(z, "scheduled")
    OBVIOUS
  <2> HIDE DEF z
  <2>3. QED BY <1>1, <1>3, <2>1, <2>2 DEF Lifecycle!Edges
<1>4. CASE x.status \in Editable /\ y = Moved(x, "in_review")
  BY <1>1, <1>4 DEF Editable, Lifecycle!Edges
<1>5. CASE x.status = "in_review" /\ y = Moved(x, "changes_requested")
  BY <1>1, <1>5 DEF Lifecycle!Edges
<1>6. CASE x.status \in {"approved", "scheduled"} /\ y = Moved(x, "published")
  BY <1>1, <1>6
<1>7. CASE x.status = "published" /\ y = Moved(x, "archived")
  BY <1>1, <1>7 DEF Lifecycle!Edges
<1>8. QED BY <1>2, <1>3, <1>4, <1>5, <1>6, <1>7 DEF Stepped

LEMMA ConstraintsStep ==
  ASSUME NEW x \in Row, Constraints(x), NEW y, Edited(x, y) \/ Stepped(x, y)
  PROVE  y \in Row /\ Constraints(y)
<1>1. CASE Edited(x, y)
  <2>1. x.current + 1 # Null /\ x.revision + 1 # Null
    BY DEF Row, Null
  <2>2. QED BY <1>1, <2>1, EditedFields DEF Constraints, Checks, Editable
<1>2. CASE Stepped(x, y)
  <2>1. x.revision + 1 # Null
    BY DEF Row, Null
  <2> PICK z \in Row, to \in Statuses :
           /\ y = Moved(z, to)
           /\ z.status = x.status /\ z.current = x.current
           /\ z.revision = x.revision /\ z.published = x.published
           /\ z.approved = (IF to = "approved" THEN x.current ELSE x.approved)
           /\ to # "scheduled" => z.scheduledAt = x.scheduledAt
           /\ to = "scheduled" => z.scheduledAt \in Nat \ {0}
           /\ \/ <<x.status, to>> \in Lifecycle!Edges
              \/ to = "published" /\ x.status \in {"approved", "scheduled"}
    BY <1>2, SteppedFields
  <2>2. /\ y \in Row /\ y.status = to /\ y.current = x.current
        /\ y.revision = x.revision + 1 /\ y.approved = z.approved
        /\ y.published = (IF to = "published" THEN z.approved ELSE z.published)
        /\ y.scheduledAt = (IF to = "published" THEN Null ELSE z.scheduledAt)
    BY MovedFields
  <2>3. CASE to = "published" /\ x.status \in {"approved", "scheduled"}
    BY <2>1, <2>2, <2>3 DEF Constraints, Checks
  <2>4. CASE <<x.status, to>> \in Lifecycle!Edges
    BY <2>1, <2>2, <2>4 DEF Constraints, Checks, Lifecycle!Edges, Null
  <2>5. QED BY <2>3, <2>4
<1>3. QED BY <1>1, <1>2

LEMMA ConstraintsNext ==
  ASSUME IInv, EditorialAssumption, ConstraintsHold, [Next]_vars
  PROVE  ConstraintsHold'
<1>1. CASE \E a \in Articles, u \in Users : CreateArticle(a, u)
  BY <1>1 DEF CreateArticle, Write, NoRow, ConstraintsHold, Constraints, Checks, Null, IInv, TypeOK
<1>2. CASE \E r \in Requests : Commit(r)
  <2> PICK r \in Requests : Commit(r)
    BY <1>2
  <2> PICK a \in Articles :
        \E y : row' = [row EXCEPT ![a] = y] /\ (Edited(row[a], y) \/ Stepped(row[a], y))
    BY CommitStep
  <2> PICK y : /\ row' = [row EXCEPT ![a] = y]
               /\ Edited(row[a], y) \/ Stepped(row[a], y)
    OBVIOUS
  <2>2. row[a] \in Row /\ Constraints(row[a])
    BY DEF IInv, TypeOK, ConstraintsHold
  <2>3. Constraints(y)
    BY <2>2, ConstraintsStep
  <2>4. QED BY <2>3 DEF ConstraintsHold, IInv, TypeOK
<1>3. CASE \E s \in Schedulers : PublishDue(s)
  <2> PICK s \in Schedulers : PublishDue(s)
    BY <1>3
  <2>1. ASSUME NEW a \in Held(s)
        PROVE  Constraints(Moved(session[s][a], "published"))
    <3>1. Stepped(row[a], Moved(session[s][a], "published"))
      BY SchedulerHolds DEF Stepped, Due
    <3>2. QED BY <3>1, SchedulerHolds, ConstraintsStep DEF ConstraintsHold
  <2>2. QED BY <2>1 DEF PublishDue, ConstraintsHold
<1>4. CASE UNCHANGED row
  BY <1>4 DEF ConstraintsHold
<1>5. QED
  BY <1>1, <1>2, <1>3, <1>4 DEF Next, Handle, Schedule, SelectSome, Receive,
     LockArticle, Reject, Abort, SelectDue, AbortBatch, Tick, vars, tables

(* No interleaving of requests and schedulers trips a CHECK constraint.    *)
THEOREM ConstraintsNeverTrip == Spec => []ConstraintsHold
<1>1. Init => ConstraintsHold
  BY DEF Init, ConstraintsHold, Constraints, Checks, NoRow, Null
<1>2. IInv /\ ConstraintsHold /\ [Next]_vars => ConstraintsHold'
  BY ConstraintsNext, EditorialAssumption
<1>3. QED BY <1>1, <1>2, InductiveInvariant, PTL DEF Spec

-----------------------------------------------------------------------------
(***************************************************************************)
(* A locked row changes only by the commit of the session that holds it.   *)
(***************************************************************************)
LEMMA OnlyOwnerWrites ==
  ASSUME IInv, EditorialAssumption, Next, NEW p \in Sessions, NEW a \in Held(p),
         row'[a] # row[a]
  PROVE  \/ p \in Requests /\ Commit(p) /\ a = call[p].article
         \/ p \in Schedulers /\ PublishDue(p)
<1>1. a \in Articles /\ lock[a] = p /\ p # Free /\ Exists(a)
  <2>1. a \in Articles /\ lock[a] = p /\ p # Free
    BY EditorialAssumption DEF Held, EditorialAssumption
  <2>2. QED
    BY <2>1 DEF IInv, LockOwnsCopy, CalledExist, Exists, Due, Sessions
<1>2. CASE \E b \in Articles, u \in Users : CreateArticle(b, u)
  BY <1>1, <1>2 DEF CreateArticle, Write, IInv, TypeOK
<1>3. CASE \E r \in Requests : Commit(r)
  <2> PICK r \in Requests : Commit(r)
    BY <1>3
  <2> PICK b \in Articles : /\ b = call[r].article /\ lock[b] = r
                            /\ \E y : row' = [row EXCEPT ![b] = y]
    BY CommitStep
  <2>1. b = a
    BY <1>1 DEF IInv, TypeOK
  <2>2. QED BY <1>1, <2>1
<1>4. CASE \E s \in Schedulers : PublishDue(s)
  <2> PICK s \in Schedulers : PublishDue(s)
    BY <1>4
  <2>1. a \in Held(s)
    BY <1>1 DEF PublishDue
  <2>2. QED BY <1>1, <2>1 DEF Held
<1>5. CASE UNCHANGED row
  BY <1>5
<1>6. QED
  BY <1>2, <1>3, <1>4, <1>5 DEF Next, Handle, Schedule, SelectSome, Receive,
     LockArticle, Reject, Abort, SelectDue, AbortBatch, Tick, vars, tables

(* A request writes only at the revision of its If-Match header.           *)
THEOREM OptimisticLock == Spec => DecidedAtIfMatch
<1> DEFINE Step == \A r \in Requests : \A a \in Held(r) :
                     row'[a] # row[a] => row[a].revision = call[r].ifMatch
<1>1. IInv /\ [Next]_vars => [Step]_vars
  <2> SUFFICES ASSUME IInv, Next, NEW r \in Requests, NEW a \in Held(r),
                      row'[a] # row[a]
               PROVE  row[a].revision = call[r].ifMatch
    OBVIOUS
  <2>1. r \in Sessions /\ r \notin Schedulers
    BY EditorialAssumption DEF Sessions, EditorialAssumption
  <2>2. Commit(r) /\ a = call[r].article
    BY <2>1, OnlyOwnerWrites, EditorialAssumption
  <2>3. QED BY <2>2, CommitStep, EditorialAssumption
<1>2. QED BY <1>1, InductiveInvariant, PTL DEF Spec, DecidedAtIfMatch

(* A scheduler publishes only what is scheduled and due at its commit,     *)
(* though it checked this only at its select.                              *)
THEOREM SchedulerNeverEarly == Spec => NeverEarly
<1> DEFINE Step == \A s \in Schedulers : \A a \in Held(s) :
                     row'[a] # row[a] => /\ row[a].status = "scheduled"
                                         /\ row[a].scheduledAt <= now
                                         /\ row'[a].status = "published"
<1>1. IInv /\ [Next]_vars => [Step]_vars
  <2> SUFFICES ASSUME IInv, Next, NEW s \in Schedulers, NEW a \in Held(s),
                      row'[a] # row[a]
               PROVE  /\ row[a].status = "scheduled"
                      /\ row[a].scheduledAt <= now
                      /\ row'[a].status = "published"
    OBVIOUS
  <2>1. s \in Sessions /\ s \notin Requests
    BY EditorialAssumption DEF Sessions, EditorialAssumption
  <2>2. PublishDue(s)
    BY <2>1, OnlyOwnerWrites, EditorialAssumption
  <2>3. Due(a) /\ Moved(session[s][a], "published").status = "published"
    BY SchedulerHolds
  <2>4. row'[a] = Moved(session[s][a], "published")
    BY <2>2, SchedulerHolds DEF PublishDue
  <2>5. QED BY <2>3, <2>4 DEF Due
<1>2. QED BY <1>1, InductiveInvariant, PTL DEF Spec, NeverEarly

-----------------------------------------------------------------------------
(***************************************************************************)
(* Editorial implements ArticleLifecycle: under the refinement mapping     *)
(* View, the initial state is the abstract one, every commit is one        *)
(* abstract step, and receiving, locking, rolling back and waiting are     *)
(* stuttering steps.                                                       *)
(***************************************************************************)
Mapped == [a \in Articles |-> View(row[a])]

LEMMA MappedEdit ==
  ASSUME NEW a \in Articles, row[a] \in Row, row \in [Articles -> Row], NEW y,
         row' = [row EXCEPT ![a] = y], Edited(row[a], y)
  PROVE  Lifecycle!Edit(a)
<1>1. Mapped' = [Mapped EXCEPT ![a] = View(y)]
  BY DEF Mapped
<1>2. View(y) = Lifecycle!Rewritten(View(row[a]))
  BY EditedFields DEF View, Lifecycle!Rewritten, Lifecycle!Item, Null
<1>3. row[a].status \in {"draft", "changes_requested"}
  BY EditedFields DEF Editable
<1>4. QED BY <1>1, <1>2, <1>3 DEF Mapped, Lifecycle!Edit, View

LEMMA MappedStep ==
  ASSUME NEW a \in Articles, row[a] \in Row, row \in [Articles -> Row], NEW y,
         row' = [row EXCEPT ![a] = y], Stepped(row[a], y)
  PROVE  Lifecycle!Next
<1> DEFINE x == row[a]
<1> PICK z \in Row, to \in Statuses :
      /\ y = Moved(z, to)
      /\ z.status = x.status /\ z.current = x.current
      /\ z.revision = x.revision /\ z.published = x.published
      /\ z.approved = (IF to = "approved" THEN x.current ELSE x.approved)
      /\ \/ <<x.status, to>> \in Lifecycle!Edges
         \/ to = "published" /\ x.status \in {"approved", "scheduled"}
  BY SteppedFields, SMTT(20)
<1>1. /\ y.status = to /\ y.current = x.current /\ y.revision = x.revision + 1
      /\ y.approved = z.approved
      /\ y.published = (IF to = "published" THEN z.approved ELSE z.published)
  BY MovedFields
<1>2. Mapped' = [Mapped EXCEPT ![a] = View(y)] /\ Mapped[a] = View(x)
  BY DEF Mapped
<1>3. CASE <<x.status, to>> \in Lifecycle!Edges
  <2>1. to # "published"
    BY <1>3 DEF Lifecycle!Edges
  <2>2. View(y) = Lifecycle!Turned(View(x), to)
    BY <1>1, <2>1 DEF View, Lifecycle!Turned, Lifecycle!Item
  <2>3. Lifecycle!Move(a, to)
    BY <1>2, <1>3, <2>2 DEF Lifecycle!Move, Mapped, View
  <2>4. \E e \in Lifecycle!Edges : e[2] = to
    BY <1>3
  <2>5. QED BY <2>3, <2>4 DEF Lifecycle!Next
<1>4. CASE to = "published" /\ x.status \in {"approved", "scheduled"}
  <2>1. View(y) = Lifecycle!Published(View(x))
    BY <1>1, <1>4 DEF View, Lifecycle!Published, Lifecycle!Item
  <2>2. Mapped' = [b \in Articles |-> IF b \in {a} THEN Lifecycle!Published(Mapped[b])
                                      ELSE Mapped[b]]
    BY <1>2, <2>1 DEF Mapped
  <2>3. Lifecycle!Publish({a})
    BY <1>4, <2>2 DEF Lifecycle!Publish, Mapped, View
  <2>4. QED BY <2>3 DEF Lifecycle!Next
<1>5. QED BY <1>3, <1>4

LEMMA MappedCreate ==
  ASSUME IInv, NEW a \in Articles, NEW u \in Users, CreateArticle(a, u)
  PROVE  Lifecycle!Create(a)
<1> DEFINE new == [NoRow EXCEPT !.status = "draft", !.author = u, !.revision = 1,
                     !.current = 1, !.headline = [f \in Headline |-> 1]]
<1>1. row' = [row EXCEPT ![a] = new] /\ row[a].status = "absent"
  BY DEF CreateArticle, Write, Exists
<1>2. View(new) = Lifecycle!Item("draft", 1, 1, 0, 0)
  BY DEF View, NoRow, Lifecycle!Item, Null
<1> HIDE DEF new
<1>3. Mapped' = [Mapped EXCEPT ![a] = View(new)]
  BY <1>1 DEF Mapped, IInv, TypeOK
<1>4. QED BY <1>1, <1>2, <1>3 DEF Lifecycle!Create, Mapped, View

LEMMA MappedBatch ==
  ASSUME IInv, NEW s \in Schedulers, PublishDue(s)
  PROVE  Lifecycle!Publish(Held(s))
<1>1. ASSUME NEW a \in Held(s)
      PROVE  /\ row[a].status \in {"approved", "scheduled"}
             /\ View(Moved(session[s][a], "published"))
                  = Lifecycle!Published(View(row[a]))
  <2>1. session[s][a] = row[a] /\ row[a] \in Row /\ Due(a)
    BY SchedulerHolds
  <2>2. LET y == Moved(row[a], "published") IN
        /\ y.status = "published" /\ y.current = row[a].current
        /\ y.revision = row[a].revision + 1 /\ y.approved = row[a].approved
        /\ y.published = row[a].approved
    BY <2>1, MovedFields DEF Statuses
  <2>3. QED BY <2>1, <2>2 DEF View, Lifecycle!Published, Lifecycle!Item, Due
<1>2. Mapped' = [a \in Articles |-> IF a \in Held(s) THEN Lifecycle!Published(Mapped[a])
                                    ELSE Mapped[a]]
  BY <1>1 DEF PublishDue, Mapped
<1>3. Held(s) # {}
  BY DEF PublishDue
<1>4. \A a \in Held(s) : Mapped[a].status \in {"approved", "scheduled"}
  BY <1>1, SchedulerHolds DEF Mapped, View
<1>5. QED BY <1>2, <1>3, <1>4 DEF Lifecycle!Publish, Mapped

LEMMA MappedNext ==
  ASSUME IInv, EditorialAssumption, [Next]_vars
  PROVE  [Lifecycle!Next]_Lifecycle!vars
<1>1. CASE \E a \in Articles, u \in Users : CreateArticle(a, u)
  BY <1>1, MappedCreate DEF Lifecycle!Next
<1>2. CASE \E r \in Requests : Commit(r)
  <2> PICK r \in Requests : Commit(r)
    BY <1>2
  <2> PICK a \in Articles :
        \E y : row' = [row EXCEPT ![a] = y] /\ (Edited(row[a], y) \/ Stepped(row[a], y))
    BY CommitStep
  <2> PICK y : /\ row' = [row EXCEPT ![a] = y]
               /\ Edited(row[a], y) \/ Stepped(row[a], y)
    OBVIOUS
  <2>1. row \in [Articles -> Row] /\ row[a] \in Row
    BY DEF IInv, TypeOK
  <2>2. CASE Edited(row[a], y)
    BY <2>1, <2>2, MappedEdit DEF Lifecycle!Next
  <2>3. CASE Stepped(row[a], y)
    BY <2>1, <2>3, MappedStep
  <2>4. QED BY <2>2, <2>3
<1>3. CASE \E s \in Schedulers : PublishDue(s)
  <2> PICK s \in Schedulers : PublishDue(s)
    BY <1>3
  <2>1. Lifecycle!Publish(Held(s)) /\ Held(s) \in SUBSET Articles
    BY MappedBatch DEF Held
  <2>2. QED BY <2>1 DEF Lifecycle!Next
<1>4. CASE UNCHANGED row
  BY <1>4 DEF Lifecycle!vars
<1>5. QED
  BY <1>1, <1>2, <1>3, <1>4 DEF Next, Handle, Schedule, SelectSome, Receive,
     LockArticle, Reject, Abort, SelectDue, AbortBatch, Tick, vars, tables

(* The workflow over sessions, row locks and a racing scheduler implements *)
(* the abstract lifecycle of an article.                                   *)
THEOREM LifecycleImplemented == Spec => ImplementsLifecycle
<1>1. Init => Lifecycle!Init
  BY DEF Init, Lifecycle!Init, Lifecycle!Absent, Lifecycle!Item, View, NoRow, Null
<1>2. IInv /\ [Next]_vars => [Lifecycle!Next]_Lifecycle!vars
  BY MappedNext, EditorialAssumption
<1>3. QED
  BY <1>1, <1>2, InductiveInvariant, PTL DEF Spec, ImplementsLifecycle, Lifecycle!Spec

-----------------------------------------------------------------------------
(***************************************************************************)
(* Proofs about what the tables of Editorial record together: the article, *)
(* its versions, its history and its events.  Every step is first reduced  *)
(* to what it does to one article: nothing, or one of three changes, each  *)
(* of which adds one entry to the history and one event.                   *)
(***************************************************************************)
ShownStatuses == {"published", "archived"}
AgreedStatuses == {"approved", "scheduled"} \cup ShownStatuses

Kept(a) == /\ row'[a] = row[a] /\ versions'[a] = versions[a]
           /\ history'[a] = history[a] /\ outbox'[a] = outbox[a]

Recorded(a, type, e) == /\ history'[a] = Append(history[a], e)
                        /\ outbox'[a] = Append(outbox[a], Event(type, row'[a]))

WithVersion(a, v, text) ==
  [u \in DOMAIN versions[a] \cup {v} |-> IF u = v THEN text ELSE versions[a][u]]

Created(a) ==
  /\ row[a].status = "absent"
  /\ row'[a].status = "draft" /\ row'[a].revision = 1 /\ row'[a].current = 1
  /\ row'[a].approved = Null /\ row'[a].published = Null
  /\ row'[a].headline = [f \in Headline |-> 1]
  /\ versions'[a] = WithVersion(a, 1, [f \in Fields |-> 1])
  /\ \E e \in HistoryEntry : e.to = "draft" /\ Recorded(a, "created", e)

Rewritten(a) ==
  LET x == row[a]
      v == row[a].current + 1
  IN /\ x.status \in Editable
     /\ row'[a].status = x.status /\ row'[a].revision = x.revision + 1
     /\ row'[a].current = v /\ row'[a].approved = Null /\ row'[a].published = x.published
     /\ \E text \in Text :
          /\ \A f \in Fields : text[f] \in {v, versions[a][x.current][f]}
          /\ row'[a].headline = Copied(text)
          /\ versions'[a] = WithVersion(a, v, text)
     /\ \E e \in HistoryEntry : e.to = "none" /\ Recorded(a, "version.created", e)

Legal(from, to) ==
  /\ from # "absent"
  /\ to = "published" => from \in {"approved", "scheduled"}
  /\ to = "archived" => from = "published"
  /\ from \in ShownStatuses => to = "archived"
  /\ to \in AgreedStatuses => from \in AgreedStatuses \/ to = "approved"
  /\ to \notin AgreedStatuses => from \notin AgreedStatuses

Turned(a) ==
  LET x == row[a]
      y == row'[a]
  IN \E to \in Statuses, e \in HistoryEntry :
       /\ Legal(x.status, to)
       /\ y.status = to /\ y.revision = x.revision + 1
       /\ y.current = x.current /\ y.headline = x.headline
       /\ y.approved = (IF to = "approved" THEN x.current ELSE x.approved)
       /\ y.published = (IF to = "published" THEN y.approved ELSE x.published)
       /\ versions'[a] = versions[a]
       /\ e.to = to /\ e.action # "version_created"
       /\ to = "approved" => /\ e.action = "approved" /\ e.version = x.current
                             /\ e.actor \in Editors
       /\ Recorded(a, to, e)

(* What only an editor may ask for is in progress for an editor only.      *)
EditorsDecide ==
  \A r \in Requests : call[r] # NoCall /\ call[r].op \in EditorOps => call[r].user \in Editors

LInv == IInv /\ ConstraintsHold /\ EditorsDecide

-----------------------------------------------------------------------------
LEMMA EditorsDecideNext ==
  ASSUME IInv, EditorsDecide, [Next]_vars
  PROVE  EditorsDecide'
<1> SUFFICES ASSUME NEW r \in Requests, call'[r] # NoCall, call'[r].op \in EditorOps
             PROVE  call'[r].user \in Editors
  BY DEF EditorsDecide
<1>1. CASE call'[r] = call[r]
  BY <1>1 DEF EditorsDecide
<1>2. CASE \E q \in Requests, c \in Call : Receive(q, c)
  BY <1>2 DEF Receive, MayCall, IInv, TypeOK, EditorsDecide
<1>3. CASE \E q \in Requests : EndRequest(q)
  BY <1>3 DEF EndRequest, IInv, TypeOK, EditorsDecide
<1>4. QED
  BY <1>1, <1>2, <1>3 DEF Next, Handle, Schedule, SelectSome, Reject, Abort, Commit,
     UpdateArticle, SubmitArticle, ReviewArticle, ScheduleArticle, PublishArticle,
     ArchiveArticle, TransitionArticle, LockArticle, CreateArticle, SelectDue,
     PublishDue, AbortBatch, Tick, vars

(* The inductive invariant of the workflow with its CHECK constraints, and *)
(* only editors in charge of reviews and publications.                     *)
THEOREM LedgerInvariant == Spec => []LInv
<1>1. Init => EditorsDecide
  BY DEF Init, EditorsDecide
<1>2. IInv /\ EditorsDecide /\ [Next]_vars => EditorsDecide'
  BY EditorsDecideNext
<1>3. QED BY <1>1, <1>2, InductiveInvariant, ConstraintsNeverTrip, PTL DEF Spec, LInv

-----------------------------------------------------------------------------
LEMMA WriteRecords ==
  ASSUME TypeOK, NEW a \in Articles, NEW x, NEW e, NEW type,
         Write(a, x, e, Event(type, x))
  PROVE  /\ row'[a] = x /\ Recorded(a, type, e)
         /\ \A b \in Articles \ {a} :
              row'[b] = row[b] /\ history'[b] = history[b] /\ outbox'[b] = outbox[b]
<1>1. row'[a] = x /\ history'[a] = Append(history[a], e)
      /\ outbox'[a] = Append(outbox[a], Event(type, x))
  BY DEF TypeOK, Write
<1>2. QED BY <1>1 DEF TypeOK, Write, Recorded

LEMMA AddVersionOne ==
  ASSUME TypeOK, NEW a \in Articles, NEW v, NEW text, AddVersion(a, v, text)
  PROVE  /\ versions'[a] = WithVersion(a, v, text)
         /\ \A b \in Articles \ {a} : versions'[b] = versions[b]
BY DEF TypeOK, AddVersion, WithVersion

LEMMA CreateShape ==
  ASSUME LInv, NEW a \in Articles, NEW u \in Users, CreateArticle(a, u)
  PROVE  Created(a) /\ \A b \in Articles \ {a} : Kept(b)
<1> DEFINE new == [NoRow EXCEPT !.status = "draft", !.author = u, !.revision = 1,
                     !.current = 1, !.headline = [f \in Headline |-> 1]]
           e == Entry("created", u, "none", "draft", Null)
<1>1. /\ row[a].status = "absent"
      /\ Write(a, new, e, Event("created", new))
      /\ AddVersion(a, 1, [f \in Fields |-> 1])
  BY DEF CreateArticle, Exists
<1>2. e \in HistoryEntry /\ e.to = "draft"
  BY EntryTyped DEF Actions, Statuses, Null, Entry
<1>3. /\ new.status = "draft" /\ new.revision = 1 /\ new.current = 1
      /\ new.approved = Null /\ new.published = Null
      /\ new.headline = [f \in Headline |-> 1]
  BY DEF NoRow
<1> HIDE DEF new, e
<1>4. /\ row'[a] = new /\ Recorded(a, "created", e)
      /\ \A b \in Articles \ {a} :
           row'[b] = row[b] /\ history'[b] = history[b] /\ outbox'[b] = outbox[b]
  BY <1>1, WriteRecords DEF LInv, IInv
<1>5. /\ versions'[a] = WithVersion(a, 1, [f \in Fields |-> 1])
      /\ \A b \in Articles \ {a} : versions'[b] = versions[b]
  BY <1>1, AddVersionOne DEF LInv, IInv
<1>6. QED BY <1>1, <1>2, <1>3, <1>4, <1>5 DEF Created, Kept

LEMMA UpdateShape ==
  ASSUME LInv, NEW r \in Requests, UpdateArticle(r)
  PROVE  \A b \in Articles : Kept(b) \/ Rewritten(b)
<1> DEFINE a == call[r].article
           x == row[a]
           v == x.current + 1
           text == EditedText(a, x, call[r].fields)
           new == [x EXCEPT !.current = v, !.revision = @ + 1, !.approved = Null,
                            !.headline = Copied(text)]
           e == Entry("version_created", call[r].user, "none", "none", v)
<1>1. Locked(r) /\ Granted(r) /\ call[r].op = "update"
  BY DEF UpdateArticle
<1>2. /\ a \in Articles /\ call[r].user \in Users /\ Copy(r) = x /\ x \in Row
  BY <1>1, LockedFacts DEF LInv
<1>3. x.status \in Editable
  BY <1>1, <1>2 DEF Granted, Accepts
<1>4. /\ x.current \in DOMAIN versions[a]
      /\ AddVersion(a, v, text)
      /\ Write(a, new, e, Event("version.created", new))
  <2> DEFINE z == Copy(r)
  <2>1. /\ z.current \in DOMAIN versions[a]
        /\ AddVersion(a, z.current + 1, EditedText(a, z, call[r].fields))
        /\ Write(a, [z EXCEPT !.current = z.current + 1, !.revision = @ + 1,
                              !.approved = Null,
                              !.headline = Copied(EditedText(a, z, call[r].fields))],
                 Entry("version_created", call[r].user, "none", "none", z.current + 1),
                 Event("version.created",
                   [z EXCEPT !.current = z.current + 1, !.revision = @ + 1,
                              !.approved = Null,
                              !.headline = Copied(EditedText(a, z, call[r].fields))]))
    BY DEF UpdateArticle
  <2>2. z = x
    BY <1>2
  <2> HIDE DEF z
  <2>3. QED BY <2>1, <2>2
<1>5. text \in Text
  BY <1>2, <1>4, EditedTextTyped DEF LInv, IInv
<1>6. \A f \in Fields : text[f] \in {v, versions[a][x.current][f]}
  BY DEF EditedText
<1>7. v \in Nat
  BY <1>2 DEF Row
<1> HIDE DEF text
<1>8. e \in HistoryEntry /\ e.to = "none"
  BY <1>2, <1>7, EntryTyped DEF Actions, Entry
<1>9. /\ new.status = x.status /\ new.revision = x.revision + 1
      /\ new.current = v /\ new.approved = Null /\ new.published = x.published
      /\ new.headline = Copied(text)
  BY <1>2 DEF Row
<1> HIDE DEF new, e, x, a
<1>10. /\ row'[a] = new /\ Recorded(a, "version.created", e)
       /\ \A b \in Articles \ {a} :
            row'[b] = row[b] /\ history'[b] = history[b] /\ outbox'[b] = outbox[b]
  BY <1>2, <1>4, WriteRecords DEF LInv, IInv
<1>11. /\ versions'[a] = WithVersion(a, v, text)
       /\ \A b \in Articles \ {a} : versions'[b] = versions[b]
  BY <1>2, <1>4, AddVersionOne DEF LInv, IInv
<1>12. Rewritten(a)
  BY <1>3, <1>5, <1>6, <1>8, <1>9, <1>10, <1>11 DEF Rewritten, x
<1>13. QED BY <1>10, <1>11, <1>12 DEF Kept

(* transition_article, from a copy x in which only approved_version and    *)
(* scheduled_at may have been set                                          *)
LEMMA TransitionShape ==
  ASSUME LInv, NEW r \in Requests, NEW x \in Row, NEW to \in Statuses, NEW action \in Actions,
         TransitionArticle(r, x, to, action),
         x.status = Copy(r).status, x.status \in Statuses, x.current = Copy(r).current,
         x.revision = Copy(r).revision, x.published = Copy(r).published,
         x.headline = Copy(r).headline,
         x.approved = (IF to = "approved" THEN Copy(r).current ELSE Copy(r).approved),
         Legal(Copy(r).status, to), action # "version_created",
         to = "approved" => action = "approved" /\ call[r].user \in Editors
  PROVE  \A b \in Articles : Kept(b) \/ Turned(b)
<1> DEFINE a == call[r].article
           new == Moved(x, to)
           e == Entry(action, call[r].user, x.status, to, x.current)
<1>1. Locked(r) /\ Write(a, new, e, Event(to, new)) /\ UNCHANGED versions
  BY DEF TransitionArticle
<1>2. a \in Articles /\ call[r].user \in Users /\ Copy(r) = row[a]
  BY <1>1, LockedFacts DEF LInv
<1>3. /\ new.status = to /\ new.revision = x.revision + 1 /\ new.current = x.current
      /\ new.approved = x.approved
      /\ new.published = (IF to = "published" THEN new.approved ELSE x.published)
  BY MovedFields
<1>4. new.headline = x.headline
  BY DEF Moved, Row
<1>5. /\ e \in HistoryEntry /\ e.action = action /\ e.version = x.current
      /\ e.actor = call[r].user /\ e.to = to
  BY <1>2, EntryTyped DEF Entry, Row
<1> HIDE DEF new, e, a
<1>6. /\ row'[a] = new /\ Recorded(a, to, e)
      /\ \A b \in Articles \ {a} :
           row'[b] = row[b] /\ history'[b] = history[b] /\ outbox'[b] = outbox[b]
  BY <1>1, <1>2, WriteRecords DEF LInv, IInv
<1>7. Turned(a)
  BY <1>1, <1>2, <1>3, <1>4, <1>5, <1>6 DEF Turned
<1>8. QED BY <1>1, <1>6, <1>7 DEF Kept

LEMMA CommitShape ==
  ASSUME LInv, NEW r \in Requests, Commit(r), NEW b \in Articles
  PROVE  Kept(b) \/ Rewritten(b) \/ Turned(b)
<1>1. Locked(r) /\ Granted(r)
  BY DEF Commit, UpdateArticle, TransitionArticle, SubmitArticle, ReviewArticle,
         ScheduleArticle, PublishArticle, ArchiveArticle
<1>2. call[r] \in Call /\ Copy(r) \in Row /\ Copy(r).status \in Accepts[call[r].op]
  BY <1>1, LockedFacts DEF LInv, Granted
<1>3. Copy(r).status \in Statuses
  BY <1>2 DEF Accepts, Call, Ops, EditorOps, Editable, Statuses
<1>4. call[r].op = "approve" => call[r].user \in Editors
  BY <1>1 DEF LInv, EditorsDecide, EditorOps, Locked
<1>5. call[r].at \in Nat
  BY <1>2, EditorialAssumption DEF Call, EditorialAssumption
<1>6. /\ {"in_review", "approved", "changes_requested", "scheduled", "published",
          "archived"} \subseteq Statuses
      /\ {"submitted", "approved", "changes_requested", "scheduled", "published",
          "archived"} \subseteq Actions
  BY DEF Statuses, Actions
<1>7. CASE UpdateArticle(r)
  BY <1>7, UpdateShape
<1>8. CASE SubmitArticle(r)
  <2>1. Copy(r).status \in Editable
        /\ TransitionArticle(r, Copy(r), "in_review", "submitted")
    BY <1>2, <1>8 DEF SubmitArticle, Accepts
  <2>2. Legal(Copy(r).status, "in_review")
    BY <2>1 DEF Legal, Editable, AgreedStatuses, ShownStatuses
  <2>3. QED BY <1>2, <1>3, <1>6, <2>1, <2>2, TransitionShape
<1>9. CASE ReviewArticle(r)
  <2>1. Copy(r).status = "in_review"
    BY <1>2, <1>9 DEF ReviewArticle, Accepts
  <2>2. Legal(Copy(r).status, "approved") /\ Legal(Copy(r).status, "changes_requested")
    BY <2>1 DEF Legal, AgreedStatuses, ShownStatuses
  <2>3. CASE /\ call[r].op = "approve"
             /\ TransitionArticle(r, [Copy(r) EXCEPT !.approved = Copy(r).current],
                                  "approved", "approved")
    <3> DEFINE x == [Copy(r) EXCEPT !.approved = Copy(r).current]
    <3>1. /\ x \in Row /\ x.status = Copy(r).status /\ x.current = Copy(r).current
          /\ x.revision = Copy(r).revision /\ x.published = Copy(r).published
          /\ x.headline = Copy(r).headline /\ x.approved = Copy(r).current
      BY <1>2 DEF Row
    <3>2. TransitionArticle(r, x, "approved", "approved")
      BY <2>3
    <3> HIDE DEF x
    <3>3. QED BY <1>3, <1>4, <1>6, <2>2, <2>3, <3>1, <3>2, TransitionShape
  <2>4. CASE TransitionArticle(r, Copy(r), "changes_requested", "changes_requested")
    BY <1>2, <1>3, <1>6, <2>2, <2>4, TransitionShape
  <2>5. QED BY <1>9, <2>3, <2>4 DEF ReviewArticle
<1>10. CASE ScheduleArticle(r)
  <2> DEFINE x == [Copy(r) EXCEPT !.scheduledAt = call[r].at]
  <2>1. /\ x \in Row /\ x.status = Copy(r).status /\ x.current = Copy(r).current
        /\ x.revision = Copy(r).revision /\ x.published = Copy(r).published
        /\ x.headline = Copy(r).headline /\ x.approved = Copy(r).approved
    BY <1>2, <1>5 DEF Row
  <2>2. Copy(r).status = "approved" /\ TransitionArticle(r, x, "scheduled", "scheduled")
    BY <1>2, <1>10 DEF ScheduleArticle, Accepts
  <2>3. Legal(Copy(r).status, "scheduled")
    BY <2>2 DEF Legal, AgreedStatuses, ShownStatuses
  <2> HIDE DEF x
  <2>4. QED BY <1>3, <1>6, <2>1, <2>2, <2>3, TransitionShape
<1>11. CASE PublishArticle(r)
  <2>1. Copy(r).status \in {"approved", "scheduled"}
        /\ TransitionArticle(r, Copy(r), "published", "published")
    BY <1>2, <1>11 DEF PublishArticle, Accepts
  <2>2. Legal(Copy(r).status, "published")
    BY <2>1 DEF Legal, AgreedStatuses, ShownStatuses
  <2>3. QED BY <1>2, <1>3, <1>6, <2>1, <2>2, TransitionShape
<1>12. CASE ArchiveArticle(r)
  <2>1. Copy(r).status = "published"
        /\ TransitionArticle(r, Copy(r), "archived", "archived")
    BY <1>2, <1>12 DEF ArchiveArticle, Accepts
  <2>2. Legal(Copy(r).status, "archived")
    BY <2>1 DEF Legal, AgreedStatuses, ShownStatuses
  <2>3. QED BY <1>2, <1>3, <1>6, <2>1, <2>2, TransitionShape
<1>13. QED BY <1>7, <1>8, <1>9, <1>10, <1>11, <1>12 DEF Commit

LEMMA PublishDueShape ==
  ASSUME LInv, NEW s \in Schedulers, PublishDue(s), NEW b \in Articles
  PROVE  Kept(b) \/ Turned(b)
<1>1. CASE b \notin Held(s)
  BY <1>1 DEF PublishDue, Kept, LInv, IInv, TypeOK
<1>2. CASE b \in Held(s)
  <2> DEFINE x == row[b]
             y == Moved(x, "published")
             e == Entry("published_by_scheduler", System, x.status, "published", Null)
  <2>1. session[s][b] = x /\ x \in Row /\ x.status = "scheduled"
    BY <1>2, SchedulerHolds DEF LInv, Due
  <2>2. "published" \in Statuses /\ "scheduled" \in Statuses /\ Null \in Nat
        /\ "published_by_scheduler" \in Actions
    BY DEF Statuses, Actions, Null
  <2>3. /\ y.status = "published" /\ y.revision = x.revision + 1 /\ y.current = x.current
        /\ y.approved = x.approved /\ y.published = y.approved
    BY <2>1, <2>2, MovedFields
  <2>4. y.headline = x.headline
    BY <2>1 DEF Moved, Row
  <2>5. /\ row'[b] = y /\ history'[b] = Append(history[b], e)
        /\ outbox'[b] = Append(outbox[b], Event("published", y)) /\ versions' = versions
    <3> DEFINE z == session[s][b]
    <3>1. /\ row'[b] = Moved(z, "published")
          /\ history'[b] = Append(history[b], Entry("published_by_scheduler", System,
                                                    z.status, "published", Null))
          /\ outbox'[b] = Append(outbox[b], Event("published", Moved(z, "published")))
          /\ versions' = versions
      BY <1>2 DEF PublishDue
    <3>2. z = x
      BY <2>1
    <3> HIDE DEF z
    <3>3. QED BY <3>1, <3>2
  <2>6. e \in HistoryEntry /\ e.action = "published_by_scheduler" /\ e.to = "published"
    BY <2>1, <2>2, EntryTyped DEF Entry
  <2>7. Legal(x.status, "published")
    BY <2>1 DEF Legal, AgreedStatuses, ShownStatuses
  <2> HIDE DEF y, e
  <2>8. Turned(b)
    BY <2>2, <2>3, <2>4, <2>5, <2>6, <2>7 DEF Turned, Recorded
  <2>9. QED BY <2>8
<1>3. QED BY <1>1, <1>2

(* Whatever happens, each article is left alone or changed in one of three *)
(* ways, each of which is recorded once in the history and in the outbox.  *)
LEMMA StepShape ==
  ASSUME LInv, [Next]_vars, NEW b \in Articles
  PROVE  Kept(b) \/ Created(b) \/ Rewritten(b) \/ Turned(b)
<1>1. CASE UNCHANGED tables
  BY <1>1 DEF Kept, tables
<1>2. CASE \E a \in Articles, u \in Users : CreateArticle(a, u)
  <2> PICK a \in Articles, u \in Users : CreateArticle(a, u)
    BY <1>2
  <2>1. Created(a) /\ \A c \in Articles \ {a} : Kept(c)
    BY CreateShape
  <2>2. QED BY <2>1
<1>3. CASE \E r \in Requests : Commit(r)
  BY <1>3, CommitShape
<1>4. CASE \E s \in Schedulers : PublishDue(s)
  BY <1>4, PublishDueShape
<1>5. QED
  BY <1>1, <1>2, <1>3, <1>4 DEF Next, Handle, Schedule, SelectSome, Receive,
     LockArticle, Reject, Abort, SelectDue, AbortBatch, Tick, vars

-----------------------------------------------------------------------------
LEMMA Appended ==
  ASSUME NEW S, NEW s \in Seq(S), NEW e
  PROVE  /\ Len(s) \in Nat /\ DOMAIN s = 1..Len(s)
         /\ Len(Append(s, e)) = Len(s) + 1
         /\ DOMAIN Append(s, e) = DOMAIN s \cup {Len(s) + 1}
         /\ Len(s) + 1 \notin DOMAIN s
         /\ Append(s, e)[Len(s) + 1] = e
         /\ \A i \in DOMAIN s : Append(s, e)[i] = s[i]
<1> DEFINE T == S \cup {e}
<1>1. s \in Seq(T) /\ e \in T
  OBVIOUS
<1> HIDE DEF T
<1>2. /\ Len(s) \in Nat /\ DOMAIN s = 1..Len(s)
      /\ Len(Append(s, e)) = Len(s) + 1
      /\ DOMAIN Append(s, e) = 1..(Len(s) + 1)
      /\ Append(s, e)[Len(s) + 1] = e
      /\ \A i \in 1..Len(s) : Append(s, e)[i] = s[i]
  BY <1>1
<1>3. 1..(Len(s) + 1) = 1..Len(s) \cup {Len(s) + 1} /\ Len(s) + 1 \notin 1..Len(s)
  BY <1>2
<1>4. QED BY <1>2, <1>3

(* What a change adds to the two logs, and that it leaves the rest alone   *)
LEMMA RecordedOnce ==
  ASSUME TypeOK, NEW a \in Articles, NEW type, NEW e, Recorded(a, type, e)
  PROVE  LET h == Len(history[a])
             n == Len(outbox[a])
             new == Event(type, row'[a])
         IN /\ h \in Nat /\ DOMAIN history[a] = 1..h
            /\ Len(history'[a]) = h + 1 /\ DOMAIN history'[a] = DOMAIN history[a] \cup {h + 1}
            /\ history'[a][h + 1] = e
            /\ \A i \in DOMAIN history[a] : history'[a][i] = history[a][i]
            /\ n \in Nat /\ DOMAIN outbox[a] = 1..n
            /\ Len(outbox'[a]) = n + 1 /\ DOMAIN outbox'[a] = DOMAIN outbox[a] \cup {n + 1}
            /\ outbox'[a][n + 1] = new /\ new.type = type /\ new.revision = row'[a].revision
            /\ n + 1 \notin DOMAIN outbox[a]
            /\ \A i \in DOMAIN outbox[a] : outbox'[a][i] = outbox[a][i]
<1>1. /\ history[a] \in Seq(HistoryEntry) /\ outbox[a] \in Seq(ArticleEvent)
      /\ history'[a] = Append(history[a], e)
      /\ outbox'[a] = Append(outbox[a], Event(type, row'[a]))
  BY DEF TypeOK, Recorded
<1>2. Event(type, row'[a]).type = type /\ Event(type, row'[a]).revision = row'[a].revision
  BY DEF Event
<1>3. QED BY <1>1, <1>2, Appended

(* An article that does not exist has left nothing in any table.           *)
Blank == \A a \in Articles : ~Exists(a) =>
           /\ row[a] = NoRow /\ versions[a] = <<>>
           /\ history[a] = <<>> /\ outbox[a] = <<>>

LEMMA BlankNext == ASSUME LInv, Blank, [Next]_vars PROVE Blank'
<1> SUFFICES ASSUME NEW a \in Articles, row'[a].status = "absent"
             PROVE  /\ row'[a] = NoRow /\ versions'[a] = <<>>
                    /\ history'[a] = <<>> /\ outbox'[a] = <<>>
  BY DEF Blank, Exists
<1>1. CASE Kept(a)
  BY <1>1 DEF Kept, Blank, Exists
<1>2. CASE Created(a) \/ Rewritten(a) \/ Turned(a)
  BY <1>2 DEF Created, Rewritten, Turned, Editable, Statuses
<1>3. QED BY <1>1, <1>2, StepShape

SInv == LInv /\ Blank

LEMMA BlankInvariant == Spec => []SInv
<1>1. Init => Blank
  BY DEF Init, Blank
<1>2. LInv /\ Blank /\ [Next]_vars => Blank'
  BY BlankNext
<1>3. QED BY <1>1, <1>2, LedgerInvariant, PTL DEF Spec, SInv

-----------------------------------------------------------------------------
(***************************************************************************)
(* RevisionLedger                                                          *)
(***************************************************************************)
LEMMA RevisionLedgerNext ==
  ASSUME SInv, RevisionLedger, [Next]_vars  PROVE RevisionLedger'
<1> SUFFICES ASSUME NEW a \in Articles
             PROVE  /\ Len(history'[a]) = row'[a].revision
                    /\ Len(outbox'[a]) = row'[a].revision
                    /\ \A n \in DOMAIN outbox'[a] : outbox'[a][n].revision = n
                    /\ row'[a].status # "absent" =>
                         outbox'[a][row'[a].revision] =
                           Event(outbox'[a][row'[a].revision].type, row'[a])
  BY DEF RevisionLedger, Exists
<1>1. CASE Kept(a)
  BY <1>1 DEF Kept, RevisionLedger, Exists
<1>2. CASE Created(a) \/ Rewritten(a) \/ Turned(a)
  <2>1. row'[a].revision = row[a].revision + 1
    BY <1>2 DEF Created, Rewritten, Turned, SInv, Blank, NoRow, Exists
  <2>2. \E type : \E e \in HistoryEntry : Recorded(a, type, e)
    BY <1>2 DEF Created, Rewritten, Turned
  <2> PICK type, e : Recorded(a, type, e)
    BY <2>2
  <2> DEFINE n == Len(outbox[a])
             y == row'[a]
  <2>3. n = row[a].revision /\ Len(history[a]) = n /\ \A k \in DOMAIN outbox[a] : outbox[a][k].revision = k
    BY DEF RevisionLedger
  <2>4. /\ Len(history'[a]) = Len(history[a]) + 1 /\ Len(outbox'[a]) = n + 1
        /\ DOMAIN outbox'[a] = DOMAIN outbox[a] \cup {n + 1}
        /\ outbox'[a][n + 1] = Event(type, y)
        /\ Event(type, y).type = type /\ Event(type, y).revision = y.revision
        /\ \A k \in DOMAIN outbox[a] : outbox'[a][k] = outbox[a][k]
    BY RecordedOnce DEF SInv, LInv, IInv
  <2> HIDE DEF n, y
  <2>5. y.revision = n + 1
    BY <2>1, <2>3 DEF y
  <2>6. QED BY <2>3, <2>4, <2>5 DEF y
<1>3. QED BY <1>1, <1>2, StepShape DEF SInv

(* Every revision of every article has one entry of the history and one    *)
(* event, in the order of the revisions, and the last event shows the row, *)
(* for any number of requests and schedulers that write at the same time.  *)
THEOREM EveryRevisionRecorded == Spec => []RevisionLedger
<1>1. Init => RevisionLedger
  BY DEF Init, RevisionLedger, NoRow, Exists
<1>2. SInv /\ RevisionLedger /\ [Next]_vars => RevisionLedger'
  BY RevisionLedgerNext
<1>3. QED BY <1>1, <1>2, BlankInvariant, PTL DEF Spec

-----------------------------------------------------------------------------
(***************************************************************************)
(* PublishedOnce                                                           *)
(***************************************************************************)
Publications(a) == {n \in DOMAIN outbox[a] : outbox[a][n].type = "published"}

(* Before its publication an article has no event of it and no published   *)
(* version; afterwards it has both, and the event stays the only one.      *)
OneEvent ==
  \A a \in Articles :
    /\ row[a].status \in ShownStatuses <=> row[a].published # Null
    /\ row[a].published = Null => Publications(a) = {}
    /\ row[a].published # Null => \E n : Publications(a) = {n}

LEMMA OneEventNext ==
  ASSUME SInv, SInv', OneEvent, [Next]_vars  PROVE OneEvent'
<1> SUFFICES ASSUME NEW a \in Articles
             PROVE  /\ row'[a].status \in ShownStatuses <=> row'[a].published # Null
                    /\ row'[a].published = Null => Publications(a)' = {}
                    /\ row'[a].published # Null => \E n : Publications(a)' = {n}
  BY DEF OneEvent
<1>1. CASE Kept(a)
  BY <1>1 DEF Kept, OneEvent, Publications
<1>2. ASSUME NEW type, NEW e, Recorded(a, type, e)
      PROVE  Publications(a)' = IF type = "published"
                                THEN Publications(a) \cup {Len(outbox[a]) + 1}
                                ELSE Publications(a)
  <2> DEFINE n == Len(outbox[a])
  <2>1. /\ DOMAIN outbox'[a] = DOMAIN outbox[a] \cup {n + 1}
        /\ outbox'[a][n + 1].type = type
        /\ n + 1 \notin DOMAIN outbox[a]
        /\ \A k \in DOMAIN outbox[a] : outbox'[a][k] = outbox[a][k]
    BY <1>2, RecordedOnce DEF SInv, LInv, IInv
  <2> HIDE DEF n
  <2>2. QED BY <2>1 DEF Publications, n
<1>3. CASE Created(a)
  <2>1. PICK e : Recorded(a, "created", e)
    BY <1>3 DEF Created
  <2>2. row'[a].status = "draft" /\ row'[a].published = Null /\ row[a].published = Null
    BY <1>3 DEF Created, SInv, Blank, Exists, NoRow
  <2>3. Publications(a)' = {}
    BY <1>2, <2>1, <2>2 DEF OneEvent
  <2>4. QED BY <2>2, <2>3 DEF ShownStatuses
<1>4. CASE Rewritten(a)
  <2>1. PICK e : Recorded(a, "version.created", e)
    BY <1>4 DEF Rewritten
  <2>2. /\ row'[a].status = row[a].status /\ row'[a].published = row[a].published
    BY <1>4 DEF Rewritten
  <2>3. Publications(a)' = Publications(a)
    BY <1>2, <2>1
  <2>4. QED BY <2>2, <2>3 DEF OneEvent
<1>5. CASE Turned(a)
  <2>1. PICK to \in Statuses, e \in HistoryEntry :
          /\ Legal(row[a].status, to) /\ row'[a].status = to
          /\ row'[a].published = IF to = "published" THEN row'[a].approved
                                 ELSE row[a].published
          /\ Recorded(a, to, e)
    BY <1>5 DEF Turned
  <2>2. CASE to = "published"
    <3>1. row'[a].approved = row'[a].current /\ row'[a].current # Null
      BY <2>1, <2>2 DEF SInv, LInv, ConstraintsHold, Constraints, Checks
    <3>2. row[a].status \notin ShownStatuses
      BY <2>1, <2>2 DEF Legal, ShownStatuses
    <3>3. Publications(a) = {}
      BY <3>2 DEF OneEvent
    <3>4. Publications(a)' = {Len(outbox[a]) + 1}
      BY <1>2, <2>1, <2>2, <3>3
    <3>5. QED BY <2>1, <2>2, <3>1, <3>4 DEF ShownStatuses
  <2>3. CASE to # "published"
    <3>1. to \in ShownStatuses <=> row[a].status \in ShownStatuses
      BY <2>1, <2>3 DEF Legal, ShownStatuses
    <3>2. Publications(a)' = Publications(a)
      BY <1>2, <2>1, <2>3
    <3>3. QED BY <2>1, <2>3, <3>1, <3>2 DEF OneEvent
  <2>4. QED BY <2>2, <2>3
<1>6. QED BY <1>1, <1>3, <1>4, <1>5, StepShape DEF SInv

LEMMA OneEventInvariant == Spec => []OneEvent
<1>1. Init => OneEvent
  BY DEF Init, OneEvent, NoRow, ShownStatuses, Publications
<1>2. SInv /\ SInv' /\ OneEvent /\ [Next]_vars => OneEvent'
  BY OneEventNext
<1>3. QED BY <1>1, <1>2, BlankInvariant, PTL DEF Spec

LEMMA OneEventCounts == OneEvent => PublishedOnce
<1> SUFFICES ASSUME OneEvent, NEW a \in Articles
             PROVE  Cardinality(Publications(a)) = IF row[a].published = Null THEN 0 ELSE 1
  BY DEF PublishedOnce, Publications
<1> HIDE DEF Publications
<1>1. CASE row[a].published = Null
  BY <1>1, FS_EmptySet DEF OneEvent
<1>2. CASE row[a].published # Null
  BY <1>2, FS_Singleton DEF OneEvent
<1>3. QED BY <1>1, <1>2

(* An article is published once, by a request or by a scheduler, however   *)
(* many of them try at the same time.                                      *)
THEOREM PublicationHappensOnce == Spec => []PublishedOnce
BY OneEventCounts, OneEventInvariant, PTL

-----------------------------------------------------------------------------
(***************************************************************************)
(* EditsCompose and VersionsImmutable                                      *)
(***************************************************************************)
LEMMA EditsComposeNext ==
  ASSUME SInv, EditsCompose, [Next]_vars  PROVE EditsCompose'
<1> SUFFICES ASSUME NEW a \in Articles
             PROVE  /\ DOMAIN versions'[a] = 1..row'[a].current
                    /\ \A v \in 2..row'[a].current, f \in Fields :
                         versions'[a][v][f] \in {v, versions'[a][v - 1][f]}
                    /\ row'[a].status # "absent" =>
                         row'[a].headline = Copied(versions'[a][row'[a].current])
  BY DEF EditsCompose, Exists
<1>1. CASE Kept(a)
  BY <1>1 DEF Kept, EditsCompose, Exists
<1>2. CASE Turned(a)
  <2>1. /\ row[a].status # "absent" /\ row'[a].current = row[a].current
        /\ row'[a].headline = row[a].headline /\ versions'[a] = versions[a]
    BY <1>2 DEF Turned, Legal
  <2>2. QED BY <2>1 DEF EditsCompose, Exists
<1>3. CASE Created(a)
  <2>1. versions[a] = <<>> /\ DOMAIN versions[a] = {}
    BY <1>3 DEF Created, SInv, Blank, Exists
  <2>2. /\ row'[a].current = 1 /\ row'[a].headline = [f \in Headline |-> 1]
        /\ versions'[a] = WithVersion(a, 1, [f \in Fields |-> 1])
    BY <1>3 DEF Created
  <2>3. DOMAIN versions'[a] = {1} /\ versions'[a][1] = [f \in Fields |-> 1]
    BY <2>1, <2>2 DEF WithVersion
  <2>4. Copied([f \in Fields |-> 1]) = [f \in Headline |-> 1]
    BY EditorialAssumption DEF Copied, EditorialAssumption
  <2>5. 1..1 = {1} /\ 2..1 = {}
    OBVIOUS
  <2>6. QED BY <2>2, <2>3, <2>4, <2>5
<1>4. CASE Rewritten(a)
  <2> DEFINE c == row[a].current
  <2>1. PICK text \in Text :
          /\ \A f \in Fields : text[f] \in {c + 1, versions[a][c][f]}
          /\ row'[a].headline = Copied(text)
          /\ versions'[a] = WithVersion(a, c + 1, text)
          /\ row'[a].current = c + 1
    BY <1>4 DEF Rewritten
  <2>2. c \in Nat /\ DOMAIN versions[a] = 1..c
    BY DEF SInv, LInv, IInv, TypeOK, Row, EditsCompose
  <2>3. /\ DOMAIN versions'[a] = 1..c \cup {c + 1}
        /\ versions'[a][c + 1] = text
        /\ \A v \in 1..c : versions'[a][v] = versions[a][v]
    BY <2>1, <2>2 DEF WithVersion
  <2>4. \A v \in 2..c, f \in Fields : versions[a][v][f] \in {v, versions[a][v - 1][f]}
    BY DEF EditsCompose
  <2> HIDE DEF c
  <2>5. DOMAIN versions'[a] = 1..(c + 1)
    BY <2>2, <2>3
  <2>6. ASSUME NEW v \in 2..(c + 1), NEW f \in Fields
        PROVE  versions'[a][v][f] \in {v, versions'[a][v - 1][f]}
    <3>1. CASE v = c + 1
      <4>1. v - 1 = c /\ c \in 1..c
        BY <2>2, <3>1
      <4>2. QED BY <2>1, <2>3, <3>1, <4>1
    <3>2. CASE v \in 2..c
      <4>1. v \in 1..c /\ v - 1 \in 1..c
        BY <2>2, <3>2
      <4>2. QED BY <2>3, <2>4, <3>2, <4>1
    <3>3. QED BY <2>2, <3>1, <3>2
  <2>7. QED BY <2>1, <2>3, <2>5, <2>6
<1>5. QED BY <1>1, <1>2, <1>3, <1>4, StepShape DEF SInv

(* No edit is lost: versions are numbered without a gap, each keeps what   *)
(* its author did not send, and the row shows the last one.                *)
THEOREM NoEditLost == Spec => []EditsCompose
<1>1. Init => EditsCompose
  BY DEF Init, EditsCompose, NoRow, Exists
<1>2. SInv /\ EditsCompose /\ [Next]_vars => EditsCompose'
  BY EditsComposeNext
<1>3. QED BY <1>1, <1>2, BlankInvariant, PTL DEF Spec

LEMMA TextsKept ==
  ASSUME SInv, EditsCompose, [Next]_vars, NEW a \in Articles
  PROVE  /\ \A v \in DOMAIN versions[a] :
              v \in DOMAIN versions'[a] /\ versions'[a][v] = versions[a][v]
         /\ versions'[a] # versions[a] => row[a].status \in Editable \cup {"absent"}
<1>1. CASE Kept(a) \/ Turned(a)
  BY <1>1 DEF Kept, Turned
<1>2. CASE Created(a)
  <2>1. DOMAIN versions[a] = {} /\ row[a].status = "absent"
    BY <1>2 DEF Created, SInv, Blank, Exists
  <2>2. QED BY <2>1
<1>3. CASE Rewritten(a)
  <2> DEFINE c == row[a].current
  <2>1. /\ row[a].status \in Editable
        /\ \E text : versions'[a] = WithVersion(a, c + 1, text)
    BY <1>3 DEF Rewritten
  <2>2. c \in Nat /\ DOMAIN versions[a] = 1..c
    BY DEF SInv, LInv, IInv, TypeOK, Row, EditsCompose
  <2> HIDE DEF c
  <2>3. \A v \in DOMAIN versions[a] : v # c + 1
    BY <2>2
  <2>4. QED BY <2>1, <2>3 DEF WithVersion
<1>4. QED BY <1>1, <1>2, <1>3, StepShape DEF SInv

(* A stored text is never changed, and none is added to an article that an *)
(* editor is about to judge or has judged.                                 *)
THEOREM StoredTextsKept == Spec => VersionsImmutable
<1> DEFINE Immutable ==
      \A a \in Articles :
        /\ \A v \in DOMAIN versions[a] :
             v \in DOMAIN versions'[a] /\ versions'[a][v] = versions[a][v]
        /\ versions'[a] # versions[a] => row[a].status \in Editable \cup {"absent"}
<1>1. SInv /\ EditsCompose /\ [Next]_vars => Immutable
  BY TextsKept
<1>2. QED BY <1>1, BlankInvariant, NoEditLost, PTL DEF Spec, VersionsImmutable

-----------------------------------------------------------------------------
(***************************************************************************)
(* PublicIsApproved                                                        *)
(***************************************************************************)
Approval(a, i) ==
  /\ history[a][i].action = "approved"
  /\ history[a][i].version = row[a].current
  /\ history[a][i].actor \in Editors
  /\ \A j \in i..Len(history[a]) : history[a][j].action # "version_created"

(* From approval on the history holds an editor's approval of the current  *)
(* version and no later version: it survives until another approval.       *)
Evidence == \A a \in Articles : row[a].status \in AgreedStatuses =>
              \E i \in DOMAIN history[a] : Approval(a, i)

LEMMA EvidenceNext ==
  ASSUME SInv, Evidence, [Next]_vars  PROVE Evidence'
<1> SUFFICES ASSUME NEW a \in Articles, row'[a].status \in AgreedStatuses
             PROVE  \E i \in DOMAIN history'[a] : Approval(a, i)'
  BY DEF Evidence
<1>1. CASE Kept(a)
  BY <1>1 DEF Kept, Evidence, Approval
<1>2. CASE Created(a) \/ Rewritten(a)
  BY <1>2 DEF Created, Rewritten, Editable, AgreedStatuses, ShownStatuses
<1>3. CASE Turned(a)
  <2> DEFINE h == Len(history[a])
  <2>1. PICK to \in Statuses, e \in HistoryEntry :
          /\ Legal(row[a].status, to) /\ row'[a].status = to
          /\ row'[a].current = row[a].current /\ e.action # "version_created"
          /\ to = "approved" => /\ e.action = "approved" /\ e.version = row[a].current
                                /\ e.actor \in Editors
          /\ Recorded(a, to, e)
    BY <1>3 DEF Turned
  <2>2. /\ h \in Nat /\ DOMAIN history[a] = 1..h
        /\ Len(history'[a]) = h + 1 /\ DOMAIN history'[a] = DOMAIN history[a] \cup {h + 1}
        /\ history'[a][h + 1] = e
        /\ \A i \in DOMAIN history[a] : history'[a][i] = history[a][i]
    BY <2>1, RecordedOnce DEF SInv, LInv, IInv
  <2> HIDE DEF h
  <2>3. CASE to = "approved"
    <3> PICK k : k = h + 1
      OBVIOUS
    <3>1. \A j \in k..k : j = k
      BY <2>2
    <3>2. Approval(a, k)'
      BY <2>1, <2>2, <2>3, <3>1 DEF Approval
    <3>3. QED BY <2>2, <3>2
  <2>4. CASE to # "approved"
    <3>1. row[a].status \in AgreedStatuses
      BY <2>1, <2>4 DEF Legal
    <3>2. PICK i \in DOMAIN history[a] : Approval(a, i)
      BY <3>1 DEF Evidence
    <3>3. i \in DOMAIN history'[a] /\ \A j \in i..(h + 1) : j \in i..h \/ j = h + 1
      BY <2>2, <3>2
    <3>4. \A j \in i..h : j \in DOMAIN history[a]
      BY <2>2, <3>2
    <3>5. \A j \in i..h : history[a][j].action # "version_created"
      BY <3>2 DEF Approval, h
    <3>6. Approval(a, i)'
      BY <2>1, <2>2, <3>2, <3>3, <3>4, <3>5 DEF Approval
    <3>7. QED BY <3>3, <3>6
  <2>5. QED BY <2>3, <2>4
<1>4. QED BY <1>1, <1>2, <1>3, StepShape DEF SInv

LEMMA EvidenceShown == SInv /\ EditsCompose /\ Evidence => PublicIsApproved
<1> SUFFICES ASSUME SInv, EditsCompose, Evidence, NEW a \in Articles,
                    row[a].status = "published"
             PROVE  /\ row[a].published \in DOMAIN versions[a]
                    /\ \E i \in DOMAIN history[a] :
                         /\ history[a][i].action = "approved"
                         /\ history[a][i].version = row[a].published
                         /\ history[a][i].actor \in Editors
                         /\ \A j \in i..Len(history[a]) :
                              history[a][j].action # "version_created"
  BY DEF PublicIsApproved
<1>1. row[a].published = row[a].current /\ row[a].current # Null /\ row[a].current \in Nat
  BY DEF SInv, LInv, IInv, TypeOK, Row, ConstraintsHold, Constraints, Checks
<1>2. row[a].current \in DOMAIN versions[a]
  <2>1. DOMAIN versions[a] = 1..row[a].current
    BY DEF EditsCompose
  <2>2. QED BY <1>1, <2>1 DEF Null
<1>3. \E i \in DOMAIN history[a] : Approval(a, i)
  BY DEF Evidence, AgreedStatuses, ShownStatuses
<1>4. QED BY <1>1, <1>2, <1>3 DEF Approval

(* Only text that an editor has approved, and that nobody has written over *)
(* since, is public: whatever cycles of edits, reviews, planned and manual *)
(* publications the article went through.                                  *)
THEOREM OnlyApprovedIsPublic == Spec => []PublicIsApproved
<1>1. Init => Evidence
  BY DEF Init, Evidence, NoRow, AgreedStatuses, ShownStatuses
<1>2. SInv /\ Evidence /\ [Next]_vars => Evidence'
  BY EvidenceNext
<1>3. QED BY <1>1, <1>2, EvidenceShown, BlankInvariant, NoEditLost, PTL DEF Spec

-----------------------------------------------------------------------------
(***************************************************************************)
(* All that holds of the workflow together.                                *)
(***************************************************************************)
Unapproved == \A a \in Articles : row[a].status \notin AgreedStatuses => row[a].approved = Null

LEMMA UnapprovedNext ==
  ASSUME SInv, Unapproved, [Next]_vars  PROVE Unapproved'
<1> SUFFICES ASSUME NEW a \in Articles, row'[a].status \notin AgreedStatuses
             PROVE  row'[a].approved = Null
  BY DEF Unapproved
<1>1. CASE Kept(a)
  BY <1>1 DEF Kept, Unapproved
<1>2. CASE Created(a) \/ Rewritten(a)
  BY <1>2 DEF Created, Rewritten
<1>3. CASE Turned(a)
  <2>1. PICK to \in Statuses :
          /\ Legal(row[a].status, to) /\ row'[a].status = to
          /\ row'[a].approved = (IF to = "approved" THEN row[a].current ELSE row[a].approved)
    BY <1>3 DEF Turned
  <2>2. to # "approved" /\ row[a].status \notin AgreedStatuses
    BY <2>1 DEF Legal, AgreedStatuses
  <2>3. QED BY <2>1, <2>2 DEF Unapproved
<1>4. QED BY <1>1, <1>2, <1>3, StepShape DEF SInv

Workflow == SInv /\ OneEvent /\ EditsCompose /\ Evidence /\ Unapproved

LEMMA WorkflowInit == ASSUME Init, EditorialAssumption PROVE Workflow
<1>1. ConstraintsHold /\ EditorsDecide /\ Blank
  BY DEF Init, ConstraintsHold, Constraints, Checks, NoRow, Null, EditorsDecide, Blank
<1>2. OneEvent
  BY DEF Init, OneEvent, NoRow, ShownStatuses, Publications
<1>3. EditsCompose
  BY DEF Init, EditsCompose, NoRow, Exists
<1>4. Evidence /\ Unapproved
  BY DEF Init, Evidence, Unapproved, NoRow, AgreedStatuses, ShownStatuses
<1>5. QED BY <1>1, <1>2, <1>3, <1>4, InitInv DEF Workflow, SInv, LInv

LEMMA WorkflowNext == ASSUME Workflow, EditorialAssumption, [Next]_vars PROVE Workflow'
<1>1. SInv'
  BY NextInv, ConstraintsNext, EditorsDecideNext, BlankNext DEF Workflow, SInv, LInv
<1>2. QED
  BY <1>1, OneEventNext, EditsComposeNext, EvidenceNext, UnapprovedNext DEF Workflow

(* No approval outlives a return to the author: what is neither approved   *)
(* nor later has no approved version left in its row.                      *)
THEOREM ApprovalExpires == Spec => []Unapproved
<1>1. Init => Workflow
  BY WorkflowInit, EditorialAssumption
<1>2. Workflow /\ [Next]_vars => Workflow'
  BY WorkflowNext, EditorialAssumption
<1>3. Workflow => Unapproved
  BY DEF Workflow
<1>4. QED BY <1>1, <1>2, <1>3, PTL DEF Spec
=============================================================================
